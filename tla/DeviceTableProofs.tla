-------------------------- MODULE DeviceTableProofs --------------------------
(***************************************************************************)
(* Proofs about DeviceTable: its types, that chunks of two block sizes are *)
(* never put into one image, and that every chunk of an image is read from *)
(* the device its source means.  The invariant follows the slots: those    *)
(* the running copy brought stand together from its offset on, and every   *)
(* chunk written so far names the slot of its own device, whether the copy *)
(* it came with ended well or not.  The second part is about ChunkMap: the *)
(* blocks of one file through writing, reading and copying its indexes.    *)
(***************************************************************************)
EXTENDS DeviceTable, ChunkMap, NaturalLemmas

-----------------------------------------------------------------------------
(* roundupPowerOfTwo gives a number no smaller than the one it rounds.     *)
LEMMA RoundsUp ==
    ASSUME NEW v \in Nat
    PROVE  RoundUpPow2(v) \in Nat /\ RoundUpPow2(v) >= v
<1> DEFINE Step(h) == [k \in 0..v |-> IF k = 0 THEN 1 ELSE 2 * h[k - 1]]
           pow == CHOOSE h : h = Step(h)
           S == {pow[k] : k \in 0..v}
           Least(p) == p >= v /\ \A k \in 0..v : pow[k] >= v => p <= pow[k]
<1>1. RoundUpPow2(v) = CHOOSE p \in S : Least(p)
  BY DEF RoundUpPow2
<1>2. PICK f \in [0..v -> Nat] : f[0] = 1 /\ \A k \in 1..v : f[k] = 2 * f[k - 1]
  BY Doubling
<1>3. \A k \in 0..v : f[k] = IF k = 0 THEN 1 ELSE 2 * f[k - 1]
  <2> SUFFICES ASSUME NEW k \in 0..v, k # 0
               PROVE  f[k] = 2 * f[k - 1]
    BY <1>2
  <2>1. k \in 1..v /\ k - 1 \in 0..v
    OBVIOUS
  <2> QED BY <1>2, <2>1
<1>4. f = Step(f)
  <2>1. f = [k \in 0..v |-> f[k]]
    BY <1>2
  <2> QED BY <1>3, <2>1
<1>5. pow = Step(pow)
  <2> HIDE DEF Step
  <2> QED BY <1>4
<1> HIDE DEF pow
<1>6. \A k \in 0..v : pow[k] = IF k = 0 THEN 1 ELSE 2 * pow[k - 1]
  BY <1>5
<1> DEFINE T == {k \in Nat : pow[k] \in Nat /\ pow[k] > k}
<1>7. 0..v \subseteq T
  <2>1. 0 \in T
    BY <1>6
  <2>2. ASSUME NEW k \in 0..v, k \in T, k < v
        PROVE  k + 1 \in T
    <3>1. k + 1 \in 0..v /\ k + 1 # 0 /\ (k + 1) - 1 = k
      BY <2>2
    <3>2. pow[k + 1] = 2 * pow[k]
      BY <1>6, <3>1
    <3> QED BY <2>2, <3>1, <3>2
  <2> HIDE DEF T
  <2> QED BY <2>1, <2>2, BoundedInduction
<1>8. \A k \in 0..v : pow[k] \in Nat /\ pow[k] > k
  BY <1>7
<1> DEFINE B == {p \in S : p >= v}
<1>9. PICK p \in B : \A q \in B : p <= q
  <2>1. B \subseteq Nat
    BY <1>8
  <2>2. pow[v] \in B
    BY <1>8
  <2> HIDE DEF B
  <2> QED BY <2>1, <2>2, LeastElement
<1>10. p \in S /\ Least(p)
  BY <1>8, <1>9
<1> DEFINE r == CHOOSE q \in S : Least(q)
<1>11. r \in S /\ Least(r)
  <2> HIDE DEF S, Least
  <2> QED BY <1>10
<1>12. r \in Nat /\ r >= v
  BY <1>8, <1>11
<1> HIDE DEF r
<1> QED BY <1>1, <1>12 DEF r

(* The mask keeps the ids of the table.                                    *)
LEMMA MaskKeeps ==
    ASSUME NEW img, Len(img.slots) \in Nat, NEW id \in Nat
    PROVE  /\ Masked(img, id) \in Nat
           /\ id \in 1..Len(img.slots) => Masked(img, id) = id
<1> DEFINE m == IdMod(img)
<1>1. m \in Nat /\ m > Len(img.slots)
  <2>1. Len(img.slots) + 1 \in Nat
    OBVIOUS
  <2>2. m \in Nat /\ m >= Len(img.slots) + 1
    BY <2>1, RoundsUp DEF IdMod
  <2> QED BY <2>2
<1>2. Masked(img, id) = IF Len(img.slots) = 0 THEN 0 ELSE id % m
  BY DEF Masked
<1> HIDE DEF m
<1>3. id % m \in Nat /\ (id < m => id % m = id)
  BY <1>1
<1> QED BY <1>1, <1>2, <1>3

-----------------------------------------------------------------------------
(* Types.  A running copy knows where its source came from, and what is    *)
(* left of it are files of that source.                                    *)
Copying == [source : Natives \cup Image, metaOnly : BOOLEAN, offset : Nat, left : SUBSET Files]

CopyType ==
    Running =>
      /\ copy \in Copying /\ copy.offset <= Len(devices)
      /\ FromImage =>
           /\ copy.source \in Image
           /\ copy.left \subseteq {c.file : c \in copy.source.chunks}
      /\ ~FromImage =>
           /\ copy.source \in Natives
           /\ copy.left \subseteq {<<copy.source.name, id>> : id \in copy.source.ids}

Types == TypeOK /\ CopyType /\ (dataFile => Len(devices) >= 1)

LEMMA ImageHasSlots ==
    /\ \A x \in Image : "slots" \in DOMAIN x
    /\ \A x \in Natives : "slots" \notin DOMAIN x
<1>1. \A x \in Image : "slots" \in DOMAIN x
  BY DEF Image
<1>2. ASSUME NEW x \in Natives
      PROVE  "slots" \notin DOMAIN x
  <2>1. x \in [name : Int, block : BlockSizes \cup {0}, blocks : Nat, ids : SUBSET Nat, shared : BOOLEAN]
    BY DeviceAssumption
  <2>2. DOMAIN x = {"name", "block", "blocks", "ids", "shared"}
    BY <2>1
  <2> QED BY <2>2
<1> QED BY <1>1, <1>2

LEMMA RunningIs == ASSUME NEW c \in Copying PROVE c # NoCopy
<1>1. c.offset \in Nat
  BY DEF Copying
<1>2. NoCopy.offset = -1
  BY DEF NoCopy
<1> QED BY <1>1, <1>2

LEMMA GivenTypes == Given \in Seq(Image) /\ Len(Given) \in Nat
BY DeviceAssumption

LEMMA ReservedFacts ==
    ASSUME NEW df \in BOOLEAN, NEW k \in Numbers
    PROVE  /\ Reserved(df, k) \in Seq(Slot)
           /\ df => Len(Reserved(df, k)) = 1 /\ Reserved(df, k)[1].what = DataDeviceOf(k)
<1>1. [what |-> DataDeviceOf(k), blocks |-> 0] \in Slot
  BY DEF DataDeviceOf, Slot, Device
<1> QED BY <1>1 DEF Reserved

(* The slots a copy brings stand for the devices of its source.            *)
LEMMA SlotsOfFacts ==
    ASSUME images \in Seq(Image), NEW k \in DOMAIN images
    PROVE  /\ images[k] \in Image /\ images[k].slots \in Seq(Slot)
           /\ SlotsOf(k) \in Seq(Slot)
           /\ Len(SlotsOf(k)) = Len(images[k].slots)
           /\ \A i \in 1..Len(images[k].slots) : SlotsOf(k)[i].what = images[k].slots[i].what
<1>1. images[k] \in Image
  OBVIOUS
<1>2. images[k].slots \in Seq(Slot)
  BY <1>1 DEF Image
<1> DEFINE slots == images[k].slots
<1>3. Len(slots) \in Nat /\ DOMAIN slots = 1..Len(slots)
  BY <1>2
<1>4. ASSUME NEW i \in 1..Len(slots)
      PROVE  slots[i].what \in Device /\ BlocksRead(k, i) \in Nat
  <2>1. \A j \in 1..Len(slots) : slots[j].what \in Device /\ slots[j].blocks \in Nat
    <3>1. \A j \in 1..Len(slots) : slots[j] \in Slot
      BY <1>2
    <3> HIDE DEF slots
    <3> QED BY <3>1 DEF Slot
  <2> HIDE DEF slots
  <2>2. CASE k <= Len(Given)
    BY <2>1, <2>2 DEF BlocksRead, slots
  <2>3. CASE ~(k <= Len(Given))
    <3>1. BlocksRead(k, i) = WrittenAt(images[k], DevtSlotOff + i - 1)
      BY <2>3 DEF BlocksRead
    <3>2. WrittenAt(images[k], 8 + i - 1) = IF i = 1 THEN 0 ELSE slots[i - 1].blocks
      <4>1. 8 + i - 1 = 8 <=> i = 1
        BY <1>3
      <4>2. (8 + i - 1) - 8 = i - 1
        BY <1>3
      <4> QED BY <4>1, <4>2 DEF WrittenAt, SbUnit, VolumeName, slots
    <3>3. i # 1 => i - 1 \in 1..Len(slots)
      BY <1>3
    <3> QED BY <2>1, <3>1, <3>2, <3>3 DEF DevtSlotOff, SbUnit
  <2> QED BY <2>1, <2>2, <2>3
<1> DEFINE cell(i) == [what |-> slots[i].what, blocks |-> BlocksRead(k, i)]
<1>5. SlotsOf(k) = [i \in 1..Len(slots) |-> cell(i)]
  BY <1>3 DEF SlotsOf
<1>6. \A i \in 1..Len(slots) : cell(i) \in Slot /\ cell(i).what = slots[i].what
  BY <1>4 DEF Slot
<1> HIDE DEF cell, slots
<1>7. [i \in 1..Len(slots) |-> cell(i)] \in Seq(Slot)
  BY <1>3, <1>6
<1>8. Len(SlotsOf(k)) = Len(slots)
  BY <1>3, <1>5
<1> QED BY <1>1, <1>2, <1>5, <1>6, <1>7, <1>8 DEF slots

(* A block appended to the data file: the table keeps its devices.         *)
LEMMA AppendedFacts ==
    ASSUME Types, NEW f \in Files, Appended(f), dataFile
    PROVE  /\ block' \in BlockSizes /\ (block # 0 => block' = block)
           /\ devices' \in Seq(Slot) /\ Len(devices') = Len(devices) /\ Len(devices) >= 1
           /\ \A i \in 1..Len(devices) : devices'[i].what = devices[i].what
           /\ \A c \in chunks' : c \in chunks \/ (c.from = DataDevice /\ c.unit = block' /\ c.dev = 1)
           /\ chunks' \subseteq Chunk
<1>1. block \in BlockSizes \cup {0} /\ devices \in Seq(Slot) /\ chunks \subseteq Chunk /\ images \in Seq(Image)
  BY DEF Types, TypeOK
<1>2. block' = Pinned /\ Pinned \in BlockSizes /\ (block # 0 => block' = block) /\ Pinned \in Nat
  BY <1>1, DeviceAssumption DEF Appended, Pinned
<1>3. Len(devices) \in Nat /\ Len(devices) >= 1 /\ 1 \in 1..Len(devices)
  BY <1>1 DEF Types
<1>4. \A i \in 1..Len(devices) : devices[i] \in [what : Device, blocks : Nat]
  <2>1. \A i \in 1..Len(devices) : devices[i] \in Slot
    BY <1>1
  <2> QED BY <2>1 DEF Slot
<1>5. PICK first : first = [devices[1] EXCEPT !.blocks = devices[1].blocks + 1]
  OBVIOUS
<1>6. first \in Slot /\ first.what = devices[1].what
  BY <1>3, <1>4, <1>5 DEF Slot
<1>7. devices' = [devices EXCEPT ![1] = first]
  BY <1>5 DEF Appended
<1>8. /\ devices' \in Seq(Slot) /\ Len(devices') = Len(devices)
      /\ \A i \in 1..Len(devices) : devices'[i].what = devices[i].what
  BY <1>1, <1>3, <1>6, <1>7, CellReplaced
<1>9. DataDevice \in Device
  BY <1>1, DeviceAssumption, GivenTypes DEF Types, TypeOK, DataDevice, DataDeviceOf, Me, Device, Numbers
<1> DEFINE new == [file |-> f, from |-> DataDevice, unit |-> Pinned, dev |-> 1]
<1>10. chunks' = {c \in chunks : c.file # f} \cup {new}
  BY DEF Appended, Replace
<1>11. new \in Chunk /\ new.from = DataDevice /\ new.unit = block' /\ new.dev = 1
  BY <1>2, <1>9 DEF Chunk
<1> HIDE DEF new
<1> QED BY <1>1, <1>2, <1>3, <1>8, <1>10, <1>11

(* A file referred to keeps its data: its new chunk names a slot of the    *)
(* copy's source.                                                          *)
LEMMA ReferredFacts ==
    ASSUME Types, NEW f \in Files, ItemReferred(f)
    PROVE  \E new \in Chunk :
             /\ chunks' = {c \in chunks : c.file # f} \cup {new}
             /\ shifted' \in [NativeFiles -> Nat]
             /\ FromImage => \E c \in copy.source.chunks :
                   /\ new.from = c.from /\ new.unit = c.unit
                   /\ new.dev = Masked(copy.source, c.dev) + copy.offset
             /\ ~FromImage =>
                   /\ copy.source \in Natives /\ f[2] \in copy.source.ids
                   /\ new.from = [of |-> copy.source.name, dev |-> f[2]]
                   /\ new.unit = copy.source.block
                   /\ ~copy.source.shared => new.dev = f[2] + copy.offset
<1>1. Running /\ f \in copy.left /\ copy \in Copying /\ copy.offset \in Nat /\ CopyType
  BY DEF Types, ItemReferred, CopyType, Copying
<1>2. shifted \in [NativeFiles -> Nat]
  BY DEF Types, TypeOK
<1>3. CASE FromImage
  <2>1. copy.source \in Image /\ \E c \in copy.source.chunks : c.file = f
    BY <1>1, <1>3 DEF CopyType
  <2> DEFINE c == CHOOSE x \in copy.source.chunks : x.file = f
             new == [c EXCEPT !.dev = Masked(copy.source, c.dev) + copy.offset]
  <2>2. c \in copy.source.chunks
    BY <2>1
  <2>3. c \in Chunk /\ Len(copy.source.slots) \in Nat
    BY <2>1, <2>2 DEF Image
  <2>4. chunks' = {x \in chunks : x.file # f} \cup {new} /\ shifted' = shifted
    BY <1>3 DEF ItemReferred, Replace
  <2> HIDE DEF c
  <2>5. Masked(copy.source, c.dev) \in Nat
    BY <2>3, MaskKeeps DEF Chunk
  <2>6. /\ new \in Chunk /\ new.from = c.from /\ new.unit = c.unit
        /\ new.dev = Masked(copy.source, c.dev) + copy.offset
    BY <1>1, <2>3, <2>5 DEF Chunk
  <2> HIDE DEF new
  <2> QED BY <1>2, <1>3, <2>2, <2>4, <2>6
<1>4. CASE ~FromImage
  <2>1. copy.source \in Natives /\ f \in {<<copy.source.name, id>> : id \in copy.source.ids}
    BY <1>1, <1>4 DEF CopyType
  <2>2. PICK i \in copy.source.ids : f = <<copy.source.name, i>>
    BY <2>1
  <2>3. /\ copy.source \in [name : Int, block : BlockSizes \cup {0}, blocks : Nat, ids : SUBSET Nat,
                            shared : BOOLEAN]
        /\ f[2] = i /\ i \in Nat
    BY <2>1, <2>2, DeviceAssumption
  <2>4. f \in NativeFiles /\ shifted[f] \in Nat
    BY <1>2, <2>1 DEF NativeFiles
  <2>5. PICK id : id = f[2] + (IF copy.source.shared THEN shifted[f] ELSE 0) + copy.offset
    OBVIOUS
  <2>6. id \in Nat /\ (~copy.source.shared => id = f[2] + copy.offset)
    BY <1>1, <2>3, <2>4, <2>5
  <2> DEFINE new == [file |-> f, from |-> [of |-> copy.source.name, dev |-> f[2]],
                     unit |-> copy.source.block, dev |-> id]
  <2>7. chunks' = {x \in chunks : x.file # f} \cup {new}
    BY <1>4, <2>5 DEF ItemReferred, Replace
  <2>8. shifted' = [shifted EXCEPT ![f] = shifted[f] + copy.offset]
    BY <1>4 DEF ItemReferred
  <2>9. shifted' \in [NativeFiles -> Nat]
    BY <1>1, <1>2, <2>4, <2>8
  <2>10. copy.source.block \in Nat
    <3>1. copy.source.block \in BlockSizes \/ copy.source.block = 0
      BY <2>3
    <3>2. \A b \in BlockSizes : b \in Nat
      BY DeviceAssumption
    <3> HIDE DEF new
    <3> QED BY <3>1, <3>2
  <2>11. [of |-> copy.source.name, dev |-> f[2]] \in Device
    BY <2>1, <2>3 DEF Device
  <2>12. /\ new \in Chunk /\ new.unit = copy.source.block /\ new.dev = id
         /\ new.from = [of |-> copy.source.name, dev |-> f[2]]
    BY <2>6, <2>10, <2>11 DEF Chunk
  <2> HIDE DEF new
  <2> QED BY <1>4, <2>1, <2>2, <2>3, <2>6, <2>7, <2>9, <2>12
<1> QED BY <1>3, <1>4

LEMMA CopyNativeTyped ==
    ASSUME Types, NEW s \in Natives, NEW m \in BOOLEAN, CopyNative(s, m)
    PROVE  /\ Types' /\ Running' /\ ~FromImage' /\ copy'.source = s
           /\ m /\ s.blocks # 0 => /\ copy'.offset = Len(devices)
                                   /\ Len(devices') = Len(devices) + 1
                                   /\ devices'[Len(devices) + 1].what = [of |-> s.name, dev |-> 1]
           /\ Len(devices') >= Len(devices)
           /\ \A i \in 1..Len(devices) : devices'[i] = devices[i]
<1>1. /\ s \in [name : Int, block : BlockSizes \cup {0}, blocks : Nat, ids : SUBSET Nat,
                shared : BOOLEAN]
      /\ devices \in Seq(Slot) /\ Len(devices) \in Nat /\ block \in BlockSizes \cup {0}
  BY DeviceAssumption DEF Types, TypeOK
<1>2. PICK slot : slot = [what |-> [of |-> s.name, dev |-> 1], blocks |-> s.blocks]
  OBVIOUS
<1>3. slot \in Slot /\ slot.what = [of |-> s.name, dev |-> 1]
  BY <1>1, <1>2 DEF Slot, Device
<1>4. devices' = IF m /\ s.blocks # 0 THEN Append(devices, slot) ELSE devices
  BY <1>2 DEF CopyNative
<1>5. /\ devices' \in Seq(Slot) /\ Len(devices') >= Len(devices)
      /\ m /\ s.blocks # 0 => Len(devices') = Len(devices) + 1 /\ devices'[Len(devices) + 1] = slot
      /\ \A i \in 1..Len(devices) : devices'[i] = devices[i]
  BY <1>1, <1>3, <1>4
<1> DEFINE off == IF m /\ s.blocks # 0 THEN Len(devices) ELSE 0
           own == {<<s.name, id>> : id \in s.ids}
<1>6. copy' = [source |-> s, metaOnly |-> m, offset |-> off, left |-> own]
  BY DEF CopyNative
<1>7. own \subseteq NativeFiles /\ own \subseteq Files
  BY DEF NativeFiles, Files
<1>8. off \in Nat /\ off <= Len(devices')
  BY <1>1, <1>5
<1> HIDE DEF own, off
<1>9. /\ copy' \in Copying /\ copy'.source = s /\ copy'.left = own /\ copy'.offset = off
  BY <1>6, <1>7, <1>8 DEF Copying
<1>10. Running' /\ ~FromImage'
  BY <1>9, RunningIs, ImageHasSlots DEF Running, FromImage
<1>11. CopyType'
  BY <1>8, <1>9, <1>10 DEF CopyType, own
<1>12. TypeOK'
  <2>1. block' \in BlockSizes \cup {0}
    BY <1>1 DEF CopyNative, SetBlock
  <2>2. copies' \in 0..MaxCopies
    BY DeviceAssumption DEF Types, TypeOK, CopyNative
  <2>3. copy'.offset \in 0..Len(devices') /\ copy'.left \subseteq Files
    BY <1>1, <1>5, <1>7, <1>8, <1>9
  <2>4. UNCHANGED <<images, dataFile, chunks, shifted>>
    BY DEF CopyNative
  <2> QED BY <1>5, <2>1, <2>2, <2>3, <2>4 DEF Types, TypeOK
<1>13. dataFile' => Len(devices') >= 1
  BY <1>1, <1>5 DEF CopyNative, Types
<1> QED BY <1>3, <1>5, <1>9, <1>10, <1>11, <1>12, <1>13 DEF Types, off

LEMMA CopyImageTyped ==
    ASSUME Types, NEW k \in DOMAIN images, NEW m \in BOOLEAN, CopyImage(k, m)
    PROVE  /\ Types' /\ Running' /\ FromImage' /\ copy'.source = images[k]
           /\ copy'.offset = Len(devices)
           /\ m => /\ Len(devices') = Len(devices) + Len(images[k].slots)
                   /\ \A i \in 1..Len(images[k].slots) :
                        devices'[Len(devices) + i].what = images[k].slots[i].what
           /\ Len(devices') >= Len(devices)
           /\ \A i \in 1..Len(devices) : devices'[i] = devices[i]
<1>1. /\ images \in Seq(Image) /\ images[k] \in Image
      /\ devices \in Seq(Slot) /\ Len(devices) \in Nat /\ block \in BlockSizes \cup {0}
  BY DEF Types, TypeOK
<1>2. /\ SlotsOf(k) \in Seq(Slot) /\ images[k].slots \in Seq(Slot)
      /\ Len(SlotsOf(k)) = Len(images[k].slots) /\ Len(SlotsOf(k)) \in Nat
      /\ \A i \in 1..Len(images[k].slots) : SlotsOf(k)[i].what = images[k].slots[i].what
  BY <1>1, SlotsOfFacts
<1>3. devices' = IF m THEN devices \o SlotsOf(k) ELSE devices
  BY DEF CopyImage
<1>4. /\ devices' \in Seq(Slot) /\ Len(devices') >= Len(devices)
      /\ m => Len(devices') = Len(devices) + Len(SlotsOf(k))
      /\ m => \A i \in 1..Len(SlotsOf(k)) : devices'[Len(devices) + i] = SlotsOf(k)[i]
      /\ \A i \in 1..Len(devices) : devices'[i] = devices[i]
  <2> DEFINE sl == SlotsOf(k)
  <2>1. sl \in Seq(Slot) /\ Len(sl) \in Nat
    BY <1>2
  <2> HIDE DEF sl
  <2>2. CASE m
    <3>1. devices' = devices \o sl
      BY <1>3, <2>2 DEF sl
    <3>2. /\ devices' \in Seq(Slot) /\ Len(devices') = Len(devices) + Len(sl)
          /\ \A i \in 1..Len(devices) : devices'[i] = devices[i]
          /\ \A i \in 1..Len(sl) : devices'[Len(devices) + i] = sl[i]
      BY <1>1, <2>1, <3>1
    <3> QED BY <1>1, <2>1, <3>2 DEF sl
  <2>3. CASE ~m
    BY <1>1, <1>3, <2>3
  <2> QED BY <2>2, <2>3
<1> DEFINE own == {c.file : c \in images[k].chunks}
<1>5. copy' = [source |-> images[k], metaOnly |-> m, offset |-> Len(devices), left |-> own]
  BY DEF CopyImage, ImageOffset
<1>6. own \subseteq Files
  BY <1>1 DEF Image, Chunk
<1> HIDE DEF own
<1>7. /\ copy' \in Copying /\ copy'.source = images[k] /\ copy'.left = own /\ copy'.offset = Len(devices)
  BY <1>1, <1>5, <1>6 DEF Copying
<1>8. Running' /\ FromImage'
  BY <1>1, <1>7, RunningIs, ImageHasSlots DEF Running, FromImage
<1>9. CopyType'
  BY <1>1, <1>4, <1>7, <1>8 DEF CopyType, own
<1>10. TypeOK'
  <2>1. block' \in BlockSizes \cup {0}
    <3>1. images[k].block \in BlockSizes
      BY <1>1 DEF Image
    <3> QED BY <1>1, <3>1 DEF CopyImage, SetBlock
  <2>2. copies' \in 0..MaxCopies
    BY DeviceAssumption DEF Types, TypeOK, CopyImage
  <2>3. copy'.offset \in 0..Len(devices') /\ copy'.left \subseteq Files
    BY <1>1, <1>4, <1>6, <1>7
  <2>4. UNCHANGED <<images, dataFile, chunks, shifted>>
    BY DEF CopyImage
  <2> QED BY <1>4, <2>1, <2>2, <2>3, <2>4 DEF Types, TypeOK
<1>11. dataFile' => Len(devices') >= 1
  BY <1>1, <1>4 DEF CopyImage, Types
<1> QED BY <1>2, <1>4, <1>7, <1>8, <1>9, <1>10, <1>11 DEF Types

(* The copy goes on with one file less.                                    *)
LEMMA CopyGoesOn ==
    ASSUME Types, Running, NEW f, copy' = [copy EXCEPT !.left = copy.left \ {f}],
           Len(devices') = Len(devices)
    PROVE  /\ Running' /\ CopyType' /\ FromImage' = FromImage
           /\ copy'.source = copy.source /\ copy'.offset = copy.offset /\ copy'.metaOnly = copy.metaOnly
           /\ copy'.offset \in 0..Len(devices') /\ copy'.left \subseteq Files
<1>1. copy \in Copying /\ devices \in Seq(Slot) /\ Len(devices) \in Nat
  BY DEF Types, TypeOK, CopyType
<1>2. /\ copy' \in Copying /\ copy'.source = copy.source /\ copy'.offset = copy.offset
      /\ copy'.metaOnly = copy.metaOnly
      /\ copy'.left = copy.left \ {f} /\ copy.left \subseteq Files /\ copy.offset \in Nat
  BY <1>1 DEF Copying
<1>3. Running'
  BY <1>2, RunningIs DEF Running
<1>4. FromImage' = FromImage
  BY <1>2 DEF FromImage
<1>5. CopyType'
  BY <1>2, <1>3, <1>4 DEF CopyType, Types
<1>6. copy.offset <= Len(devices)
  BY DEF Types, CopyType
<1> QED BY <1>1, <1>2, <1>3, <1>4, <1>5, <1>6

LEMMA ItemReferredTyped ==
    ASSUME Types, NEW f \in Files, ItemReferred(f)
    PROVE  Types' /\ Running'
<1>1. Running /\ copy' = [copy EXCEPT !.left = copy.left \ {f}]
  BY DEF ItemReferred
<1>2. UNCHANGED <<images, block, devices, dataFile, copies>>
  BY DEF ItemReferred
<1>3. Running' /\ CopyType' /\ copy'.offset \in 0..Len(devices') /\ copy'.left \subseteq Files
  BY <1>1, <1>2, CopyGoesOn
<1>4. chunks' \subseteq Chunk /\ shifted' \in [NativeFiles -> Nat]
  <2>1. PICK new \in Chunk : /\ chunks' = {c \in chunks : c.file # f} \cup {new}
                            /\ shifted' \in [NativeFiles -> Nat]
    BY ReferredFacts
  <2> QED BY <2>1 DEF Types, TypeOK
<1> QED BY <1>2, <1>3, <1>4 DEF Types, TypeOK

LEMMA ItemCopiedTyped ==
    ASSUME Types, NEW f \in Files, ItemCopied(f)
    PROVE  Types' /\ Running'
<1>1. Running /\ copy' = [copy EXCEPT !.left = copy.left \ {f}]
  BY DEF ItemCopied
<1>2. UNCHANGED <<images, dataFile, shifted, copies>>
  BY DEF ItemCopied
<1>3. /\ block' \in BlockSizes \cup {0} /\ devices' \in Seq(Slot) /\ Len(devices') = Len(devices)
      /\ chunks' \subseteq Chunk
  <2>1. CASE dataFile
    BY <2>1, AppendedFacts DEF ItemCopied
  <2>2. CASE ~dataFile
    BY <2>2 DEF ItemCopied, Replace, Types, TypeOK
  <2> QED BY <2>1, <2>2
<1>4. Running' /\ CopyType' /\ copy'.offset \in 0..Len(devices') /\ copy'.left \subseteq Files
  BY <1>1, <1>3, CopyGoesOn
<1> QED BY <1>2, <1>3, <1>4 DEF Types, TypeOK

LEMMA OwnFileTyped ==
    ASSUME Types, OwnFile
    PROVE  Types' /\ ~Running'
<1>1. ~Running /\ dataFile /\ Appended(Own) /\ UNCHANGED <<images, dataFile, copy, shifted, copies>>
  BY DEF OwnFile
<1>2. Own \in Files
  BY DEF Files
<1>3. /\ block' \in BlockSizes /\ devices' \in Seq(Slot) /\ Len(devices') = Len(devices)
      /\ chunks' \subseteq Chunk
  BY <1>1, <1>2, AppendedFacts
<1>4. ~Running' /\ CopyType'
  BY <1>1 DEF Running, CopyType
<1> QED BY <1>1, <1>3, <1>4 DEF Types, TypeOK

(* The image that Close makes.                                             *)
LEMMA CloseTyped ==
    ASSUME Types, Close
    PROVE  /\ Types' /\ ~Running'
           /\ images' \in Seq(Image) /\ Len(images') = Len(images) + 1
           /\ \A k \in 1..Len(images) : images'[k] = images[k]
           /\ images'[Len(images) + 1].block = Pinned
           /\ images'[Len(images) + 1].slots = devices
           /\ images'[Len(images) + 1].chunks = chunks
           /\ dataFile' => Len(devices') = 1 /\ devices'[1].what = DataDeviceOf(Len(images') + 1)
           /\ chunks' = {}
<1>1. /\ images \in Seq(Image) /\ Len(images) \in Nat /\ Len(images) < Len(Given) + MaxImages
      /\ block \in BlockSizes \cup {0} /\ devices \in Seq(Slot) /\ chunks \subseteq Chunk
      /\ MaxImages \in Nat /\ Len(Given) \in Nat
  BY DeviceAssumption, GivenTypes DEF Types, TypeOK, Close
<1>2. Me \in Numbers /\ Me + 1 \in Numbers /\ Me = Len(images) + 1
  BY <1>1 DEF Me, Numbers
<1>3. Pinned \in BlockSizes
  BY <1>1, DeviceAssumption DEF Pinned
<1> DEFINE img == [name |-> Me, block |-> Pinned, slots |-> devices, chunks |-> chunks]
<1>4. /\ img \in Image /\ img.block = Pinned /\ img.slots = devices /\ img.chunks = chunks
  BY <1>1, <1>2, <1>3 DEF Image
<1>5. images' = Append(images, img)
  BY DEF Close
<1> HIDE DEF img
<1>6. /\ images' \in Seq(Image) /\ Len(images') = Len(images) + 1
      /\ images'[Len(images) + 1] = img /\ \A k \in 1..Len(images) : images'[k] = images[k]
  BY <1>1, <1>4, <1>5
<1>7. /\ block' \in BlockSizes \cup {0} /\ dataFile' \in BOOLEAN /\ chunks' = {} /\ ~Running
      /\ devices' = Reserved(dataFile', Me + 1) /\ UNCHANGED <<copy, shifted, copies>>
  BY DEF Close
<1>8. /\ devices' \in Seq(Slot)
      /\ dataFile' => Len(devices') = 1 /\ devices'[1].what = DataDeviceOf(Me + 1)
  BY <1>2, <1>7, ReservedFacts
<1>9. ~Running' /\ CopyType'
  BY <1>7 DEF Running, CopyType
<1>10. TypeOK'
  BY <1>1, <1>6, <1>7, <1>8, <1>9 DEF Types, TypeOK
<1>11. dataFile' => Len(devices') >= 1
  <2>1. Len(devices') = 1 => Len(devices') >= 1
    OBVIOUS
  <2> QED BY <1>8, <2>1, Zenon
<1> QED BY <1>2, <1>4, <1>6, <1>7, <1>8, <1>9, <1>10, <1>11 DEF Types

LEMMA TypesInit ==
    ASSUME Init
    PROVE  Types /\ ~Running
<1>1. Given \in Seq(Image) /\ Len(Given) \in Nat /\ MaxImages \in Nat /\ MaxCopies \in Nat
  BY DeviceAssumption, GivenTypes
<1>2. Me \in Numbers /\ dataFile \in BOOLEAN /\ devices = Reserved(dataFile, Me)
  BY <1>1 DEF Init, Me, Numbers
<1>3. devices \in Seq(Slot) /\ (dataFile => Len(devices) = 1)
  BY <1>2, ReservedFacts
<1>4. ~Running /\ CopyType
  BY DEF Init, Running, CopyType
<1>5. TypeOK
  BY <1>1, <1>2, <1>3, <1>4 DEF Init, TypeOK
<1> QED BY <1>3, <1>4, <1>5 DEF Types

LEMMA TypesStep ==
    ASSUME Types, [Next]_vars
    PROVE  Types'
<1>1. CASE \E s \in Natives, m \in BOOLEAN : CopyNative(s, m)
  BY <1>1, CopyNativeTyped
<1>2. CASE \E k \in DOMAIN images, m \in BOOLEAN : CopyImage(k, m)
  BY <1>2, CopyImageTyped
<1>3. CASE \E f \in Files : ItemReferred(f)
  BY <1>3, ItemReferredTyped
<1>4. CASE \E f \in Files : ItemCopied(f)
  BY <1>4, ItemCopiedTyped
<1>5. CASE CopyReturn
  BY <1>5 DEF CopyReturn, wvars, Types, TypeOK, CopyType, Running
<1>6. CASE OwnFile
  BY <1>6, OwnFileTyped
<1>7. CASE Close
  BY <1>7, CloseTyped
<1>8. CASE UNCHANGED vars
  BY <1>8 DEF vars, Types, TypeOK, CopyType, Running, FromImage
<1> QED BY <1>1, <1>2, <1>3, <1>4, <1>5, <1>6, <1>7, <1>8 DEF Next

(* Every state is well typed: the tables of the images and of the Writer   *)
(* have a block count and a device in each slot, and no copy counts from   *)
(* beyond the end of the table (mkfs.go:402-424).                          *)
THEOREM Typed == Spec => []TypeOK
<1>1. Init => Types
  BY TypesInit
<1>2. Types /\ [Next]_vars => Types'
  BY TypesStep
<1>3. Types => TypeOK
  BY DEF Types
<1> QED BY <1>1, <1>2, <1>3, PTL DEF Spec

-----------------------------------------------------------------------------
(* Block sizes.  Once the Writer has one it keeps it, and every chunk it   *)
(* has, with the source it is copying from, counts in it or in none.       *)
SourceInUnit ==
    /\ copy.source.block \in {0, block}
    /\ FromImage => \A c \in copy.source.chunks : c.unit \in {0, copy.source.block}
OneSize ==
    /\ \A k \in 1..Len(images) : \A c \in images[k].chunks : c.unit \in {0, images[k].block}
    /\ \A c \in chunks : c.unit \in {0, block}
    /\ Running => SourceInUnit

LEMMA UnitsInit ==
    ASSUME GivenInOneUnit, Init
    PROVE  OneSize
BY GivenTypes, TypesInit DEF Init, GivenInOneUnit, OneSize

(* All steps but Close leave the images and the block size, once set.      *)
LEMMA UnitsKept ==
    ASSUME OneSize, images' = images, block # 0 => block' = block,
           \A c \in chunks' : c \in chunks \/ c.unit \in {0, block'},
           Running' => SourceInUnit'
    PROVE  OneSize'
BY DEF OneSize

LEMMA UnitsStep ==
    ASSUME Types, OneSize, [Next]_vars
    PROVE  OneSize'
<1>1. CASE \E s \in Natives, m \in BOOLEAN : CopyNative(s, m)
  <2>1. PICK s \in Natives, m \in BOOLEAN : CopyNative(s, m)
    BY <1>1
  <2>2. /\ images' = images /\ chunks' = chunks /\ copy'.source = s /\ BlockFits(s.block)
        /\ block' = IF block # 0 THEN block ELSE s.block
    BY <2>1 DEF CopyNative, SetBlock
  <2>3. ~FromImage'
    BY <2>1, CopyNativeTyped
  <2>4. SourceInUnit'
    BY <2>2, <2>3 DEF BlockFits, SourceInUnit
  <2> QED BY <2>2, <2>4, UnitsKept
<1>2. CASE \E k \in DOMAIN images, m \in BOOLEAN : CopyImage(k, m)
  <2>1. PICK k \in DOMAIN images, m \in BOOLEAN : CopyImage(k, m)
    BY <1>2
  <2>2. /\ images' = images /\ chunks' = chunks /\ copy'.source = images[k] /\ BlockFits(images[k].block)
        /\ block' = IF block # 0 THEN block ELSE images[k].block
    BY <2>1 DEF CopyImage, SetBlock
  <2>3. \A c \in images[k].chunks : c.unit \in {0, images[k].block}
    <3>1. k \in 1..Len(images)
      BY DEF Types, TypeOK
    <3> QED BY <3>1 DEF OneSize
  <2>4. SourceInUnit'
    BY <2>2, <2>3 DEF BlockFits, SourceInUnit
  <2> QED BY <2>2, <2>4, UnitsKept
<1>3. CASE \E f \in Files : ItemReferred(f)
  <2>1. PICK f \in Files : ItemReferred(f)
    BY <1>3
  <2>2. /\ Running /\ copy' = [copy EXCEPT !.left = copy.left \ {f}]
        /\ UNCHANGED <<images, block, devices>>
    BY <2>1 DEF ItemReferred
  <2>3. copy'.source = copy.source /\ FromImage' = FromImage
    BY <2>2, CopyGoesOn
  <2>4. PICK new \in Chunk :
          /\ chunks' = {c \in chunks : c.file # f} \cup {new}
          /\ FromImage => \E c \in copy.source.chunks : new.unit = c.unit
          /\ ~FromImage => new.unit = copy.source.block
    BY <2>1, ReferredFacts
  <2>5. SourceInUnit /\ SourceInUnit'
    BY <2>2, <2>3 DEF OneSize, SourceInUnit
  <2>6. new.unit \in {0, block}
    <3>1. CASE FromImage
      <4>1. PICK c \in copy.source.chunks : new.unit = c.unit
        BY <2>4, <3>1
      <4>2. c.unit \in {0, copy.source.block}
        BY <2>5, <3>1, <4>1 DEF SourceInUnit
      <4> QED BY <2>5, <4>1, <4>2 DEF SourceInUnit
    <3> QED BY <2>4, <2>5, <3>1 DEF SourceInUnit
  <2> QED BY <2>2, <2>3, <2>4, <2>5, <2>6, UnitsKept
<1>4. CASE \E f \in Files : ItemCopied(f)
  <2>1. PICK f \in Files : ItemCopied(f)
    BY <1>4
  <2>2. Running /\ images' = images /\ copy' = [copy EXCEPT !.left = copy.left \ {f}]
    BY <2>1 DEF ItemCopied
  <2>3. /\ block # 0 => block' = block
        /\ Len(devices') = Len(devices)
        /\ \A c \in chunks' : c \in chunks \/ c.unit = block'
    <3>1. CASE dataFile
      BY <2>1, <3>1, AppendedFacts DEF ItemCopied
    <3>2. CASE ~dataFile
      BY <2>1, <3>2 DEF ItemCopied, Replace
    <3> QED BY <3>1, <3>2
  <2>4. copy'.source = copy.source /\ FromImage' = FromImage
    BY <2>2, <2>3, CopyGoesOn
  <2>5. SourceInUnit'
    BY <2>2, <2>3, <2>4 DEF OneSize, SourceInUnit
  <2> QED BY <2>2, <2>3, <2>5, UnitsKept
<1>5. CASE CopyReturn
  BY <1>5, UnitsKept DEF CopyReturn, wvars, Running
<1>6. CASE OwnFile
  <2>1. dataFile /\ Appended(Own) /\ images' = images /\ ~Running' /\ Own \in Files
    BY <1>6, OwnFileTyped DEF OwnFile, Files
  <2> QED BY <2>1, AppendedFacts, UnitsKept
<1>7. CASE Close
  <2>1. /\ Len(images) \in Nat /\ block \in BlockSizes \cup {0}
    BY DEF Types, TypeOK
  <2>2. /\ Len(images') = Len(images) + 1 /\ ~Running' /\ chunks' = {}
        /\ \A k \in 1..Len(images) : images'[k] = images[k]
        /\ images'[Len(images) + 1].block = Pinned
        /\ images'[Len(images) + 1].chunks = chunks
    BY <1>7, CloseTyped
  <2>3. \A c \in chunks : c.unit \in {0, Pinned}
    BY DEF OneSize, Pinned
  <2>4. ASSUME NEW k \in 1..Len(images'), NEW c \in images'[k].chunks
        PROVE  c.unit \in {0, images'[k].block}
    <3>1. CASE k = Len(images) + 1
      BY <2>2, <2>3, <3>1
    <3>2. CASE k \in 1..Len(images)
      BY <2>2, <3>2 DEF OneSize
    <3> QED BY <2>1, <2>2, <3>1, <3>2
  <2> QED BY <2>2, <2>4 DEF OneSize
<1>8. CASE UNCHANGED vars
  BY <1>8 DEF vars, OneSize, Running, SourceInUnit, FromImage
<1> QED BY <1>1, <1>2, <1>3, <1>4, <1>5, <1>6, <1>7, <1>8 DEF Next

(* mkfs.go:1289, :1309: setBlockSize refuses a source of another block     *)
(* size before anything is copied, and a data file settles the size, so    *)
(* the chunks of an image all count in its own.                            *)
THEOREM ChunksCountAlike ==
    ASSUME GivenInOneUnit
    PROVE  Spec => []OneUnit
<1>1. Init => Types /\ OneSize
  BY TypesInit, UnitsInit
<1>2. Types /\ OneSize /\ [Next]_vars => Types' /\ OneSize'
  BY TypesStep, UnitsStep
<1>3. Types /\ OneSize => OneUnit
  <2> SUFFICES ASSUME Types, OneSize, NEW k \in (Len(Given) + 1)..Len(images), NEW c \in images[k].chunks
               PROVE  c.unit \in {0, images[k].block}
    BY DEF OneUnit, Made
  <2>1. k \in 1..Len(images)
    BY GivenTypes
  <2> QED BY <2>1 DEF OneSize
<1> QED BY <1>1, <1>2, <1>3, PTL DEF Spec

-----------------------------------------------------------------------------
(* Devices.  Every chunk the Writer has names the slot of its device; the  *)
(* slots a metadata-only copy brought follow its offset, in their order;   *)
(* the data file has the first slot.                                       *)
Brought ==
    /\ ~FromImage => /\ copy.offset + 1 \in 1..Len(devices)
                     /\ devices[copy.offset + 1].what = [of |-> copy.source.name, dev |-> 1]
    /\ FromImage =>
         /\ \A c \in copy.source.chunks : OnItsDevice(copy.source, c)
         /\ \A i \in 1..Len(copy.source.slots) :
              /\ copy.offset + i \in 1..Len(devices)
              /\ devices[copy.offset + i].what = copy.source.slots[i].what
Slotted(c) == c.dev \in 1..Len(devices) /\ devices[c.dev].what = c.from

Devices ==
    /\ \A k \in 1..Len(images) : \A c \in images[k].chunks : OnItsDevice(images[k], c)
    /\ \A c \in chunks : Slotted(c)
    /\ dataFile => devices[1].what = DataDevice
    /\ Running /\ copy.metaOnly => Brought

LEMMA DevicesInit ==
    ASSUME SourcesOnDevices, Init
    PROVE  Devices
<1>1. Me \in Numbers /\ devices = Reserved(dataFile, Me) /\ dataFile \in BOOLEAN
  BY DeviceAssumption, GivenTypes DEF Init, Me, Numbers
<1>2. dataFile => devices[1].what = DataDevice
  BY <1>1, ReservedFacts DEF DataDevice
<1>3. ~Running
  BY TypesInit
<1> QED BY <1>2, <1>3, GivenTypes DEF Init, SourcesOnDevices, Devices

(* All steps but Close leave the images and the devices in their slots.    *)
SlotsStay ==
    /\ images' = images /\ dataFile' = dataFile
    /\ Len(devices') >= Len(devices)
    /\ \A i \in 1..Len(devices) : devices'[i].what = devices[i].what

LEMMA DevicesKept ==
    ASSUME Types, Types', Devices, SlotsStay,
           \A c \in chunks' : c \in chunks \/ Slotted(c)',
           Running' /\ copy'.metaOnly => Brought'
    PROVE  Devices'
<1>1. Len(devices) \in Nat /\ Len(devices') \in Nat /\ Len(devices') >= Len(devices)
  BY DEF Types, TypeOK, SlotsStay
<1>2. ASSUME NEW c \in chunks'
      PROVE  Slotted(c)'
  <2>1. CASE c \in chunks
    <3>1. Slotted(c)
      BY <2>1 DEF Devices
    <3> QED BY <1>1, <3>1 DEF Slotted, SlotsStay
  <2> QED BY <2>1
<1>3. dataFile' => devices'[1].what = DataDevice'
  <2> SUFFICES ASSUME dataFile'
               PROVE  devices'[1].what = DataDevice'
    OBVIOUS
  <2>1. dataFile /\ 1 \in 1..Len(devices)
    BY <1>1 DEF SlotsStay, Types
  <2> QED BY <2>1 DEF SlotsStay, Devices, DataDevice, Me
<1>4. \A k \in 1..Len(images') : \A c \in images'[k].chunks : OnItsDevice(images'[k], c)
  BY DEF SlotsStay, Devices
<1> QED BY <1>2, <1>3, <1>4 DEF Devices, OnItsDevice, Masked, IdMod

(* What a copy brought is still there when one of its files is done.       *)
LEMMA BroughtKept ==
    ASSUME Types, Types', Devices, SlotsStay, Running, Running',
           copy'.source = copy.source, copy'.offset = copy.offset, copy'.metaOnly = copy.metaOnly
    PROVE  copy'.metaOnly => Brought'
<1> SUFFICES ASSUME copy'.metaOnly
             PROVE  Brought'
  OBVIOUS
<1>1. Brought /\ FromImage' = FromImage
  BY DEF Devices, FromImage
<1>2. Len(devices) \in Nat /\ Len(devices') \in Nat /\ Len(devices') >= Len(devices)
  BY DEF Types, TypeOK, SlotsStay
<1>3. CASE ~FromImage
  <2>1. copy.offset + 1 \in 1..Len(devices)
    BY <1>1, <1>3 DEF Brought
  <2>2. copy.offset + 1 \in 1..Len(devices')
    BY <1>2, <2>1
  <2>3. devices'[copy.offset + 1].what = [of |-> copy.source.name, dev |-> 1]
    BY <1>1, <1>3, <2>1 DEF Brought, SlotsStay
  <2> QED BY <1>1, <1>3, <2>2, <2>3 DEF Brought
<1>4. CASE FromImage
  <2>1. ASSUME NEW i \in 1..Len(copy.source.slots)
        PROVE  /\ copy.offset + i \in 1..Len(devices')
               /\ devices'[copy.offset + i].what = copy.source.slots[i].what
    <3>1. /\ copy.offset + i \in 1..Len(devices)
          /\ devices[copy.offset + i].what = copy.source.slots[i].what
      BY <1>1, <1>4 DEF Brought
    <3> QED BY <1>2, <3>1 DEF SlotsStay
  <2>2. \A c \in copy.source.chunks : OnItsDevice(copy.source, c)
    BY <1>1, <1>4 DEF Brought
  <2> QED BY <1>1, <1>4, <2>1, <2>2 DEF Brought, OnItsDevice, Masked, IdMod
<1> QED BY <1>3, <1>4

LEMMA DevicesStep ==
    ASSUME SourcesOnDevices, Types, Types', Devices, [Next]_vars
    PROVE  Devices'
<1>0. devices \in Seq(Slot) /\ Len(devices) \in Nat /\ images \in Seq(Image) /\ Len(images) \in Nat
  BY DEF Types, TypeOK
<1>1. CASE \E s \in Natives, m \in BOOLEAN : CopyNative(s, m)
  <2>1. PICK s \in Natives, m \in BOOLEAN : CopyNative(s, m)
    BY <1>1
  <2>2. images' = images /\ dataFile' = dataFile /\ chunks' = chunks /\ copy'.metaOnly = m /\ s.blocks # 0
    BY <2>1 DEF CopyNative, SourcesOnDevices
  <2>3. SlotsStay
    BY <2>1, <2>2, CopyNativeTyped DEF SlotsStay
  <2>4. copy'.metaOnly => Brought'
    <3> SUFFICES ASSUME m
                 PROVE  Brought'
      BY <2>2
    <3>1. /\ ~FromImage' /\ copy'.source = s /\ copy'.offset = Len(devices)
          /\ Len(devices') = Len(devices) + 1
          /\ devices'[Len(devices) + 1].what = [of |-> s.name, dev |-> 1]
      BY <2>1, <2>2, CopyNativeTyped
    <3> QED BY <1>0, <3>1 DEF Brought
  <2> QED BY <2>2, <2>3, <2>4, DevicesKept
<1>2. CASE \E k \in DOMAIN images, m \in BOOLEAN : CopyImage(k, m)
  <2>1. PICK k \in DOMAIN images, m \in BOOLEAN : CopyImage(k, m)
    BY <1>2
  <2>2. images' = images /\ dataFile' = dataFile /\ chunks' = chunks /\ copy'.metaOnly = m
    BY <2>1 DEF CopyImage
  <2>3. SlotsStay
    BY <2>1, <2>2, CopyImageTyped DEF SlotsStay
  <2>4. copy'.metaOnly => Brought'
    <3> SUFFICES ASSUME m
                 PROVE  Brought'
      BY <2>2
    <3>1. /\ FromImage' /\ copy'.source = images[k] /\ copy'.offset = Len(devices)
          /\ Len(devices') = Len(devices) + Len(images[k].slots)
          /\ \A i \in 1..Len(images[k].slots) :
               devices'[Len(devices) + i].what = images[k].slots[i].what
      BY <2>1, CopyImageTyped
    <3>2. \A c \in images[k].chunks : OnItsDevice(images[k], c)
      BY <1>0 DEF Devices
    <3>3. Len(images[k].slots) \in Nat
      BY <1>0, SlotsOfFacts
    <3>4. \A i \in 1..Len(images[k].slots) : Len(devices) + i \in 1..Len(devices')
      BY <1>0, <3>1, <3>3
    <3> QED BY <3>1, <3>2, <3>4 DEF Brought, OnItsDevice, Masked, IdMod
  <2> QED BY <2>2, <2>3, <2>4, DevicesKept
<1>3. CASE \E f \in Files : ItemReferred(f)
  <2>1. PICK f \in Files : ItemReferred(f)
    BY <1>3
  <2>2. /\ Running /\ copy.metaOnly /\ copy' = [copy EXCEPT !.left = copy.left \ {f}]
        /\ images' = images /\ dataFile' = dataFile /\ devices' = devices
    BY <2>1 DEF ItemReferred
  <2>3. SlotsStay
    BY <1>0, <2>2 DEF SlotsStay
  <2>4. /\ Running' /\ copy'.source = copy.source /\ copy'.offset = copy.offset
        /\ copy'.metaOnly = copy.metaOnly
    BY <2>2, CopyGoesOn
  <2>5. Brought /\ (copy'.metaOnly => Brought')
    BY <2>2, <2>3, <2>4, BroughtKept DEF Devices
  <2>6. PICK new \in Chunk :
          /\ chunks' = {c \in chunks : c.file # f} \cup {new}
          /\ FromImage => \E c \in copy.source.chunks :
                /\ new.from = c.from /\ new.dev = Masked(copy.source, c.dev) + copy.offset
          /\ ~FromImage =>
                /\ copy.source \in Natives /\ f[2] \in copy.source.ids
                /\ new.from = [of |-> copy.source.name, dev |-> f[2]]
                /\ ~copy.source.shared => new.dev = f[2] + copy.offset
    BY <2>1, ReferredFacts
  <2>7. copy.offset \in Nat
    BY <2>2 DEF Types, TypeOK
  <2>8. Slotted(new)
    <3>1. CASE FromImage
      <4>1. PICK c \in copy.source.chunks :
              new.from = c.from /\ new.dev = Masked(copy.source, c.dev) + copy.offset
        BY <2>6, <3>1
      <4>2. OnItsDevice(copy.source, c)
        BY <2>5, <3>1 DEF Brought
      <4>3. PICK i : i = Masked(copy.source, c.dev)
        OBVIOUS
      <4>4. i \in 1..Len(copy.source.slots) /\ copy.source.slots[i].what = c.from
        BY <4>2, <4>3 DEF OnItsDevice
      <4>5. copy.offset + i \in 1..Len(devices) /\ devices[copy.offset + i].what = c.from
        BY <2>5, <3>1, <4>4 DEF Brought
      <4>6. new.dev = copy.offset + i
        <5>1. copy.source.slots \in Seq(Slot)
          BY <2>2, <3>1 DEF Types, CopyType, Image
        <5> QED BY <2>7, <4>1, <4>3, <4>4, <5>1
      <4> QED BY <4>1, <4>5, <4>6 DEF Slotted
    <3>2. CASE ~FromImage
      <4>1. copy.source \in Natives /\ f[2] = 1 /\ ~copy.source.shared
        BY <2>6, <3>2 DEF SourcesOnDevices
      <4>2. new.dev = copy.offset + 1 /\ new.from = [of |-> copy.source.name, dev |-> 1]
        BY <2>6, <2>7, <3>2, <4>1
      <4> QED BY <2>5, <3>2, <4>2 DEF Brought, Slotted
    <3> QED BY <3>1, <3>2
  <2>9. \A c \in chunks' : c \in chunks \/ Slotted(c)'
    BY <2>2, <2>6, <2>8 DEF Slotted
  <2> QED BY <2>3, <2>5, <2>9, DevicesKept
<1>4. CASE \E f \in Files : ItemCopied(f)
  <2>1. PICK f \in Files : ItemCopied(f)
    BY <1>4
  <2>2. /\ Running /\ ~copy.metaOnly /\ copy' = [copy EXCEPT !.left = copy.left \ {f}]
        /\ images' = images /\ dataFile' = dataFile
    BY <2>1 DEF ItemCopied
  <2>3. CASE dataFile
    <3>1. Appended(f)
      BY <2>1, <2>3 DEF ItemCopied
    <3>2. SlotsStay /\ Len(devices') = Len(devices)
      BY <1>0, <2>2, <2>3, <3>1, AppendedFacts DEF SlotsStay
    <3>3. copy'.metaOnly = copy.metaOnly
      BY <2>2, <3>2, CopyGoesOn
    <3>4. \A c \in chunks' : c \in chunks \/ Slotted(c)'
      BY <1>0, <2>3, <3>1, AppendedFacts DEF Devices, Slotted
    <3> QED BY <2>2, <3>2, <3>3, <3>4, DevicesKept
  <2>4. CASE ~dataFile
    <3>1. devices' = devices /\ chunks' \subseteq chunks
      BY <2>1, <2>4 DEF ItemCopied, Replace
    <3>2. SlotsStay
      BY <1>0, <2>2, <3>1 DEF SlotsStay
    <3>3. copy'.metaOnly = copy.metaOnly
      BY <2>2, <3>1, CopyGoesOn
    <3> QED BY <2>2, <3>1, <3>2, <3>3, DevicesKept
  <2> QED BY <2>3, <2>4
<1>5. CASE CopyReturn
  <2>1. SlotsStay /\ ~Running' /\ chunks' = chunks
    BY <1>0, <1>5 DEF CopyReturn, wvars, SlotsStay, Running
  <2> QED BY <2>1, DevicesKept
<1>6. CASE OwnFile
  <2>1. dataFile /\ Appended(Own) /\ images' = images /\ dataFile' = dataFile /\ Own \in Files
    BY <1>6 DEF OwnFile, Files
  <2>2. SlotsStay
    BY <1>0, <2>1, AppendedFacts DEF SlotsStay
  <2>3. \A c \in chunks' : c \in chunks \/ Slotted(c)'
    BY <1>0, <2>1, AppendedFacts DEF Devices, Slotted
  <2>4. ~Running'
    BY <1>6, OwnFileTyped
  <2> QED BY <2>2, <2>3, <2>4, DevicesKept
<1>7. CASE Close
  <2>1. /\ Len(images') = Len(images) + 1 /\ ~Running' /\ chunks' = {}
        /\ \A k \in 1..Len(images) : images'[k] = images[k]
        /\ images'[Len(images) + 1].slots = devices
        /\ images'[Len(images) + 1].chunks = chunks
        /\ dataFile' => devices'[1].what = DataDeviceOf(Len(images') + 1)
    BY <1>7, CloseTyped
  <2>2. ASSUME NEW k \in 1..Len(images'), NEW c \in images'[k].chunks
        PROVE  OnItsDevice(images'[k], c)
    <3>1. CASE k = Len(images) + 1
      <4> DEFINE img == images'[k]
      <4>1. img.slots = devices /\ c \in chunks /\ Slotted(c) /\ c.dev \in Nat
        BY <1>0, <2>1, <3>1 DEF Devices, Slotted
      <4> HIDE DEF img
      <4>2. Masked(img, c.dev) = c.dev
        BY <1>0, <4>1, MaskKeeps DEF Slotted
      <4> QED BY <4>1, <4>2 DEF OnItsDevice, Slotted, img
    <3>2. CASE k \in 1..Len(images)
      BY <2>1, <3>2 DEF Devices
    <3> QED BY <1>0, <2>1, <3>1, <3>2
  <2>3. dataFile' => devices'[1].what = DataDevice'
    BY <2>1 DEF DataDevice, Me
  <2> QED BY <2>1, <2>2, <2>3 DEF Devices, OnItsDevice, Masked, IdMod
<1>8. CASE UNCHANGED vars
  <2>1. SlotsStay /\ chunks' = chunks /\ copy' = copy
    BY <1>0, <1>8 DEF vars, SlotsStay
  <2>2. Running' = Running
    BY <2>1 DEF Running
  <2> QED BY <2>1, <2>2, BroughtKept, DevicesKept
<1> QED BY <1>1, <1>2, <1>3, <1>4, <1>5, <1>6, <1>7, <1>8 DEF Next

(* mkfs.go:1066-1070, mkfs_image.go:282: the shift by the slots that were  *)
(* there before leads every chunk to the slot of its own device, and       *)
(* nothing that comes after, another copy, one that fails, the data file   *)
(* or the next Writer, changes what that slot stands for.                  *)
THEOREM EveryChunkResolves ==
    ASSUME SourcesOnDevices
    PROVE  Spec => []ResolvesOwn
<1>1. Init => Types /\ Devices
  BY TypesInit, DevicesInit
<1>2. Types /\ Devices /\ [Next]_vars => Types' /\ Devices'
  BY TypesStep, DevicesStep
<1>3. Types /\ Devices => ResolvesOwn
  <2> SUFFICES ASSUME Types, Devices, NEW k \in (Len(Given) + 1)..Len(images), NEW c \in images[k].chunks
               PROVE  Resolved(images[k], c) = c.from
    BY DEF ResolvesOwn, Made
  <2>1. k \in 1..Len(images) /\ images[k] \in Image
    BY GivenTypes DEF Types, TypeOK
  <2>2. OnItsDevice(images[k], c) /\ images[k].slots \in Seq(Slot)
    BY <2>1 DEF Devices, Image
  <2> DEFINE id == Masked(images[k], c.dev)
  <2>3. id \in 1..Len(images[k].slots) /\ images[k].slots[id].what = c.from /\ id # 0
    BY <2>2 DEF OnItsDevice
  <2>4. Resolved(images[k], c) = CASE id = 0 -> Primary(images[k].name)
                                   [] id \in 1..Len(images[k].slots) -> images[k].slots[id].what
                                   [] OTHER -> [of |-> images[k].name, dev |-> -1]
    BY DEF Resolved
  <2> HIDE DEF id
  <2> QED BY <2>3, <2>4
<1> QED BY <1>1, <1>2, <1>3, PTL DEF Spec
-----------------------------------------------------------------------------
(***************************************************************************)
(* The chunks of one file (ChunkMap), for any block size, widths, files    *)
(* and number of copies.  While indexes are written, the current chunk and *)
(* the offset in it stand for the same block of the file as the number of  *)
(* indexes (Emitted); once a file is copied as contiguous it has a single  *)
(* index, which every later copy hands on (Recopied).                      *)
(***************************************************************************)
Fields ==
    /\ stage \in {"emit", "image", "parse"} /\ size \in Nat \ {0}
    /\ size <= BlockSize * PerChunk(MaxBits)
    /\ list \in Seq(ListChunk) /\ gbits \in 0..MaxBits /\ bits \in 0..MaxBits
    /\ idx \in Seq(Index) /\ n \in Nat /\ ci \in Nat \ {0} /\ coff \in Nat /\ copied \in Nat

(* The indexes there are.                                                  *)
Counted ==
    /\ n <= NChunks(bits)
    /\ Len(idx) = IF stage = "emit" THEN n ELSE NChunks(bits)
    /\ \A j \in 1..Len(idx) : FitIndex(idx[j])
    /\ copied > 0 /\ stage # "parse" => NChunks(bits) = 1 /\ NBlocks <= PerChunk(bits)
    /\ copied > 0 /\ stage = "emit" /\ n = 0 => ci = 1 /\ coff = 0
    /\ stage = "parse" /\ n = 0 => list = <<>>
    /\ \A k \in 1..Len(list) : list[k].phys < NullAddr /\ list[k].dev <= Len(Mapped)

Sum(k) == Before(list)[k]
Per == PerChunk(bits)

(* Chunk k of the list holds the first block of chunk j of the file.       *)
StartsIn(j, k) == Sum(k) <= (j - 1) * Per /\ (j - 1) * Per < Sum(k + 1)

(* The first image, from a list of chunks.                                 *)
Emitted ==
    /\ stage # "parse"
    /\ truth = [b \in 0..(NBlocks - 1) |-> Listed(list, b)]
    /\ \A k \in 1..Len(list) : FitChunk(list[k])
    /\ \A j \in 1..Len(idx) :
         /\ (j - 1) * Per >= Sum(Len(list) + 1) => idx[j] = NullIndex
         /\ \A k \in 1..Len(list) : StartsIn(j, k) =>
              /\ idx[j].lo = list[k].phys + (j - 1) * Per - Sum(k)
              /\ idx[j].dev = list[k].dev
    /\ stage = "emit" =>
         \/ ci \in 1..Len(list) /\ Sum(ci) + coff = n * Per /\ n * Per < Sum(ci + 1)
         \/ ci = Len(list) + 1 /\ n * Per >= Sum(ci)

(* An image of another tool is what its reader takes it for.               *)
ByOthers == stage = "image" /\ truth = [b \in 0..(NBlocks - 1) |-> LoadBlock(b)]

(* Of a file that is one run, a copy keeps the first index.                *)
FirstIndex == idx[1].lo = truth[0].at /\ idx[1].lo # NullAddr /\ idx[1].dev = truth[0].dev
FirstChunk == list # <<>> /\ list[1].phys = truth[0].at /\ list[1].dev = truth[0].dev
Recopied ==
    /\ stage = "emit" => FirstChunk /\ (n = 1 => FirstIndex)
    /\ stage = "image" => FirstIndex
    /\ stage = "parse" => FirstIndex /\ (n > 0 => FirstChunk)

MapInv ==
    /\ Fields /\ Counted
    /\ copied = 0 => IF list # <<>> THEN Emitted ELSE ByOthers
    /\ copied > 0 /\ OneRun => Recopied

-----------------------------------------------------------------------------
LEMMA Powers ==
    ASSUME Parameters, NEW b \in Nat
    PROVE  PerChunk(b) \in Nat \ {0} /\ PerChunk(b) > b
<1> DEFINE Turn(h) == [k \in 0..b |-> IF k = 0 THEN 1 ELSE 2 * h[k - 1]]
           pow == CHOOSE h : h = Turn(h)
<1>1. PICK f \in [0..b -> Nat] : f[0] = 1 /\ \A k \in 1..b : f[k] = 2 * f[k - 1]
  BY Doubling
<1>2. \A k \in 0..b : f[k] = IF k = 0 THEN 1 ELSE 2 * f[k - 1]
  <2> SUFFICES ASSUME NEW k \in 0..b, k # 0
               PROVE  f[k] = 2 * f[k - 1]
    BY <1>1
  <2> QED BY <1>1
<1>3. f = Turn(f)
  <2>1. f = [k \in 0..b |-> f[k]]
    BY <1>1
  <2> QED BY <1>2, <2>1
<1>4. pow = Turn(pow)
  <2> HIDE DEF Turn
  <2> QED BY <1>3
<1>5. PerChunk(b) = pow[b]
  BY DEF PerChunk
<1> HIDE DEF pow
<1>6. \A k \in 0..b : pow[k] = IF k = 0 THEN 1 ELSE 2 * pow[k - 1]
  BY <1>4
<1> DEFINE T == {k \in Nat : pow[k] \in Nat /\ pow[k] > k}
<1>7. 0..b \subseteq T
  <2>1. 0 \in T
    BY <1>6
  <2>2. ASSUME NEW k \in 0..b, k \in T, k < b
        PROVE  k + 1 \in T
    <3>1. k + 1 \in 0..b /\ k + 1 # 0 /\ (k + 1) - 1 = k
      BY <2>2
    <3>2. pow[k + 1] = 2 * pow[k]
      BY <1>6, <3>1
    <3> QED BY <2>2, <3>1, <3>2
  <2> HIDE DEF T
  <2> QED BY <2>1, <2>2, BoundedInduction
<1>8. b \in T
  BY <1>7
<1> QED BY <1>5, <1>8

(* The mask does not cut the id of a device of the table.                  *)
LEMMA NotMasked ==
    ASSUME Parameters, NEW d \in 0..Len(Mapped)
    PROVE  d % MaskMod = d
<1> DEFINE len == Len(Mapped)
           S == {PerChunk(k) : k \in 0..len}
           B == {p \in S : p > len}
<1>1. len \in Nat
  BY DEF Parameters
<1>2. \A k \in 0..len : PerChunk(k) \in Nat /\ PerChunk(k) > k
  BY <1>1, Powers
<1>3. B \subseteq Nat /\ PerChunk(len) \in B
  BY <1>1, <1>2
<1>4. PICK p \in B : \A q \in B : p <= q
  <2> HIDE DEF B
  <2> QED BY <1>3, LeastElement
<1>5. p \in S /\ p > len /\ \A k \in 0..len : PerChunk(k) > len => p <= PerChunk(k)
  BY <1>4
<1>6. MaskMod > len /\ MaskMod \in S
  BY <1>5 DEF MaskMod
<1>7. MaskMod \in Nat
  BY <1>2, <1>6
<1> QED BY <1>1, <1>6, <1>7

LEMMA MappedAlone ==
    ASSUME Parameters, InRange, NEW d \in 0..Len(Mapped), NEW a \in Nat
    PROVE  MapDev(d, a) = [dev |-> d, at |-> a]
<1>1. \A e \in DeviceIds : Mapped[e].start = 0
  BY DEF InRange
<1>2. Len(Mapped) \in Nat
  BY DEF Parameters
<1>3. CASE d \in DeviceIds
  BY <1>3 DEF MapDev
<1>4. CASE d = 0
  BY <1>1, <1>2, <1>4 DEF MapDev, DeviceIds
<1> QED BY <1>2, <1>3, <1>4 DEF DeviceIds
-----------------------------------------------------------------------------
(* The list of chunks: the blocks before each of them.                     *)
LEMMA Sums ==
    ASSUME Parameters, NEW cs \in Seq(ListChunk)
    PROVE  /\ Before(cs)[1] = 0
           /\ \A k \in 1..(Len(cs) + 1) : Before(cs)[k] \in Nat
           /\ \A k \in 1..Len(cs) : Before(cs)[k + 1] = Before(cs)[k] + cs[k].count
<1> DEFINE m == Len(cs) + 1
           Turn(h) == [k \in 1..m |-> IF k = 1 THEN 0 ELSE h[k - 1] + cs[k - 1].count]
           sum == CHOOSE h : h = Turn(h)
           g == [k \in 1..Len(cs) |-> cs[k].count]
<1>0. m \in Nat /\ Len(cs) \in Nat
  OBVIOUS
<1>1. \A k \in 1..Len(cs) : g[k] \in Nat /\ g[k] = cs[k].count
  <2> SUFFICES ASSUME NEW k \in 1..Len(cs)
               PROVE  cs[k].count \in Nat
    OBVIOUS
  <2>1. cs[k] \in ListChunk
    BY <1>0
  <2> QED BY <2>1 DEF Parameters, ListChunk
<1>2. PICK f \in [0..Len(cs) -> Nat] : f[0] = 0 /\ \A k \in 1..Len(cs) : f[k] = f[k - 1] + g[k]
  <2> HIDE DEF g
  <2> QED BY <1>0, <1>1, PartialSums
<1> HIDE DEF g
<1> DEFINE h == [k \in 1..m |-> f[k - 1]]
<1>3. h = Turn(h)
  <2>1. ASSUME NEW k \in 1..m
        PROVE  f[k - 1] = IF k = 1 THEN 0 ELSE h[k - 1] + cs[k - 1].count
    <3>1. CASE k = 1
      BY <1>2, <3>1
    <3>2. CASE k # 1
      <4>1. k - 1 \in 1..Len(cs) /\ k - 1 \in 1..m
        BY <1>0, <3>2
      <4>2. h[k - 1] = f[(k - 1) - 1]
        BY <4>1
      <4> QED BY <1>1, <1>2, <3>2, <4>1, <4>2
    <3> QED BY <3>1, <3>2
  <2> QED BY <2>1
<1>4. sum = Turn(sum)
  <2> HIDE DEF Turn, h
  <2> QED BY <1>3
<1>5. Before(cs) = sum
  BY DEF Before
<1> HIDE DEF sum
<1>6. \A k \in 1..m : sum[k] = IF k = 1 THEN 0 ELSE sum[k - 1] + cs[k - 1].count
  BY <1>4
<1>7. sum[1] = 0 /\ \A k \in 1..Len(cs) : sum[k + 1] = sum[k] + cs[k].count
  <2>1. 1 \in 1..m
    BY <1>0
  <2>2. ASSUME NEW k \in 1..Len(cs)
        PROVE  sum[k + 1] = sum[k] + cs[k].count
    <3>1. k + 1 \in 1..m /\ k + 1 # 1 /\ (k + 1) - 1 = k
      BY <1>0
    <3> QED BY <1>6, <3>1
  <2> QED BY <1>6, <2>1, <2>2
<1> DEFINE T == {k \in Nat : sum[k + 1] \in Nat}
<1>8. 0..Len(cs) \subseteq T
  <2>1. 0 \in T
    BY <1>7
  <2>2. ASSUME NEW k \in 0..Len(cs), k \in T, k < Len(cs)
        PROVE  k + 1 \in T
    <3>1. k + 1 \in 1..Len(cs) /\ sum[k + 1] \in Nat
      BY <1>0, <2>2
    <3>2. sum[(k + 1) + 1] = sum[k + 1] + cs[k + 1].count /\ cs[k + 1].count \in Nat
      BY <1>1, <1>7, <3>1
    <3>3. sum[(k + 1) + 1] \in Nat
      BY <3>1, <3>2
    <3> QED BY <1>0, <3>1, <3>3
  <2> HIDE DEF T
  <2> QED BY <1>0, <2>1, <2>2, BoundedInduction
<1>9. ASSUME NEW k \in 1..m
      PROVE  sum[k] \in Nat
  <2>1. k - 1 \in 0..Len(cs) /\ (k - 1) + 1 = k
    BY <1>0
  <2>2. k - 1 \in T
    <3> HIDE DEF T
    <3> QED BY <1>8, <2>1
  <2> QED BY <2>1, <2>2
<1> QED BY <1>5, <1>7, <1>9

LEMMA SumsGrow ==
    ASSUME Parameters, NEW cs \in Seq(ListChunk), NEW i \in 1..(Len(cs) + 1),
           NEW j \in 1..(Len(cs) + 1), i <= j
    PROVE  Before(cs)[i] <= Before(cs)[j]
<1> DEFINE S == Before(cs)
           T == {k \in Nat : i <= k + 1 => S[i] <= S[k + 1]}
<1>1. /\ Len(cs) \in Nat /\ S[1] = 0
      /\ \A k \in 1..(Len(cs) + 1) : S[k] \in Nat
      /\ \A k \in 1..Len(cs) : S[k + 1] = S[k] + cs[k].count /\ cs[k].count \in Nat
  <2>1. \A k \in 1..Len(cs) : cs[k].count \in Nat
    <3> SUFFICES ASSUME NEW k \in 1..Len(cs)
                 PROVE  cs[k].count \in Nat
      OBVIOUS
    <3>1. cs[k] \in ListChunk
      OBVIOUS
    <3> QED BY <3>1 DEF Parameters, ListChunk
  <2> QED BY <2>1, Sums
<1> HIDE DEF S
<1>2. 0..Len(cs) \subseteq T
  <2>1. 0 \in T
    BY <1>1
  <2>2. ASSUME NEW k \in 0..Len(cs), k \in T, k < Len(cs)
        PROVE  k + 1 \in T
    <3>1. k + 1 \in 1..Len(cs)
      BY <1>1, <2>2
    <3>2. S[(k + 1) + 1] = S[k + 1] + cs[k + 1].count /\ cs[k + 1].count \in Nat /\ S[k + 1] \in Nat
      BY <1>1, <3>1
    <3>3. CASE i <= k + 1
      BY <1>1, <2>2, <3>1, <3>2, <3>3
    <3>4. CASE i = (k + 1) + 1
      BY <1>1, <3>1, <3>2, <3>4
    <3>5. CASE i > (k + 1) + 1
      BY <3>1, <3>5
    <3> QED BY <3>1, <3>3, <3>4, <3>5
  <2> HIDE DEF T
  <2> QED BY <1>1, <2>1, <2>2, BoundedInduction
<1>3. j - 1 \in 0..Len(cs) /\ (j - 1) + 1 = j
  BY <1>1
<1>4. j - 1 \in T
  <2> HIDE DEF T
  <2> QED BY <1>2, <1>3
<1> QED BY <1>3, <1>4 DEF S

(* Every block the list has is in one chunk.                               *)
LEMMA InOneChunk ==
    ASSUME Parameters, NEW cs \in Seq(ListChunk), NEW x \in Nat
    PROVE  /\ x < Before(cs)[Len(cs) + 1] =>
                \E k \in 1..Len(cs) : Before(cs)[k] <= x /\ x < Before(cs)[k + 1]
           /\ \A k, j \in 1..Len(cs) :
                /\ Before(cs)[k] <= x /\ x < Before(cs)[k + 1]
                /\ Before(cs)[j] <= x /\ x < Before(cs)[j + 1]
                => k = j
<1> DEFINE S == Before(cs)
           len == Len(cs)
<1>1. len \in Nat /\ S[1] = 0 /\ \A k \in 1..(len + 1) : S[k] \in Nat
  BY Sums
<1>2. \A i, j \in 1..(len + 1) : i <= j => S[i] <= S[j]
  BY SumsGrow
<1> HIDE DEF S, len
<1>3. ASSUME x < S[len + 1]
      PROVE  \E k \in 1..len : S[k] <= x /\ x < S[k + 1]
  <2> DEFINE T == {k \in 0..len : x < S[k + 1]}
  <2>1. len \in T /\ T \subseteq Nat
    BY <1>1, <1>3
  <2>2. PICK k \in T : \A j \in T : k <= j
    <3> HIDE DEF T
    <3> QED BY <2>1, LeastElement
  <2>3. k # 0
    BY <1>1, <2>2
  <2>4. k \in 1..len /\ k - 1 \in 0..len /\ (k - 1) + 1 = k
    <3>1. k \in 0..len
      BY <2>2
    <3> QED BY <1>1, <2>3, <3>1
  <2>5. S[k] <= x
    <3>1. k - 1 \notin T
      BY <2>2, <2>4
    <3>2. ~(x < S[(k - 1) + 1])
      BY <2>4, <3>1
    <3>3. k \in 1..(len + 1)
      BY <1>1, <2>4
    <3> QED BY <1>1, <2>4, <3>2, <3>3
  <2> QED BY <2>2, <2>4, <2>5
<1>4. ASSUME NEW k \in 1..len, NEW j \in 1..len, k < j,
             x < S[k + 1], S[j] <= x
      PROVE  FALSE
  <2>1. k + 1 \in 1..(len + 1) /\ j \in 1..(len + 1) /\ k + 1 <= j
    BY <1>1, <1>4
  <2> QED BY <1>1, <1>2, <1>4, <2>1
<1>5. ASSUME NEW k \in 1..len, NEW j \in 1..len,
             S[k] <= x, x < S[k + 1], S[j] <= x, x < S[j + 1]
      PROVE  k = j
  BY <1>1, <1>4, <1>5
<1> QED BY <1>3, <1>5 DEF S, len

(* The place of a block by the list.                                       *)
LEMMA ListedIn ==
    ASSUME Parameters, NEW cs \in Seq(ListChunk), NEW b \in Nat
    PROVE  /\ b >= Before(cs)[Len(cs) + 1] => Listed(cs, b) = Zeros
           /\ \A k \in 1..Len(cs) : Before(cs)[k] <= b /\ b < Before(cs)[k + 1] =>
                Listed(cs, b) = MapDev(cs[k].dev, cs[k].phys + b - Before(cs)[k])
<1> DEFINE S == Before(cs)
<1>0. /\ Len(cs) \in Nat /\ \A k \in 1..(Len(cs) + 1) : S[k] \in Nat
      /\ \A i, j \in 1..(Len(cs) + 1) : i <= j => S[i] <= S[j]
  BY Sums, SumsGrow
<1>1. ASSUME NEW k \in 1..Len(cs), S[k] <= b, b < S[k + 1]
      PROVE  Listed(cs, b) = MapDev(cs[k].dev, cs[k].phys + b - S[k])
  <2> DEFINE In(j) == b \in S[j]..(S[j + 1] - 1)
             kk == CHOOSE j \in 1..Len(cs) : In(j)
  <2>1. \A j \in 1..Len(cs) : j + 1 \in 1..(Len(cs) + 1) /\ j \in 1..(Len(cs) + 1)
    BY <1>0
  <2>2. \A j \in 1..Len(cs) : In(j) <=> S[j] <= b /\ b < S[j + 1]
    BY <1>0, <2>1
  <2>3. kk \in 1..Len(cs) /\ In(kk)
    <3> HIDE DEF In
    <3> QED BY <1>1, <2>2
  <2>4. kk = k
    <3> HIDE DEF kk, In
    <3> QED BY <1>1, <2>2, <2>3, InOneChunk
  <2>5. ~(b >= S[Len(cs) + 1])
    <3>1. k + 1 \in 1..(Len(cs) + 1) /\ k + 1 <= Len(cs) + 1 /\ Len(cs) + 1 \in 1..(Len(cs) + 1)
      BY <1>0
    <3>2. S[k + 1] <= S[Len(cs) + 1]
      BY <1>0, <3>1
    <3> HIDE DEF S
    <3> QED BY <1>0, <1>1, <3>1, <3>2
  <2>6. Listed(cs, b) = IF b >= S[Len(cs) + 1] THEN Zeros
                        ELSE MapDev(cs[kk].dev, cs[kk].phys + b - S[kk])
    BY DEF Listed
  <2> HIDE DEF kk, S
  <2> QED BY <2>4, <2>5, <2>6
<1>2. b >= S[Len(cs) + 1] => Listed(cs, b) = Zeros
  BY DEF Listed
<1> QED BY <1>1, <1>2
-----------------------------------------------------------------------------
LEMMA Widths ==
    ASSUME Parameters, NEW z \in Nat \ {0}, NEW b \in Nat
    PROVE  /\ Up(z, BlockSize) \in Nat \ {0} /\ Up(z, BlockSize * PerChunk(b)) \in Nat \ {0}
           /\ \A x \in 0..(Up(z, BlockSize) - 1) :
                x \div PerChunk(b) \in 0..(Up(z, BlockSize * PerChunk(b)) - 1)
<1> DEFINE per == PerChunk(b)
           w == BlockSize * per
           nb == Up(z, BlockSize)
           nc == Up(z, w)
<1>1. per \in Nat \ {0} /\ BlockSize \in Nat \ {0}
  BY Powers DEF Parameters
<1> HIDE DEF per
<1>2. w \in Nat \ {0}
  BY <1>1
<1>3. nb = Units(z, BlockSize) /\ nc = Units(z, w)
  BY DEF Up, Units
<1> HIDE DEF w, nb, nc
<1>4. nb \in Nat \ {0} /\ nb * BlockSize < z + BlockSize
  BY <1>1, <1>3, RoundedUp
<1>5. nc \in Nat \ {0} /\ z <= nc * w
  BY <1>2, <1>3, RoundedUp
<1>6. ASSUME NEW x \in 0..(nb - 1)
      PROVE  x \div per \in 0..(nc - 1)
  <2> DEFINE q == x \div per
  <2>1. q \in Nat /\ q * per <= x
    BY <1>1, <1>4, Division
  <2> HIDE DEF q
  <2>2. x * BlockSize < z
    <3>1. x + 1 \in Nat /\ x + 1 <= nb /\ x \in Nat
      BY <1>4
    <3>2. (x + 1) * BlockSize <= nb * BlockSize
      BY <1>1, <1>4, <3>1, ProductMonotone
    <3>3. (x + 1) * BlockSize = x * BlockSize + BlockSize /\ x * BlockSize \in Nat /\ nb * BlockSize \in Nat
      BY <1>1, <1>4, <3>1
    <3> QED BY <1>1, <1>4, <3>2, <3>3
  <2>3. (q * per) * BlockSize <= x * BlockSize
    <3>1. q * per \in Nat /\ x \in Nat
      BY <1>1, <1>4, <2>1
    <3> QED BY <1>1, <2>1, <3>1, ProductMonotone
  <2>4. (q * per) * BlockSize = q * w
    BY <1>1, <2>1 DEF w
  <2>5. q * w < nc * w
    <3>1. q * w \in Nat /\ nc * w \in Nat /\ x * BlockSize \in Nat
      BY <1>1, <1>2, <1>4, <1>5, <2>1
    <3> QED BY <1>5, <2>2, <2>3, <2>4, <3>1
  <2>6. q < nc
    <3>1. q \in Int /\ nc \in Int
      BY <1>5, <2>1
    <3> QED BY <1>2, <2>5, <3>1, ProductOrder
  <2> QED BY <1>5, <2>1, <2>6 DEF q
<1> QED BY <1>4, <1>5, <1>6 DEF nb, nc, w, per

(* A file that can be one chunk becomes one.                               *)
LEMMA OneChunk ==
    ASSUME Parameters, NEW z \in Nat \ {0}, z <= BlockSize * PerChunk(MaxBits),
           gbits \in 0..MaxBits
    PROVE  /\ MinBits(z) \in 0..MaxBits
           /\ Up(z, BlockSize * PerChunk(MinBits(z))) = 1
           /\ Up(z, BlockSize) <= PerChunk(MinBits(z))
<1> DEFINE fits(b) == BlockSize * PerChunk(b) >= z
           T == {b \in gbits..MaxBits : fits(b) \/ b = MaxBits}
           m == MinBits(z)
<1>0. MaxBits \in Nat /\ BlockSize \in Nat \ {0}
  BY DEF Parameters
<1>1. T \subseteq Nat /\ MaxBits \in T
  BY <1>0
<1>2. PICK b \in T : \A c \in T : b <= c
  <2> HIDE DEF T
  <2> QED BY <1>1, LeastElement
<1>3. \A c \in gbits..(b - 1) : ~fits(c)
  <2> SUFFICES ASSUME NEW c \in gbits..(b - 1), fits(c)
               PROVE  FALSE
    OBVIOUS
  <2>1. b \in gbits..MaxBits
    BY <1>2
  <2>2. c \in gbits..MaxBits /\ c < b
    BY <1>0, <2>1
  <2>3. c \in T
    BY <2>2
  <2> HIDE DEF T
  <2> QED BY <1>2, <2>1, <2>2, <2>3
<1> DEFINE Is(x) == (fits(x) \/ x = MaxBits) /\ \A c \in gbits..(x - 1) : ~fits(c)
<1>4. m = CHOOSE x \in gbits..MaxBits : Is(x)
  BY DEF MinBits
<1>5. b \in gbits..MaxBits /\ Is(b)
  BY <1>2, <1>3
<1>6. m \in gbits..MaxBits /\ Is(m)
  <2> HIDE DEF Is, m
  <2> QED BY <1>4, <1>5
<1>7. m \in 0..MaxBits /\ z <= BlockSize * PerChunk(m)
  BY <1>0, <1>6
<1> HIDE DEF m, fits, Is
<1> DEFINE per == PerChunk(m)
           w == BlockSize * per
<1>8. per \in Nat \ {0}
  BY <1>7, Powers
<1> HIDE DEF per
<1>9. w \in Nat \ {0} /\ z <= 1 * w /\ z <= per * BlockSize
  BY <1>0, <1>7, <1>8 DEF per
<1>10. Up(z, BlockSize) <= per
  BY <1>0, <1>8, <1>9, RoundUpLeast DEF Up, Units
<1>11. Up(z, w) <= 1 /\ Up(z, w) \in Nat \ {0}
  <2> HIDE DEF w
  <2>1. Units(z, w) <= 1
    BY <1>9, RoundUpLeast
  <2>2. Units(z, w) \in Nat /\ Units(z, w) # 0
    BY <1>9, RoundedUp
  <2> QED BY <2>1, <2>2 DEF Up, Units
<1>12. Up(z, w) = 1
  <2> HIDE DEF w
  <2> QED BY <1>11
<1> QED BY <1>7, <1>10, <1>12 DEF m, per
-----------------------------------------------------------------------------
(* Reading, when every index is in range.                                  *)
LEMMA LoadGives ==
    ASSUME Parameters, InRange, Fields, Counted, stage = "image",
           NEW b \in 0..(NBlocks - 1)
    PROVE  LET j == b \div Per + 1
           IN  /\ j \in 1..NChunks(bits) /\ idx[j] \in Index /\ FitIndex(idx[j])
               /\ (j - 1) * Per <= b /\ b < (j - 1) * Per + Per /\ (j - 1) * Per \in Nat
               /\ LoadBlock(b) = IF idx[j].lo = NullAddr THEN Zeros
                                 ELSE [dev |-> idx[j].dev, at |-> idx[j].lo + b - (j - 1) * Per]
<1> DEFINE q == b \div Per
           j == q + 1
           e == idx[j]
<1>1. /\ size \in Nat \ {0} /\ bits \in Nat /\ idx \in Seq(Index)
      /\ Len(idx) = NChunks(bits) /\ \A i \in 1..Len(idx) : FitIndex(idx[i])
      /\ AddrWrap \in Nat \ {0} /\ MaxBits \in Nat
  BY DEF Parameters, Fields, Counted
<1>2. Per \in Nat \ {0} /\ NBlocks \in Nat \ {0} /\ NChunks(bits) \in Nat \ {0} /\ q \in 0..(NChunks(bits) - 1)
  BY <1>1, Powers, Widths DEF Per, NBlocks, NChunks
<1>3. b \in Nat /\ q \in Nat /\ q * Per <= b /\ b < q * Per + Per /\ q * Per \in Nat
  <2>1. b \in Nat
    BY <1>2
  <2>2. q \in Nat /\ q * Per <= b /\ b < q * Per + Per
    BY <1>2, <2>1, Division
  <2> QED BY <1>2, <2>1, <2>2
<1>4. LoadBlock(b) = IF e.lo = NullAddr THEN Zeros ELSE MapDev(e.dev % MaskMod, e.lo + (b - q * Per))
  BY DEF LoadBlock, Per
<1> HIDE DEF q
<1>5. j \in 1..NChunks(bits) /\ j - 1 = q
  BY <1>2
<1>6. e \in Index /\ FitIndex(e)
  BY <1>1, <1>5
<1>7. ASSUME e.lo # NullAddr
      PROVE  LoadBlock(b) = [dev |-> e.dev, at |-> e.lo + b - q * Per]
  <2>1. e.lo \in Nat /\ e.dev \in 0..Len(Mapped)
    <3>1. Len(Mapped) \in Nat /\ e.dev <= Len(Mapped)
      BY <1>6, <1>7 DEF Parameters, FitIndex
    <3> QED BY <1>1, <1>6, <3>1 DEF Index
  <2> HIDE DEF e
  <2>2. e.lo + (b - q * Per) \in Nat /\ e.lo + (b - q * Per) = e.lo + b - q * Per
    BY <1>3, <2>1
  <2>3. e.dev % MaskMod = e.dev
    BY <2>1, NotMasked
  <2>4. MapDev(e.dev, e.lo + b - q * Per) = [dev |-> e.dev, at |-> e.lo + b - q * Per]
    BY <2>1, <2>2, MappedAlone
  <2> QED BY <1>4, <1>7, <2>2, <2>3, <2>4
<1>8. LoadBlock(b) = IF e.lo = NullAddr THEN Zeros ELSE [dev |-> e.dev, at |-> e.lo + b - q * Per]
  <2> HIDE DEF e
  <2> QED BY <1>4, <1>7
<1> QED BY <1>3, <1>5, <1>6, <1>8 DEF q

LEMMA MapInit ==
    ASSUME Parameters, InRange, ChunkInit
    PROVE  MapInv
<1>0. /\ MaxBits \in Nat /\ GlobalBits \subseteq 0..MaxBits /\ gbits \in 0..MaxBits
      /\ n = 0 /\ ci = 1 /\ coff = 0 /\ copied = 0 /\ BlockSize \in Nat \ {0}
  BY DEF Parameters, ChunkInit
<1>1. CASE InitSource
  <2>1. PICK s \in Sources :
          /\ stage = "emit" /\ size = s.size
          /\ list = s.chunks /\ contiguous = s.contiguous
          /\ bits = EntryBits(s.contiguous, s.size) /\ idx = <<>>
          /\ truth = [b \in 0..(Up(s.size, BlockSize) - 1) |-> Listed(s.chunks, b)]
    BY <1>1 DEF InitSource
  <2>2. /\ size \in Nat \ {0} /\ list \in Seq(ListChunk) /\ list # <<>>
        /\ size <= BlockSize * PerChunk(MaxBits)
        /\ \A k \in 1..Len(list) : FitChunk(list[k])
    BY <2>1 DEF Parameters, InRange
  <2>3. bits \in 0..MaxBits
    BY <1>0, <2>1, <2>2, OneChunk DEF EntryBits
  <2>4. Fields
    BY <1>0, <2>1, <2>2, <2>3 DEF Fields
  <2>5. NChunks(bits) \in Nat /\ Per \in Nat
    <3>1. bits \in Nat
      BY <1>0, <2>3
    <3> QED BY <2>2, <3>1, Widths, Powers DEF NChunks, Per
  <2>6. \A k \in 1..Len(list) : list[k].phys < NullAddr /\ list[k].dev <= Len(Mapped)
    <3> SUFFICES ASSUME NEW k \in 1..Len(list)
                 PROVE  list[k].phys < NullAddr /\ list[k].dev <= Len(Mapped)
      OBVIOUS
    <3>1. list[k] \in ListChunk /\ FitChunk(list[k]) /\ NullAddr \in Int
      BY <2>2 DEF Parameters, NullAddr
    <3> QED BY <3>1 DEF Parameters, FitChunk, ListChunk
  <2>7. Counted
    BY <1>0, <2>1, <2>5, <2>6 DEF Counted
  <2>8. Sum(1) = 0 /\ Len(list) \in Nat \ {0} /\ \A k \in 1..(Len(list) + 1) : Sum(k) \in Nat
    BY <2>2, Sums DEF Sum
  <2>9. Sum(2) > 0
    <3>1. 1 \in 1..Len(list) /\ list[1] \in ListChunk
      BY <2>2, <2>8
    <3>2. Before(list)[1 + 1] = Before(list)[1] + list[1].count
      BY <2>2, <3>1, Sums
    <3>3. list[1].count > 0 /\ list[1].count \in Nat
      BY <2>2, <3>1 DEF Parameters, FitChunk, ListChunk
    <3> QED BY <2>8, <3>2, <3>3 DEF Sum
  <2>10. ci \in 1..Len(list) /\ Sum(ci) + coff = n * Per /\ n * Per < Sum(ci + 1)
    BY <1>0, <2>5, <2>8, <2>9
  <2>11. truth = [b \in 0..(NBlocks - 1) |-> Listed(list, b)]
    BY <2>1 DEF NBlocks
  <2>12. Emitted
    BY <2>1, <2>2, <2>10, <2>11 DEF Emitted
  <2> QED BY <1>0, <2>2, <2>4, <2>7, <2>12 DEF MapInv
<1>2. CASE InitForeign
  <2>1. PICK f \in Foreign :
          /\ stage = "image" /\ size = f.size
          /\ list = <<>> /\ contiguous = FALSE
          /\ bits = f.bits /\ idx = f.idx
          /\ truth = [b \in 0..(NBlocks - 1) |-> LoadBlock(b)]
    BY <1>2 DEF InitForeign
  <2>2. /\ size \in Nat \ {0} /\ bits \in 0..MaxBits /\ idx \in Seq(Index)
        /\ Len(idx) = NChunks(bits) /\ size <= BlockSize * PerChunk(MaxBits)
        /\ \A j \in 1..Len(idx) : FitIndex(idx[j])
    BY <2>1 DEF Parameters, InRange, NChunks
  <2>3. Fields
    BY <1>0, <2>1, <2>2 DEF Fields
  <2>4. NChunks(bits) \in Nat
    BY <2>2
  <2>5. Counted
    BY <1>0, <2>1, <2>2, <2>4 DEF Counted
  <2> QED BY <1>0, <2>1, <2>3, <2>5 DEF MapInv, ByOthers
<1> QED BY <1>1, <1>2 DEF ChunkInit
-----------------------------------------------------------------------------
(* The writing of the indexes.                                             *)
LEMMA SkipsTo ==
    ASSUME Parameters, list \in Seq(ListChunk), ci \in 1..Len(list), NEW a \in Nat,
           Sum(ci) <= a, Skip(a)
    PROVE  /\ ci' \in 1..(Len(list) + 1) /\ coff' \in Nat
           /\ Sum(ci') + coff' = a /\ (ci' <= Len(list) => a < Sum(ci' + 1))
<1> DEFINE len == Len(list)
           left == {k \in ci..len : a < Sum(k + 1)}
           next == IF left = {} THEN len + 1 ELSE CHOOSE k \in left : \A j \in left : k <= j
<1>1. len \in Nat /\ \A k \in 1..(len + 1) : Sum(k) \in Nat
  BY Sums DEF Sum
<1>2. ci' = next /\ coff' = a - Sum(next)
  BY DEF Skip, Sum
<1>3. CASE left = {}
  <2>1. next = len + 1
    BY <1>3
  <2>2. len \in ci..len /\ len \notin left
    <3>1. ci \in 1..len
      OBVIOUS
    <3>2. len \in ci..len
      BY <1>1, <3>1
    <3> HIDE DEF left
    <3> QED BY <1>3, <3>2
  <2>3. ~(a < Sum(len + 1))
    BY <2>2
  <2>4. len + 1 \in 1..(len + 1) /\ ~(len + 1 <= len)
    BY <1>1
  <2> HIDE DEF next, left, len
  <2>5. Sum(len + 1) \in Nat
    BY <1>1, <2>4
  <2> QED BY <1>1, <1>2, <2>1, <2>3, <2>4, <2>5 DEF len
<1>4. CASE left # {}
  <2>1. left \subseteq Nat
    BY <1>1
  <2>2. PICK k \in left : \A j \in left : k <= j
    <3> HIDE DEF left
    <3> QED BY <1>4, <2>1, LeastElement
  <2>3. next \in left /\ \A j \in left : next <= j
    <3> HIDE DEF left
    <3> QED BY <1>4, <2>2
  <2> HIDE DEF next
  <2>4. next \in ci..len /\ a < Sum(next + 1)
    BY <2>3
  <2>5. next \in 1..(len + 1) /\ Sum(next) \in Nat
    BY <1>1, <2>4
  <2>6. Sum(next) <= a
    <3>1. CASE next = ci
      BY <3>1
    <3>2. CASE next # ci
      <4>1. next - 1 \in ci..len /\ (next - 1) + 1 = next /\ ~(next <= next - 1)
        BY <1>1, <2>4, <3>2
      <4>2. next - 1 \notin left
        <5> HIDE DEF left
        <5> QED BY <2>3, <4>1
      <4>3. ~(a < Sum((next - 1) + 1))
        BY <4>1, <4>2
      <4> QED BY <2>5, <4>1, <4>3
    <3> QED BY <3>1, <3>2
  <2> HIDE DEF left
  <2> QED BY <1>2, <2>4, <2>5, <2>6
<1> QED BY <1>3, <1>4

LEMMA IndexAppended ==
    ASSUME Parameters, Fields, EmitIndex,
           ci \in 1..Len(list) => list[ci].phys + coff < NullAddr,
           \A k \in 1..Len(list) : list[k].dev <= Len(Mapped)
    PROVE  \E e \in Index :
             /\ idx' = Append(idx, e) /\ FitIndex(e)
             /\ ci > Len(list) => e = NullIndex
             /\ ci \in 1..Len(list) => e.lo = list[ci].phys + coff /\ e.dev = list[ci].dev
<1>0. /\ AddrWrap \in Nat \ {0} /\ ci \in Nat \ {0} /\ Len(list) \in Nat /\ coff \in Nat
      /\ NullAddr = AddrWrap - 1
  BY DEF Parameters, Fields, NullAddr
<1>1. CASE ci > Len(list)
  <2>1. idx' = Append(idx, NullIndex)
    BY <1>0, <1>1 DEF EmitIndex
  <2>2. NullIndex \in Index /\ FitIndex(NullIndex)
    BY <1>0 DEF NullIndex, Index, FitIndex
  <2> QED BY <1>0, <1>1, <2>1, <2>2
<1>2. CASE ci <= Len(list)
  <2> DEFINE p == list[ci].phys + coff
             e == [hi |-> p \div AddrWrap, lo |-> p % AddrWrap, dev |-> list[ci].dev]
  <2>1. idx' = Append(idx, e)
    BY <1>0, <1>2 DEF EmitIndex
  <2>2. ci \in 1..Len(list)
    BY <1>0, <1>2
  <2>3. list[ci] \in ListChunk
    BY <2>2 DEF Fields
  <2>4. p \in Nat /\ p < AddrWrap - 1 /\ list[ci].dev \in Nat /\ list[ci].dev <= Len(Mapped)
    BY <1>0, <2>2, <2>3 DEF Parameters, ListChunk
  <2> HIDE DEF p
  <2>5. p \div AddrWrap = 0 /\ p % AddrWrap = p
    <3>1. p = 0 * AddrWrap + p /\ p \in 0..(AddrWrap - 1)
      BY <1>0, <2>4
    <3> QED BY <1>0, <2>4, <3>1, DivisionUnique
  <2>6. e \in Index /\ FitIndex(e) /\ e.lo = p /\ e.dev = list[ci].dev
    BY <1>0, <2>4, <2>5 DEF Index, FitIndex
  <2> HIDE DEF e
  <2> QED BY <1>0, <1>2, <2>1, <2>2, <2>6 DEF p
<1> QED BY <1>0, <1>1, <1>2
LEMMA EmitIndexKeeps ==
    ASSUME Parameters, InRange, MapInv, EmitIndex
    PROVE  MapInv'
<1>0. /\ Fields /\ Counted /\ stage = "emit" /\ n < NChunks(bits) /\ n' = n + 1
      /\ gbits' = gbits /\ stage' = stage /\ size' = size /\ list' = list
      /\ bits' = bits /\ copied' = copied /\ truth' = truth
  BY DEF MapInv, EmitIndex
<1>1. /\ size \in Nat \ {0} /\ bits \in 0..MaxBits /\ list \in Seq(ListChunk) /\ idx \in Seq(Index)
      /\ n \in Nat /\ ci \in Nat \ {0} /\ coff \in Nat /\ copied \in Nat /\ MaxBits \in Nat
      /\ Len(idx) = n /\ Len(list) \in Nat /\ NullAddr \in Nat
  BY <1>0 DEF Parameters, Fields, Counted, NullAddr
<1>2. Per \in Nat \ {0} /\ NChunks(bits) \in Nat \ {0} /\ n * Per \in Nat /\ (n + 1) * Per = n * Per + Per
  <2>1. bits \in Nat
    BY <1>1
  <2>2. Per \in Nat \ {0} /\ NChunks(bits) \in Nat \ {0}
    BY <1>1, <2>1, Widths, Powers DEF NChunks, Per
  <2> QED BY <1>1, <2>2
<1>3. copied = 0 => Emitted
  BY <1>0 DEF MapInv, ByOthers
<1>4. /\ \A k \in 1..(Len(list) + 1) : Sum(k) \in Nat
      /\ \A k \in 1..Len(list) : Sum(k + 1) = Sum(k) + list[k].count /\ list[k] \in ListChunk
      /\ \A i, j \in 1..(Len(list) + 1) : i <= j => Sum(i) <= Sum(j)
  <2>1. \A i, j \in 1..(Len(list) + 1) : i <= j => Sum(i) <= Sum(j)
    BY <1>1, SumsGrow DEF Sum
  <2>2. \A k \in 1..Len(list) : list[k] \in ListChunk
    BY <1>1
  <2> QED BY <1>1, <2>1, <2>2, Sums DEF Sum
<1>5. ASSUME ci \in 1..Len(list)
      PROVE  list[ci].phys + coff < NullAddr
  <2>1. list[ci] \in ListChunk /\ list[ci].phys \in Nat /\ list[ci].count \in Nat
    BY <1>4, <1>5 DEF Parameters, ListChunk
  <2>2. CASE copied = 0
    <3>1. Sum(ci) + coff = n * Per /\ n * Per < Sum(ci + 1) /\ FitChunk(list[ci])
      BY <1>0, <1>1, <1>3, <1>5, <2>2 DEF Emitted
    <3>2. Sum(ci) \in Nat /\ Sum(ci + 1) = Sum(ci) + list[ci].count
      BY <1>1, <1>4, <1>5
    <3>3. coff < list[ci].count
      BY <1>1, <1>2, <2>1, <3>1, <3>2
    <3> QED BY <1>1, <2>1, <3>1, <3>3 DEF FitChunk
  <2>3. CASE copied > 0
    <3>1. NChunks(bits) = 1 /\ n = 0
      BY <1>0, <1>1, <2>3 DEF Counted
    <3>2. coff = 0 /\ list[ci].phys < NullAddr
      BY <1>0, <1>5, <2>3, <3>1 DEF Counted
    <3> QED BY <2>1, <3>2
  <2> QED BY <1>1, <2>2, <2>3
<1>6. PICK e \in Index :
        /\ idx' = Append(idx, e) /\ FitIndex(e)
        /\ ci > Len(list) => e = NullIndex
        /\ ci \in 1..Len(list) => e.lo = list[ci].phys + coff /\ e.dev = list[ci].dev
  <2>1. \A k \in 1..Len(list) : list[k].dev <= Len(Mapped)
    BY <1>0 DEF Counted
  <2> QED BY <1>0, <1>5, <2>1, IndexAppended
<1>7. /\ idx' \in Seq(Index) /\ Len(idx') = n + 1 /\ idx'[n + 1] = e
      /\ \A j \in 1..n : idx'[j] = idx[j]
  BY <1>1, <1>6
<1>8. /\ ci > Len(list) => ci' = ci /\ coff' = coff
      /\ ci <= Len(list) => /\ ci' \in 1..(Len(list) + 1) /\ coff' \in Nat
                            /\ Sum(ci') + coff' = Sum(ci) + coff + Per
                            /\ ci' <= Len(list) => Sum(ci) + coff + Per < Sum(ci' + 1)
  <2>1. CASE ci > Len(list)
    BY <1>1, <2>1 DEF EmitIndex
  <2>2. CASE ci <= Len(list)
    <3>1. Skip(Sum(ci) + coff + Per)
      BY <1>1, <2>2 DEF EmitIndex, Sum, Per
    <3>2. ci \in 1..Len(list) /\ Sum(ci) \in Nat
      BY <1>1, <1>4, <2>2
    <3>3. Sum(ci) + coff + Per \in Nat /\ Sum(ci) <= Sum(ci) + coff + Per
      BY <1>1, <1>2, <3>2
    <3> HIDE DEF Sum
    <3> QED BY <1>1, <2>2, <3>1, <3>2, <3>3, SkipsTo
  <2> QED BY <1>1, <2>1, <2>2
<1>9. Fields'
  <2>1. ci' \in Nat \ {0} /\ coff' \in Nat
    BY <1>1, <1>8
  <2>2. n' \in Nat
    BY <1>0, <1>1
  <2> QED BY <1>0, <1>7, <2>1, <2>2 DEF Fields
<1>10. Counted'
  <2>1. NChunks(bits)' = NChunks(bits) /\ NBlocks' = NBlocks
    BY <1>0 DEF NChunks, NBlocks
  <2>2. n + 1 <= NChunks(bits) /\ n + 1 # 0
    BY <1>0, <1>1, <1>2
  <2>3. ASSUME NEW j \in 1..(n + 1)
        PROVE  FitIndex(idx'[j])
    BY <1>0, <1>1, <1>6, <1>7 DEF Counted
  <2> QED BY <1>0, <1>7, <2>1, <2>2, <2>3 DEF Counted
<1>11. ASSUME copied = 0
       PROVE  Emitted'
  <2>1. /\ truth = [b \in 0..(NBlocks - 1) |-> Listed(list, b)]
        /\ \A k \in 1..Len(list) : FitChunk(list[k])
        /\ \/ ci \in 1..Len(list) /\ Sum(ci) + coff = n * Per /\ n * Per < Sum(ci + 1)
           \/ ci = Len(list) + 1 /\ n * Per >= Sum(ci)
    BY <1>0, <1>3, <1>11 DEF Emitted
  <2>2. ASSUME n * Per >= Sum(Len(list) + 1)
        PROVE  e = NullIndex
    <3>1. CASE ci \in 1..Len(list)
      <4>1. Sum(ci + 1) <= Sum(Len(list) + 1) /\ Sum(ci + 1) \in Nat /\ Sum(Len(list) + 1) \in Nat
        BY <1>1, <1>4, <3>1
      <4> QED BY <1>1, <1>2, <2>1, <2>2, <3>1, <4>1
    <3>2. CASE ci = Len(list) + 1
      BY <1>1, <1>6, <3>2
    <3> QED BY <2>1, <3>1, <3>2
  <2>3. ASSUME NEW k \in 1..Len(list), Sum(k) <= n * Per, n * Per < Sum(k + 1)
        PROVE  e.lo = list[k].phys + n * Per - Sum(k) /\ e.dev = list[k].dev
    <3>1. CASE ci \in 1..Len(list)
      <4>1. Sum(ci) + coff = n * Per /\ n * Per < Sum(ci + 1) /\ Sum(ci) \in Nat
        BY <1>1, <1>4, <2>1, <3>1
      <4>2. Sum(ci) <= n * Per
        BY <1>1, <1>2, <4>1
      <4>3. k = ci
        BY <1>1, <1>2, <2>3, <3>1, <4>1, <4>2, InOneChunk DEF Sum
      <4>4. list[ci].phys \in Nat /\ e.lo = list[ci].phys + coff /\ e.dev = list[ci].dev
        BY <1>4, <1>6, <3>1 DEF ListChunk
      <4> QED BY <1>1, <1>2, <4>1, <4>3, <4>4
    <3>2. CASE ci = Len(list) + 1
      <4>1. Sum(k + 1) <= Sum(Len(list) + 1) /\ Sum(k + 1) \in Nat /\ Sum(Len(list) + 1) \in Nat
        BY <1>1, <1>4
      <4>2. ~(ci \in 1..Len(list)) /\ n * Per >= Sum(Len(list) + 1)
        BY <1>1, <2>1, <3>2
      <4> QED BY <1>2, <2>3, <4>1, <4>2
    <3> QED BY <2>1, <3>1, <3>2
  <2>4. ASSUME NEW j \in 1..(n + 1)
        PROVE  /\ (j - 1) * Per >= Sum(Len(list) + 1) => idx'[j] = NullIndex
               /\ \A k \in 1..Len(list) : StartsIn(j, k) =>
                    /\ idx'[j].lo = list[k].phys + (j - 1) * Per - Sum(k)
                    /\ idx'[j].dev = list[k].dev
    <3>1. CASE j = n + 1
      <4>1. j - 1 = n
        BY <1>1, <3>1
      <4> HIDE DEF Sum
      <4> QED BY <1>7, <2>2, <2>3, <3>1, <4>1 DEF StartsIn
    <3>2. CASE j # n + 1
      <4>1. j \in 1..n /\ j \in 1..Len(idx)
        BY <1>1, <3>2
      <4> QED BY <1>3, <1>7, <1>11, <4>1 DEF Emitted
    <3> QED BY <3>1, <3>2
  <2>5. \/ ci' \in 1..Len(list) /\ Sum(ci') + coff' = (n + 1) * Per /\ (n + 1) * Per < Sum(ci' + 1)
        \/ ci' = Len(list) + 1 /\ (n + 1) * Per >= Sum(ci')
    <3>1. CASE ci \in 1..Len(list)
      <4>1. Sum(ci) + coff = n * Per
        BY <1>1, <2>1, <3>1
      <4>2. /\ ci' \in 1..(Len(list) + 1) /\ coff' \in Nat /\ Sum(ci') + coff' = (n + 1) * Per
            /\ ci' <= Len(list) => (n + 1) * Per < Sum(ci' + 1)
        BY <1>1, <1>2, <1>8, <3>1, <4>1
      <4>3. Sum(ci') \in Nat
        BY <1>4, <4>2
      <4> HIDE DEF Sum
      <4> QED BY <1>1, <1>2, <4>2, <4>3
    <3>2. CASE ci = Len(list) + 1
      <4>1. ci' = ci /\ n * Per >= Sum(ci) /\ Sum(ci) \in Nat
        BY <1>1, <1>4, <1>8, <2>1, <3>2
      <4>2. (n + 1) * Per >= Sum(ci)
        BY <1>2, <4>1
      <4> QED BY <3>2, <4>1, <4>2
    <3> QED BY <2>1, <3>1, <3>2
  <2>6. NBlocks' = NBlocks /\ Per' = Per
    BY <1>0 DEF NBlocks, Per
  <2> QED BY <1>0, <1>7, <2>1, <2>4, <2>5, <2>6 DEF Emitted, StartsIn, Sum
<1>12. ASSUME copied > 0, OneRun
       PROVE  Recopied'
  <2>1. FirstChunk
    BY <1>0, <1>12 DEF MapInv, Recopied
  <2>2. ASSUME n = 0
        PROVE  FirstIndex'
    <3>1. ci = 1 /\ coff = 0 /\ 1 \in 1..Len(list)
      BY <1>0, <1>1, <1>12, <2>1, <2>2 DEF Counted, FirstChunk
    <3>2. e.lo = list[1].phys + 0 /\ e.dev = list[1].dev
      BY <1>6, <3>1
    <3>3. list[1].phys \in Nat /\ list[1].phys < NullAddr
      BY <1>0, <1>4, <3>1 DEF Counted, ListChunk
    <3>4. idx'[1] = e
      BY <1>7, <2>2
    <3> QED BY <1>0, <1>1, <2>1, <3>2, <3>3, <3>4 DEF FirstIndex, FirstChunk
  <2>3. n' = 1 => n = 0
    BY <1>0, <1>1
  <2> QED BY <1>0, <2>1, <2>2, <2>3 DEF Recopied, FirstChunk
<1>13. OneRun' = OneRun
  BY <1>0 DEF OneRun, NBlocks
<1> QED
  <2>1. copied' = 0 => list' # <<>> /\ Emitted'
    BY <1>0, <1>11 DEF MapInv, ByOthers
  <2> QED BY <1>0, <1>9, <1>10, <1>12, <1>13, <2>1 DEF MapInv

-----------------------------------------------------------------------------
(* Where the list fits the chunks of the file, each block is read from the *)
(* place the list gives it.                                                *)
LEMMA ChunkFields ==
    ASSUME Parameters, NEW c \in ListChunk
    PROVE  c.phys \in Nat /\ c.count \in Nat /\ c.dev \in Nat
<1>1. CountWrap \in Nat
  BY DEF Parameters
<1> QED BY <1>1 DEF ListChunk

LEMMA ChainedTo ==
    ASSUME Parameters, list \in Seq(ListChunk), StepsFit(list, Per), Per \in Nat \ {0},
           NBlocks \in Nat,
           NEW P \in Nat, NEW q \in Nat, P = q * Per,
           NEW k \in 1..Len(list), NEW i \in 1..Len(list), k <= i, Sum(k) <= P, P < Sum(k + 1),
           Sum(i) < P + Per, Sum(i) < NBlocks
    PROVE  /\ list[i].dev = list[k].dev
           /\ list[i].phys - Sum(i) = list[k].phys - Sum(k)
<1> DEFINE T == {m \in Nat : k <= m => /\ list[m].dev = list[k].dev
                                       /\ list[m].phys - Sum(m) = list[k].phys - Sum(k)}
<1>1. /\ Len(list) \in Nat
      /\ \A m \in 1..(Len(list) + 1) : Sum(m) \in Nat
      /\ \A m \in 1..Len(list) :
           /\ Sum(m + 1) = Sum(m) + list[m].count /\ list[m] \in ListChunk
           /\ list[m].phys \in Nat /\ list[m].count \in Nat
      /\ \A m, j \in 1..(Len(list) + 1) : m <= j => Sum(m) <= Sum(j)
  <2>1. \A m, j \in 1..(Len(list) + 1) : m <= j => Sum(m) <= Sum(j)
    BY SumsGrow DEF Sum
  <2>2. \A m \in 1..Len(list) : list[m] \in ListChunk
    OBVIOUS
  <2>3. ASSUME NEW m \in 1..Len(list)
        PROVE  list[m].phys \in Nat /\ list[m].count \in Nat
    BY <2>2, ChunkFields
  <2> QED BY <2>1, <2>2, <2>3, Sums DEF Sum
<1>2. ASSUME NEW m \in 0..i, m \in T, m < i
      PROVE  m + 1 \in T
  <2>1. CASE m + 1 < k
    BY <2>1
  <2>2. CASE m + 1 = k
    BY <2>2
  <2>3. CASE k <= m
    <3>1. m \in 1..Len(list) /\ m + 1 \in 1..Len(list) /\ m < Len(list)
      BY <1>1, <1>2, <2>3
    <3>2. Sum(m + 1) \in Nat /\ P < Sum(m + 1) /\ Sum(m + 1) < P + Per /\ Sum(m + 1) < NBlocks
      <4>1. k + 1 \in 1..(Len(list) + 1) /\ m + 1 \in 1..(Len(list) + 1) /\ i \in 1..(Len(list) + 1)
        BY <1>1, <3>1
      <4>2. k + 1 <= m + 1 /\ m + 1 <= i
        BY <1>2, <2>3
      <4>3. Sum(k + 1) <= Sum(m + 1) /\ Sum(m + 1) <= Sum(i)
        BY <1>1, <4>1, <4>2
      <4>4. Sum(k + 1) \in Nat /\ Sum(m + 1) \in Nat /\ Sum(i) \in Nat
        BY <1>1, <4>1
      <4> HIDE DEF Sum
      <4> QED BY <4>3, <4>4
    <3>3. Sum(m + 1) % Per # 0
      <4> DEFINE r == Sum(m + 1) - P
      <4> HIDE DEF Sum
      <4>1. Sum(m + 1) = q * Per + r /\ r \in 0..(Per - 1) /\ r # 0
        BY <3>2
      <4> HIDE DEF r
      <4>2. Sum(m + 1) % Per = r
        BY <3>2, <4>1, DivisionUnique
      <4> QED BY <4>1, <4>2
    <3>4. /\ list[m + 1].dev = list[m].dev
          /\ list[m + 1].phys = list[m].phys + list[m].count
      <4>1. /\ Before(list)[m + 1] % Per # 0 /\ Before(list)[m + 1] < NBlocks
            /\ Before(list)[m + 1] \in Nat
        BY <3>2, <3>3 DEF Sum
      <4>2. ~(Before(list)[m + 1] >= NBlocks)
        BY <4>1
      <4> QED BY <3>1, <4>1, <4>2 DEF StepsFit
    <3>5. /\ list[m].dev = list[k].dev
          /\ list[m].phys - Sum(m) = list[k].phys - Sum(k)
      BY <1>2, <2>3
    <3>6. Sum(m + 1) = Sum(m) + list[m].count /\ Sum(m) \in Nat /\ list[m].phys \in Nat /\ list[m].count \in Nat
      BY <1>1, <3>1
    <3>7. list[m + 1].phys - Sum(m + 1) = list[k].phys - Sum(k)
      <4> HIDE DEF Sum
      <4> QED BY <3>4, <3>5, <3>6
    <3> QED BY <3>4, <3>5, <3>7
  <2> QED BY <2>1, <2>2, <2>3
<1>3. 0 \in T
  OBVIOUS
<1>4. i \in T
  <2> HIDE DEF T
  <2>1. i \in Nat /\ i \in 0..i
    OBVIOUS
  <2>2. 0..i \subseteq T
    BY <1>2, <1>3, <2>1, BoundedInduction
  <2> QED BY <2>1, <2>2
<1> QED BY <1>4

(* The list of a source: chunks that are not empty, and where they lie.    *)
LEMMA ListFacts ==
    ASSUME Parameters, InRange, list \in Seq(ListChunk),
           \A k \in 1..Len(list) : FitChunk(list[k])
    PROVE  /\ Len(list) \in Nat /\ NullAddr \in Nat
           /\ \A k \in 1..(Len(list) + 1) : Sum(k) \in Nat
           /\ \A k \in 1..Len(list) :
                /\ Sum(k + 1) = Sum(k) + list[k].count
                /\ list[k].phys \in Nat /\ list[k].count \in Nat \ {0}
                /\ list[k].dev \in 0..Len(Mapped) /\ list[k].phys + list[k].count <= NullAddr
           /\ \A i, j \in 1..(Len(list) + 1) : i <= j => Sum(i) <= Sum(j)
<1>1. \A i, j \in 1..(Len(list) + 1) : i <= j => Sum(i) <= Sum(j)
  BY SumsGrow DEF Sum
<1>2. ASSUME NEW k \in 1..Len(list)
      PROVE  /\ list[k].phys \in Nat /\ list[k].count \in Nat \ {0}
             /\ list[k].dev \in 0..Len(Mapped) /\ list[k].phys + list[k].count <= NullAddr
  <2>1. list[k] \in ListChunk /\ FitChunk(list[k]) /\ Len(Mapped) \in Nat
    BY DEF Parameters
  <2> QED BY <2>1 DEF Parameters, ListChunk, FitChunk
<1>3. NullAddr \in Nat
  BY DEF Parameters, NullAddr
<1>4. /\ \A k \in 1..(Len(list) + 1) : Sum(k) \in Nat
      /\ \A k \in 1..Len(list) : Sum(k + 1) = Sum(k) + list[k].count
  BY Sums DEF Sum
<1> QED BY <1>1, <1>2, <1>3, <1>4

LEMMA ListedPlace ==
    ASSUME Parameters, InRange, list \in Seq(ListChunk),
           \A k \in 1..Len(list) : FitChunk(list[k]),
           NEW k \in 1..Len(list), NEW b \in Nat, Sum(k) <= b, b < Sum(k + 1)
    PROVE  Listed(list, b) = [dev |-> list[k].dev, at |-> list[k].phys + b - Sum(k)]
<1>1. Listed(list, b) = MapDev(list[k].dev, list[k].phys + b - Sum(k))
  BY ListedIn DEF Sum
<1>2. /\ Sum(k) \in Nat /\ list[k].phys \in Nat /\ list[k].dev \in 0..Len(Mapped)
  <2>1. k \in 1..(Len(list) + 1)
    BY ListFacts
  <2> QED BY <2>1, ListFacts
<1>3. list[k].phys + b - Sum(k) \in Nat
  <2> HIDE DEF Sum
  <2> QED BY <1>2
<1> QED BY <1>1, <1>2, <1>3, MappedAlone

LEMMA Moved ==
    ASSUME NEW a \in Int, NEW b \in Int, NEW c \in Int, NEW s \in Int, NEW t \in Int,
           a - s = c - t
    PROVE  a + b - s = c + b - t
  OBVIOUS

LEMMA EmittedIsMapped ==
    ASSUME Parameters, InRange, Fields, Counted, stage = "image", Emitted,
           StepsFit(list, Per)
    PROVE  MappedAsListed
<1> SUFFICES ASSUME NEW b \in 0..(NBlocks - 1)
             PROVE  LoadBlock(b) = truth[b]
  BY DEF MappedAsListed
<1>1. /\ truth[b] = Listed(list, b) /\ list \in Seq(ListChunk)
      /\ \A k \in 1..Len(list) : FitChunk(list[k])
  BY DEF Emitted, Fields
<1>2. /\ Len(list) \in Nat /\ NullAddr \in Nat
      /\ \A k \in 1..(Len(list) + 1) : Sum(k) \in Nat
      /\ \A k \in 1..Len(list) :
           /\ Sum(k + 1) = Sum(k) + list[k].count
           /\ list[k].phys \in Nat /\ list[k].count \in Nat \ {0}
           /\ list[k].dev \in 0..Len(Mapped) /\ list[k].phys + list[k].count <= NullAddr
      /\ \A i, j \in 1..(Len(list) + 1) : i <= j => Sum(i) <= Sum(j)
  BY <1>1, ListFacts
<1>3. Per \in Nat \ {0} /\ NBlocks \in Nat \ {0} /\ b \in Nat
  <2>1. bits \in Nat /\ size \in Nat \ {0}
    BY DEF Parameters, Fields
  <2>2. Per \in Nat \ {0} /\ NBlocks \in Nat \ {0}
    BY <2>1, Powers, Widths DEF Per, NBlocks
  <2> QED BY <2>2
<1> DEFINE q == b \div Per
           j == q + 1
           P == q * Per
           total == Sum(Len(list) + 1)
<1>4. /\ j \in 1..NChunks(bits) /\ P <= b /\ b < P + Per /\ P \in Nat /\ (j - 1) * Per = P
      /\ LoadBlock(b) = IF idx[j].lo = NullAddr THEN Zeros
                        ELSE [dev |-> idx[j].dev, at |-> idx[j].lo + b - P]
  <2>1. q \in Nat
    BY <1>3, Division
  <2>2. j - 1 = q
    BY <2>1
  <2> HIDE DEF q
  <2> QED BY <2>2, LoadGives DEF q
<1>5. q \in Nat
  BY <1>3, Division
<1> HIDE DEF q
<1>6. /\ P >= total => idx[j] = NullIndex
      /\ \A k \in 1..Len(list) : Sum(k) <= P /\ P < Sum(k + 1) =>
           idx[j].lo = list[k].phys + P - Sum(k) /\ idx[j].dev = list[k].dev
  <2>1. j \in 1..Len(idx)
    BY <1>4 DEF Counted
  <2>2. /\ (j - 1) * Per >= Sum(Len(list) + 1) => idx[j] = NullIndex
        /\ \A k \in 1..Len(list) : StartsIn(j, k) =>
             /\ idx[j].lo = list[k].phys + (j - 1) * Per - Sum(k)
             /\ idx[j].dev = list[k].dev
    BY <2>1 DEF Emitted
  <2> HIDE DEF Sum, j, P
  <2> QED BY <1>4, <2>2 DEF StartsIn
<1> HIDE DEF j, P
<1>7. total \in Nat
  <2>1. Len(list) + 1 \in 1..(Len(list) + 1)
    BY <1>2
  <2> QED BY <1>2, <2>1
<1>8. CASE P >= total
  <2>1. LoadBlock(b) = Zeros
    BY <1>4, <1>6, <1>8 DEF NullIndex
  <2>2. b >= total
    <3> HIDE DEF total
    <3> QED BY <1>3, <1>4, <1>7, <1>8
  <2>3. Listed(list, b) = Zeros
    BY <1>1, <1>3, <2>2, ListedIn DEF Sum
  <2> QED BY <1>1, <2>1, <2>3
<1>9. CASE P < total
  <2>1. PICK k \in 1..Len(list) : Sum(k) <= P /\ P < Sum(k + 1)
    BY <1>1, <1>4, <1>9, InOneChunk DEF Sum
  <2>2. idx[j].lo = list[k].phys + P - Sum(k) /\ idx[j].dev = list[k].dev
    BY <1>6, <2>1
  <2>3. /\ Sum(k) \in Nat /\ Sum(k + 1) = Sum(k) + list[k].count
        /\ list[k].phys \in Nat /\ list[k].count \in Nat
        /\ list[k].phys + list[k].count <= NullAddr
    BY <1>2
  <2>4. LoadBlock(b) = [dev |-> list[k].dev, at |-> list[k].phys + b - Sum(k)]
    <3> HIDE DEF Sum
    <3>1. idx[j].lo < NullAddr /\ idx[j].lo \in Nat
      BY <1>2, <1>4, <2>1, <2>2, <2>3
    <3>2. idx[j].lo + b - P = list[k].phys + b - Sum(k)
      <4>1. idx[j].lo - P = list[k].phys - Sum(k)
        BY <1>4, <2>2, <2>3
      <4>2. /\ idx[j].lo \in Int /\ P \in Int /\ list[k].phys \in Int /\ Sum(k) \in Int /\ b \in Int
        BY <1>3, <1>4, <2>3, <3>1
      <4> QED BY <4>1, <4>2, Moved, SMTT(30)
    <3> QED BY <1>2, <1>4, <2>2, <3>1, <3>2
  <2>5. b < total
    <3> SUFFICES ASSUME total <= b
                 PROVE  FALSE
      <4> HIDE DEF total
      <4> QED BY <1>3, <1>7
    <3>1. Len(list) \in 1..Len(list)
      BY <1>2
    <3>2. ~(total >= NBlocks)
      <4> HIDE DEF total
      <4> QED BY <1>3, <1>7
    <3>3. Before(list)[Len(list) + 1] % Per = 0
      <4>1. ~(Len(list) < Len(list))
        BY <1>2
      <4> QED BY <3>1, <3>2, <4>1 DEF StepsFit, Sum
    <3>4. total % Per = 0
      BY <3>3 DEF Sum
    <3> DEFINE r == total - P
    <3> HIDE DEF total
    <3>5. total = q * Per + r /\ r \in 0..(Per - 1) /\ r # 0
      BY <1>3, <1>4, <1>7, <1>9 DEF P
    <3> HIDE DEF r
    <3>6. total % Per = r
      BY <1>3, <1>5, <1>7, <3>5, DivisionUnique
    <3> QED BY <3>4, <3>5, <3>6
  <2>6. PICK i \in 1..Len(list) : Sum(i) <= b /\ b < Sum(i + 1)
    BY <1>1, <1>3, <2>5, InOneChunk DEF Sum
  <2>7. k <= i
    <3> SUFFICES ASSUME i < k
                 PROVE  FALSE
      OBVIOUS
    <3>1. i + 1 \in 1..(Len(list) + 1) /\ k \in 1..(Len(list) + 1) /\ i + 1 <= k
      BY <1>2
    <3>2. Sum(i + 1) <= Sum(k) /\ Sum(i + 1) \in Nat /\ Sum(k) \in Nat
      BY <1>2, <3>1
    <3> HIDE DEF Sum
    <3> QED BY <1>3, <1>4, <2>1, <2>6, <3>2
  <2>8. Sum(i) \in Nat /\ list[i].phys \in Nat
    BY <1>2
  <2>9. list[i].dev = list[k].dev /\ list[i].phys - Sum(i) = list[k].phys - Sum(k)
    <3>1. Sum(i) < P + Per /\ Sum(i) < NBlocks
      <4> HIDE DEF Sum
      <4> QED BY <1>3, <1>4, <2>6, <2>8
    <3>2. P = q * Per
      BY DEF P
    <3>3. NBlocks \in Nat
      BY <1>3
    <3> QED BY <1>1, <1>3, <1>4, <1>5, <2>1, <2>7, <3>1, <3>2, <3>3, ChainedTo
  <2>10. Listed(list, b) = [dev |-> list[i].dev, at |-> list[i].phys + b - Sum(i)]
    BY <1>1, <1>3, <2>6, ListedPlace
  <2>11. list[i].phys + b - Sum(i) = list[k].phys + b - Sum(k)
    <3> HIDE DEF Sum
    <3> DEFINE x == list[i].phys
               y == list[k].phys
               s == Sum(i)
               t == Sum(k)
    <3>1. x \in Nat /\ y \in Nat /\ s \in Nat /\ t \in Nat /\ x - s = y - t
      BY <2>3, <2>8, <2>9
    <3> HIDE DEF x, y, s, t
    <3>2. x + b - s = y + b - t
      BY <1>3, <3>1
    <3> QED BY <3>2 DEF x, y, s, t
  <2> QED BY <1>1, <2>4, <2>9, <2>10, <2>11
<1>10. P >= total \/ P < total
  <2> HIDE DEF total
  <2> QED BY <1>4, <1>7
<1> QED BY <1>8, <1>9, <1>10

(* A file that is one run has chunks that follow on each other.            *)
LEMMA RunFits ==
    ASSUME Parameters, InRange, Fields, Emitted, OneRun
    PROVE  StepsFit(list, Per)
<1>1. /\ list \in Seq(ListChunk) /\ \A k \in 1..Len(list) : FitChunk(list[k])
      /\ truth = [b \in 0..(NBlocks - 1) |-> Listed(list, b)]
  BY DEF Emitted, Fields
<1>2. /\ Len(list) \in Nat
      /\ \A k \in 1..(Len(list) + 1) : Sum(k) \in Nat
      /\ \A k \in 1..Len(list) :
           /\ Sum(k + 1) = Sum(k) + list[k].count
           /\ list[k].phys \in Nat /\ list[k].count \in Nat \ {0}
  BY <1>1, ListFacts
<1>3. NBlocks \in Nat \ {0}
  <2>1. size \in Nat \ {0} /\ 0 \in Nat
    BY DEF Fields
  <2> QED BY <2>1, Widths DEF NBlocks
<1>4. ASSUME NEW k \in 1..Len(list), Sum(k + 1) < NBlocks
      PROVE  /\ k < Len(list) /\ list[k + 1].dev = list[k].dev
             /\ list[k + 1].phys = list[k].phys + list[k].count
  <2> DEFINE s == Sum(k + 1)
             t == Sum(k)
             cnt == list[k].count
             p == list[k].phys
  <2>1. s \in Nat /\ t \in Nat /\ cnt \in Nat \ {0} /\ p \in Nat /\ s = t + cnt
    <3>1. k \in 1..(Len(list) + 1) /\ k + 1 \in 1..(Len(list) + 1)
      BY <1>2
    <3> QED BY <1>2, <3>1
  <2> HIDE DEF s, t, cnt, p
  <2>2. /\ s < NBlocks /\ s \in 0..(NBlocks - 1) /\ s - 1 \in 0..(NBlocks - 1)
        /\ s - 1 \in Nat /\ t <= s - 1 /\ s - 1 < s
    <3>1. s < NBlocks
      BY <1>4 DEF s
    <3> QED BY <1>3, <2>1, <3>1
  <2>3. truth[s - 1] = [dev |-> list[k].dev, at |-> p + (s - 1) - t]
    <3>1. Sum(k) <= s - 1 /\ s - 1 < Sum(k + 1)
      BY <2>2 DEF s, t
    <3>2. Listed(list, s - 1) = [dev |-> list[k].dev, at |-> list[k].phys + (s - 1) - Sum(k)]
      BY <1>1, <2>2, <3>1, ListedPlace
    <3> QED BY <1>1, <2>2, <3>2 DEF p, t
  <2>4. p + (s - 1) - t = p + cnt - 1
    BY <2>1
  <2>5. /\ truth[s] = [dev |-> truth[0].dev, at |-> truth[0].at + s] /\ truth[s].dev >= 0
        /\ truth[s - 1] = [dev |-> truth[0].dev, at |-> truth[0].at + (s - 1)]
    BY <2>2 DEF OneRun
  <2>6. CASE k = Len(list)
    <3>1. s >= Before(list)[Len(list) + 1]
      BY <2>1, <2>6 DEF s, Sum
    <3>2. Listed(list, s) = Zeros
      BY <1>1, <2>1, <3>1, ListedIn
    <3>3. truth[s] = Zeros
      BY <1>1, <2>2, <3>2
    <3> QED BY <2>5, <3>3 DEF Zeros
  <2>7. CASE k # Len(list)
    <3>1. k + 1 \in 1..Len(list) /\ k < Len(list)
      BY <1>2, <2>7
    <3>2. Sum(k + 1) <= s /\ s < Sum((k + 1) + 1)
      <4> DEFINE u == Sum((k + 1) + 1)
      <4>1. u = s + list[k + 1].count /\ list[k + 1].count \in Nat \ {0}
        BY <1>2, <3>1 DEF s
      <4> HIDE DEF u
      <4>2. s < u
        BY <2>1, <4>1
      <4> QED BY <2>1, <4>2 DEF s, u
    <3>3. Listed(list, s) = [dev |-> list[k + 1].dev, at |-> list[k + 1].phys + s - Sum(k + 1)]
      BY <1>1, <2>1, <3>1, <3>2, ListedPlace
    <3>4. truth[s] = [dev |-> list[k + 1].dev, at |-> list[k + 1].phys + s - s]
      BY <1>1, <2>2, <3>3 DEF s
    <3>5. list[k + 1].phys \in Nat
      BY <1>2, <3>1
    <3> DEFINE a == truth[0].at
               pp == list[k + 1].phys
    <3>6. a + s = pp + s - s /\ a + (s - 1) = p + cnt - 1
      BY <2>3, <2>4, <2>5, <3>4
    <3>7. a \in Int
      <4>1. truth[0].at + 0 = truth[0].at
        <5>1. 0 \in 0..(NBlocks - 1)
          BY <1>3
        <5>2. truth[0] = [dev |-> truth[0].dev, at |-> truth[0].at + 0]
          BY <5>1 DEF OneRun
        <5> QED BY <5>2
      <4>2. \E i \in 1..Len(list) : truth[0] = [dev |-> list[i].dev, at |-> list[i].phys + 0 - Sum(i)]
        <5>1. 1 \in 1..Len(list) /\ Sum(1) = 0 /\ Sum(1 + 1) > 0
          <6>1. 1 \in 1..Len(list) /\ 1 \in 1..(Len(list) + 1)
            BY <1>2
          <6>2. Before(list)[1] = 0
            BY <1>1, Sums
          <6>3. Sum(1) = 0
            BY <6>2 DEF Sum
          <6> HIDE DEF Sum
          <6>4. Sum(1 + 1) = Sum(1) + list[1].count /\ list[1].count \in Nat \ {0}
            BY <1>2, <6>1
          <6> QED BY <6>1, <6>3, <6>4
        <5>2. Listed(list, 0) = [dev |-> list[1].dev, at |-> list[1].phys + 0 - Sum(1)]
          BY <1>1, <5>1, ListedPlace
        <5> QED BY <1>1, <1>3, <5>1, <5>2
      <4>3. PICK i \in 1..Len(list) : truth[0].at = list[i].phys + 0 - Sum(i)
        BY <4>2
      <4>4. list[i].phys \in Nat /\ Sum(i) \in Nat
        <5>1. i \in 1..(Len(list) + 1)
          BY <1>2
        <5> QED BY <1>2, <5>1
      <4> HIDE DEF Sum
      <4> QED BY <4>3, <4>4
    <3> HIDE DEF a, pp
    <3>8. pp = p + cnt
      <4>1. pp \in Nat
        BY <3>5 DEF pp
      <4> QED BY <2>1, <3>6, <3>7, <4>1
    <3> QED BY <2>3, <2>5, <3>1, <3>4, <3>8 DEF p, pp, cnt
  <2> QED BY <2>6, <2>7
<1> SUFFICES ASSUME NEW k \in 1..Len(list)
             PROVE  \/ Before(list)[k + 1] >= NBlocks
                    \/ /\ k < Len(list) /\ list[k + 1].dev = list[k].dev
                       /\ list[k + 1].phys = list[k].phys + list[k].count
  BY DEF StepsFit
<1>5. Sum(k + 1) \in Nat
  <2>1. k + 1 \in 1..(Len(list) + 1)
    BY <1>2
  <2> QED BY <1>2, <2>1
<1>6. Sum(k + 1) < NBlocks \/ Sum(k + 1) >= NBlocks
  <2> HIDE DEF Sum
  <2> QED BY <1>3, <1>5
<1> QED BY <1>4, <1>6 DEF Sum

(* What follows from the invariant once an image can be read.              *)
LEMMA FirstImageMapped ==
    ASSUME Parameters, InRange, MapInv, stage = "image", copied = 0, StepsFit(list,
           Per) \/ OneRun
    PROVE  MappedAsListed
<1>1. CASE list # <<>>
  <2>1. Fields /\ Counted /\ Emitted
    BY <1>1 DEF MapInv
  <2>2. StepsFit(list, Per)
    BY <2>1, RunFits
  <2> QED BY <2>1, <2>2, EmittedIsMapped
<1>2. CASE list = <<>>
  BY <1>2 DEF MapInv, ByOthers, MappedAsListed
<1> QED BY <1>1, <1>2

LEMMA RunsBegin ==
    ASSUME Parameters, InRange, MapInv, stage = "image", OneRun
    PROVE  FirstIndex
<1>1. CASE copied > 0
  BY <1>1 DEF MapInv, Recopied
<1>2. CASE copied = 0
  <2>1. Per \in Nat \ {0} /\ NBlocks \in Nat \ {0}
    <3>1. bits \in Nat /\ size \in Nat \ {0}
      BY DEF Parameters, MapInv, Fields
    <3> QED BY <3>1, Powers, Widths DEF Per, NBlocks
  <2>2. 0 \in 0..(NBlocks - 1)
    BY <2>1
  <2>3. LoadBlock(0) = truth[0] /\ truth[0].dev >= 0
    BY <1>2, <2>2, FirstImageMapped DEF MappedAsListed, OneRun
  <2>4. 0 \div Per = 0 /\ 0 * Per = 0
    <3>1. 0 = 0 * Per + 0 /\ 0 \in 0..(Per - 1)
      BY <2>1
    <3> QED BY <2>1, <3>1, DivisionUnique
  <2>5. /\ idx[1] \in Index
        /\ LoadBlock(0) = IF idx[1].lo = NullAddr THEN Zeros
                          ELSE [dev |-> idx[1].dev, at |-> idx[1].lo + 0 - 0]
    <3>1. LET j == 0 \div Per + 1
          IN  /\ idx[j] \in Index
              /\ LoadBlock(0) = IF idx[j].lo = NullAddr THEN Zeros
                                ELSE [dev |-> idx[j].dev, at |-> idx[j].lo + 0 - (j - 1) * Per]
      BY <2>2, LoadGives DEF MapInv
    <3>2. 0 \div Per + 1 = 1 /\ 1 - 1 = 0
      BY <2>4
    <3> QED BY <2>4, <3>1, <3>2
  <2>6. idx[1].lo # NullAddr
    BY <2>3, <2>5 DEF Zeros
  <2>7. idx[1].lo \in Nat
    <3>1. AddrWrap \in Nat
      BY DEF Parameters
    <3> QED BY <2>5, <3>1 DEF Index
  <2>8. idx[1].lo + 0 - 0 = idx[1].lo
    BY <2>7
  <2> QED BY <2>3, <2>5, <2>6, <2>8 DEF FirstIndex
<1>3. copied \in Nat
  BY DEF MapInv, Fields
<1> QED BY <1>1, <1>2, <1>3

-----------------------------------------------------------------------------
LEMMA EmitEndsKeeps ==
    ASSUME Parameters, InRange, MapInv, EmitEnds
    PROVE  MapInv'
<1>0. /\ Fields /\ Counted /\ stage = "emit" /\ n = NChunks(bits) /\ stage' = "image"
      /\ gbits' = gbits /\ size' = size /\ list' = list /\ bits' = bits /\ idx' = idx
      /\ n' = n /\ ci' = ci /\ coff' = coff /\ copied' = copied /\ truth' = truth
  BY DEF MapInv, EmitEnds
<1>1. NChunks(bits)' = NChunks(bits) /\ NBlocks' = NBlocks /\ Per' = Per
  BY <1>0 DEF NChunks, NBlocks, Per
<1>2. Fields'
  BY <1>0 DEF Fields
<1>3. Counted'
  BY <1>0, <1>1 DEF Counted
<1>4. ASSUME copied = 0
      PROVE  list # <<>> /\ Emitted'
  <2>1. list # <<>> /\ Emitted
    BY <1>0, <1>4 DEF MapInv, ByOthers
  <2> QED BY <1>0, <1>1, <2>1 DEF Emitted, StartsIn, Sum
<1>5. ASSUME copied > 0, OneRun
      PROVE  Recopied'
  <2>1. n = 1
    BY <1>0, <1>5 DEF Counted
  <2>2. FirstIndex
    BY <1>0, <1>5, <2>1 DEF MapInv, Recopied
  <2> QED BY <1>0, <2>2 DEF Recopied, FirstIndex
<1>6. OneRun' = OneRun
  BY <1>0 DEF OneRun, NBlocks
<1> QED BY <1>0, <1>2, <1>3, <1>4, <1>5, <1>6 DEF MapInv

LEMMA RecopyKeeps ==
    ASSUME Parameters, InRange, MapInv, Recopy
    PROVE  MapInv'
<1>0. /\ Fields /\ Counted /\ stage = "image" /\ stage' = "parse" /\ copied' = copied + 1
      /\ n' = 0 /\ list' = <<>>
      /\ gbits' = gbits /\ size' = size /\ bits' = bits /\ idx' = idx
      /\ ci' = ci /\ coff' = coff /\ truth' = truth
  BY DEF MapInv, Recopy
<1>1. NChunks(bits)' = NChunks(bits) /\ NBlocks' = NBlocks
  BY <1>0 DEF NChunks, NBlocks
<1>2. copied \in Nat /\ copied' \in Nat /\ copied' # 0
  BY <1>0 DEF Fields
<1>3. Fields'
  BY <1>0, <1>2 DEF Fields
<1>4. NChunks(bits) \in Nat
  <2>1. bits \in Nat /\ size \in Nat \ {0}
    BY <1>0 DEF Parameters, Fields
  <2> QED BY <2>1, Widths DEF NChunks
<1>5. Counted'
  BY <1>0, <1>1, <1>4 DEF Counted
<1>6. OneRun' = OneRun
  BY <1>0 DEF OneRun, NBlocks
<1>7. ASSUME OneRun
      PROVE  Recopied'
  <2>1. FirstIndex
    BY <1>0, <1>7, RunsBegin
  <2> QED BY <1>0, <2>1 DEF Recopied, FirstIndex
<1> QED BY <1>2, <1>3, <1>5, <1>6, <1>7 DEF MapInv

LEMMA ParseIndexKeeps ==
    ASSUME Parameters, InRange, MapInv, ParseIndex
    PROVE  MapInv'
<1>0. /\ Fields /\ Counted /\ stage = "parse" /\ stage' = "parse" /\ n < NChunks(bits) /\ n' = n + 1
      /\ gbits' = gbits /\ size' = size /\ bits' = bits /\ idx' = idx /\ copied' = copied
      /\ ci' = ci /\ coff' = coff /\ truth' = truth
  BY DEF MapInv, ParseIndex
<1>1. NChunks(bits)' = NChunks(bits) /\ NBlocks' = NBlocks
  BY <1>0 DEF NChunks, NBlocks
<1>2. /\ n \in Nat /\ bits \in Nat /\ size \in Nat \ {0} /\ idx \in Seq(Index) /\ list \in Seq(ListChunk)
      /\ Len(idx) = NChunks(bits) /\ CountWrap \in Nat \ {0} /\ AddrWrap \in Nat \ {0}
      /\ Len(Mapped) \in Nat /\ NullAddr = AddrWrap - 1 /\ copied \in Nat
      /\ \A k \in 1..Len(list) : list[k].phys < NullAddr /\ list[k].dev <= Len(Mapped)
  BY <1>0 DEF Parameters, Fields, Counted, NullAddr
<1>3. PerChunk(bits) \in Nat \ {0} /\ NChunks(bits) \in Nat
  BY <1>2, Powers, Widths DEF NChunks
<1> DEFINE e == idx[n + 1]
           last == list[Len(list)]
           new == [phys |-> Full(e), count |-> PerChunk(bits) % CountWrap, dev |-> e.dev % MaskMod]
           longer == [list EXCEPT ![Len(list)].count = (@ + PerChunk(bits)) % CountWrap]
<1>4. \/ e.lo = NullAddr /\ list' = list
      \/ e.lo # NullAddr /\ list # <<>> /\ list' = longer
      \/ e.lo # NullAddr /\ list' = Append(list, new)
  BY DEF ParseIndex
<1>5. e \in Index /\ FitIndex(e)
  <2>1. n + 1 \in 1..Len(idx)
    BY <1>0, <1>2, <1>3
  <2> QED BY <1>0, <1>2, <2>1 DEF Counted
<1>6. ASSUME e.lo # NullAddr
      PROVE  /\ new \in ListChunk /\ new.phys = e.lo /\ new.phys < NullAddr
             /\ new.dev = e.dev /\ new.dev <= Len(Mapped)
  <2> HIDE DEF e
  <2>1. e.hi = 0 /\ e.dev \in 0..Len(Mapped) /\ e.lo \in Nat /\ e.lo < NullAddr
    <3>1. e.hi = 0 /\ e.dev <= Len(Mapped)
      BY <1>5, <1>6 DEF FitIndex
    <3>2. e.dev \in Nat /\ e.lo \in 0..(AddrWrap - 1)
      BY <1>5 DEF Index
    <3> QED BY <1>2, <1>6, <3>1, <3>2
  <2>2. Full(e) = e.lo /\ e.dev % MaskMod = e.dev
    BY <1>2, <2>1, NotMasked DEF Full
  <2>3. PerChunk(bits) % CountWrap \in 0..(CountWrap - 1)
    BY <1>2, <1>3, Division
  <2> QED BY <1>2, <2>1, <2>2, <2>3 DEF ListChunk
<1>7. ASSUME list # <<>>
      PROVE  /\ longer \in Seq(ListChunk) /\ Len(longer) = Len(list) /\ Len(list) >= 1
             /\ \A k \in 1..Len(list) : longer[k].phys = list[k].phys /\ longer[k].dev = list[k].dev
  <2> DEFINE l == Len(list)
             c == [list[l] EXCEPT !.count = (@ + PerChunk(bits)) % CountWrap]
  <2>1. l \in 1..l /\ list[l] \in ListChunk /\ l >= 1
    BY <1>2, <1>7
  <2>2. list[l].count + PerChunk(bits) \in Nat
    BY <1>3, <2>1, ChunkFields
  <2>3. (list[l].count + PerChunk(bits)) % CountWrap \in 0..(CountWrap - 1)
    <3> DEFINE m == list[l].count + PerChunk(bits)
    <3> HIDE DEF m
    <3>1. m \in Nat => m % CountWrap \in 0..(CountWrap - 1)
      BY <1>2, Division
    <3> QED BY <2>2, <3>1 DEF m
  <2>4. c \in ListChunk /\ c.phys = list[l].phys /\ c.dev = list[l].dev
    BY <2>1, <2>3 DEF ListChunk
  <2>5. longer = [list EXCEPT ![l] = c]
    OBVIOUS
  <2> HIDE DEF longer, c
  <2> QED BY <1>2, <2>1, <2>4, <2>5, CellReplaced
<1> HIDE DEF new, longer, e
<1>8. list' \in Seq(ListChunk) /\ \A k \in 1..Len(list') : list'[k].phys < NullAddr /\ list'[k].dev <= Len(Mapped)
  <2>1. CASE e.lo = NullAddr /\ list' = list
    BY <1>2, <2>1
  <2>2. CASE list # <<>> /\ list' = longer
    BY <1>2, <1>7, <2>2
  <2>3. CASE e.lo # NullAddr /\ list' = Append(list, new)
    <3>1. new \in ListChunk /\ new.phys < NullAddr /\ new.dev <= Len(Mapped)
      BY <1>6, <2>3
    <3>2. /\ list' \in Seq(ListChunk) /\ Len(list') = Len(list) + 1 /\ list'[Len(list) + 1] = new
          /\ \A k \in 1..Len(list) : list'[k] = list[k]
      BY <1>2, <2>3, <3>1
    <3>3. ASSUME NEW k \in 1..Len(list')
          PROVE  list'[k].phys < NullAddr /\ list'[k].dev <= Len(Mapped)
      <4>1. k = Len(list) + 1 \/ k \in 1..Len(list)
        BY <1>2, <3>2
      <4> QED BY <1>2, <3>1, <3>2, <4>1
    <3> QED BY <3>2, <3>3
  <2> QED BY <1>4, <2>1, <2>2, <2>3
<1>9. Fields'
  BY <1>0, <1>2, <1>8 DEF Fields
<1>10. Counted'
  <2>1. n + 1 <= NChunks(bits) /\ n + 1 # 0
    BY <1>0, <1>2, <1>3
  <2> QED BY <1>0, <1>1, <1>8, <2>1 DEF Counted
<1>11. copied # 0
  BY <1>0 DEF MapInv, Emitted, ByOthers
<1>12. OneRun' = OneRun
  BY <1>0 DEF OneRun, NBlocks
<1>13. ASSUME OneRun
       PROVE  Recopied'
  <2>1. FirstIndex /\ (n > 0 => FirstChunk)
    BY <1>0, <1>2, <1>11, <1>13 DEF MapInv, Recopied
  <2>2. FirstChunk'
    <3>1. CASE n = 0
      <4>1. e = idx[1] /\ list = <<>>
        BY <1>0, <3>1 DEF e, Counted
      <4>2. e.lo # NullAddr /\ list' = Append(<<>>, new)
        BY <1>4, <2>1, <4>1 DEF FirstIndex
      <4>3. list' # <<>> /\ list'[1] = new
        BY <4>2
      <4> QED BY <1>0, <1>6, <2>1, <4>1, <4>2, <4>3 DEF FirstIndex, FirstChunk
    <3>2. CASE n > 0
      <4>1. list # <<>> /\ list[1].phys = truth[0].at /\ list[1].dev = truth[0].dev
        BY <2>1, <3>2 DEF FirstChunk
      <4>2. 1 \in 1..Len(list)
        BY <1>2, <4>1
      <4>3. list' # <<>> /\ list'[1].phys = list[1].phys /\ list'[1].dev = list[1].dev
        <5>1. CASE list' = list
          BY <4>1, <5>1
        <5>2. CASE list' = longer
          BY <1>7, <4>1, <4>2, <5>2
        <5>3. CASE list' = Append(list, new)
          BY <1>2, <4>2, <5>3
        <5> QED BY <1>4, <5>1, <5>2, <5>3
      <4> QED BY <1>0, <4>1, <4>3 DEF FirstChunk
    <3> QED BY <1>2, <3>1, <3>2
  <2> QED BY <1>0, <2>1, <2>2 DEF Recopied, FirstIndex
<1> QED BY <1>0, <1>9, <1>10, <1>11, <1>12, <1>13 DEF MapInv

LEMMA ParseEndsKeeps ==
    ASSUME Parameters, InRange, MapInv, ParseEnds
    PROVE  MapInv'
<1>0. /\ Fields /\ Counted /\ stage = "parse" /\ n = NChunks(bits) /\ stage' = "emit"
      /\ bits' = MinBits(size) /\ idx' = <<>> /\ n' = 0 /\ ci' = 1 /\ coff' = 0
      /\ gbits' = gbits /\ size' = size /\ list' = list /\ copied' = copied /\ truth' = truth
  BY DEF MapInv, ParseEnds, EntryBits
<1>1. /\ size \in Nat \ {0} /\ bits \in Nat /\ copied \in Nat
      /\ bits' \in 0..MaxBits /\ Up(size, BlockSize * PerChunk(bits')) = 1
      /\ Up(size, BlockSize) <= PerChunk(bits')
  <2>1. size \in Nat \ {0} /\ size <= BlockSize * PerChunk(MaxBits) /\ gbits \in 0..MaxBits
    BY <1>0 DEF Fields
  <2>2. bits \in Nat /\ copied \in Nat
    BY <1>0 DEF Parameters, Fields
  <2> QED BY <1>0, <2>1, <2>2, OneChunk
<1>2. NChunks(bits)' = 1 /\ NBlocks' <= PerChunk(bits')
  BY <1>0, <1>1 DEF NChunks, NBlocks
<1>3. Fields'
  BY <1>0, <1>1 DEF Fields
<1>4. Counted'
  BY <1>0, <1>2 DEF Counted
<1>5. copied # 0
  BY <1>0 DEF MapInv, Emitted, ByOthers
<1>6. OneRun' = OneRun
  BY <1>0 DEF OneRun, NBlocks
<1>7. ASSUME OneRun
      PROVE  Recopied'
  <2>1. n > 0
    <3>1. NChunks(bits) \in Nat \ {0}
      BY <1>1, Widths DEF NChunks
    <3> QED BY <1>0, <3>1
  <2>2. FirstChunk
    BY <1>0, <1>1, <1>5, <1>7, <2>1 DEF MapInv, Recopied
  <2> QED BY <1>0, <2>2 DEF Recopied, FirstChunk
<1> QED BY <1>0, <1>3, <1>4, <1>5, <1>6, <1>7 DEF MapInv

LEMMA MapStep ==
    ASSUME Parameters, InRange, MapInv, [ChunkNext]_chunkVars
    PROVE  MapInv'
<1>1. CASE UNCHANGED chunkVars
  BY <1>1 DEF chunkVars, MapInv, Fields, Counted, Emitted, ByOthers, Recopied, FirstIndex,
              FirstChunk, OneRun, StartsIn, Sum, Per, NBlocks, NChunks, LoadBlock
<1> QED BY <1>1, EmitIndexKeeps, EmitEndsKeeps, RecopyKeeps, ParseIndexKeeps,
           ParseEndsKeeps DEF ChunkNext

LEMMA InvMapped == Parameters /\ InRange /\ MapInv => MappedRight
<1> SUFFICES ASSUME Parameters, InRange, MapInv, stage = "image",
                    (copied = 0 /\ StepsFit(list, PerChunk(bits))) \/ OneRun
             PROVE  MappedAsListed
  BY DEF MappedRight
<1>1. CASE copied = 0
  BY <1>1, FirstImageMapped DEF Per
<1>2. CASE copied > 0 /\ OneRun
  <2> SUFFICES ASSUME NEW b \in 0..(NBlocks - 1)
               PROVE  LoadBlock(b) = truth[b]
    BY DEF MappedAsListed
  <2>1. FirstIndex /\ NChunks(bits) = 1 /\ Fields /\ Counted
    BY <1>2, RunsBegin DEF MapInv, Counted
  <2> DEFINE j == b \div Per + 1
  <2>2. /\ j \in 1..NChunks(bits) /\ idx[j] \in Index
        /\ LoadBlock(b) = IF idx[j].lo = NullAddr THEN Zeros
                          ELSE [dev |-> idx[j].dev, at |-> idx[j].lo + b - (j - 1) * Per]
    BY <2>1, LoadGives
  <2> HIDE DEF j
  <2>3. j = 1
    BY <2>1, <2>2
  <2>4. (j - 1) * Per = 0
    <3>1. Per \in Nat
      <4>1. bits \in Nat
        BY <2>1 DEF Parameters, Fields
      <4> QED BY <4>1, Powers DEF Per
    <3> QED BY <2>3, <3>1
  <2>5. LoadBlock(b) = [dev |-> truth[0].dev, at |-> truth[0].at + b - 0]
    BY <2>1, <2>2, <2>3, <2>4 DEF FirstIndex
  <2>6. truth[b] = [dev |-> truth[0].dev, at |-> truth[0].at + b]
    BY <1>2 DEF OneRun
  <2>7. truth[0].at + b - 0 = truth[0].at + b
    <3>1. truth[0].at \in Nat
      <4>1. AddrWrap \in Nat /\ idx[1] \in Index
        BY <2>2, <2>3 DEF Parameters
      <4> QED BY <2>1, <4>1 DEF FirstIndex, Index
    <3>2. b \in Int
      <4>1. NBlocks \in Nat
        <5>1. size \in Nat \ {0} /\ 0 \in Nat
          BY <2>1 DEF Fields
        <5> QED BY <5>1, Widths DEF NBlocks
      <4> QED BY <4>1
    <3> DEFINE a == truth[0].at
    <3> HIDE DEF a
    <3>3. a \in Nat => a + b - 0 = a + b
      BY <3>2
    <3> QED BY <3>1, <3>3 DEF a
  <2> QED BY <2>5, <2>6, <2>7
<1>3. copied \in Nat
  BY DEF MapInv, Fields
<1> QED BY <1>1, <1>2, <1>3

LEMMA InvDirect == Parameters /\ InRange /\ MapInv => DirectAgrees
<1> SUFFICES ASSUME Parameters, InRange, MapInv, stage = "image", NEW d \in Direct,
                    NEW b \in 0..(NBlocks - 1)
             PROVE  LoadBlock(b) = [dev |-> d.dev, at |-> d.at + b]
  BY DEF DirectAgrees
<1>1. Fields /\ Counted
  BY DEF MapInv
<1> DEFINE dev == idx[1].dev % MaskMod
           j == b \div Per + 1
<1>2. /\ \A k \in 1..NChunks(bits) :
           /\ idx[k].lo # NullAddr
           /\ Full(idx[k]) = Full(idx[1]) + (k - 1) * Per
           /\ idx[k].dev % MaskMod = dev
      /\ d = [dev |-> IF dev \in DeviceIds THEN dev ELSE 0, at |-> Full(idx[1])]
  BY DEF Direct, Per
<1>3. /\ bits \in Nat /\ size \in Nat \ {0} /\ idx \in Seq(Index) /\ Len(idx) = NChunks(bits)
      /\ \A k \in 1..Len(idx) : FitIndex(idx[k])
      /\ AddrWrap \in Nat \ {0} /\ Len(Mapped) \in Nat /\ NullAddr = AddrWrap - 1
  BY <1>1 DEF Parameters, Fields, Counted, NullAddr
<1>4. NChunks(bits) \in Nat \ {0} /\ NBlocks \in Nat \ {0} /\ Per \in Nat
  BY <1>3, Widths, Powers DEF NChunks, NBlocks, Per
<1>5. ASSUME NEW k \in 1..NChunks(bits)
      PROVE  /\ idx[k].dev \in 0..Len(Mapped) /\ idx[k].dev % MaskMod = idx[k].dev
             /\ idx[k].lo \in Nat /\ Full(idx[k]) = idx[k].lo
  <2>1. idx[k] \in Index /\ FitIndex(idx[k]) /\ idx[k].lo # NullAddr
    BY <1>2, <1>3
  <2>2. idx[k].hi = 0 /\ idx[k].dev \in 0..Len(Mapped) /\ idx[k].lo \in Nat
    BY <1>3, <2>1 DEF FitIndex, Index
  <2> QED BY <1>3, <2>2, NotMasked DEF Full
<1>6. /\ j \in 1..NChunks(bits) /\ (j - 1) * Per \in Nat
      /\ LoadBlock(b) = IF idx[j].lo = NullAddr THEN Zeros
                        ELSE [dev |-> idx[j].dev, at |-> idx[j].lo + b - (j - 1) * Per]
  BY <1>1, LoadGives
<1> HIDE DEF j, dev
<1>7. 1 \in 1..NChunks(bits)
  BY <1>4
<1>8. LoadBlock(b) = [dev |-> idx[1].dev, at |-> idx[j].lo + b - (j - 1) * Per]
  BY <1>2, <1>5, <1>6, <1>7 DEF dev
<1>9. idx[j].lo + b - (j - 1) * Per = idx[1].lo + b
  <2> DEFINE x == idx[j].lo
             y == idx[1].lo
             p == (j - 1) * Per
  <2>1. x \in Nat /\ y \in Nat /\ p \in Nat /\ x = y + p
    BY <1>2, <1>5, <1>6, <1>7
  <2>2. b \in Nat
    BY <1>4
  <2> HIDE DEF x, y, p
  <2>3. x + b - p = y + b
    BY <2>1, <2>2
  <2> QED BY <2>3 DEF x, y, p
<1>10. d.dev = idx[1].dev /\ d.at = idx[1].lo
  <2>1. dev = idx[1].dev /\ idx[1].dev \in 0..Len(Mapped) /\ Full(idx[1]) = idx[1].lo
    BY <1>5, <1>7 DEF dev
  <2>2. dev \in DeviceIds \/ dev = 0
    BY <1>3, <2>1 DEF DeviceIds
  <2> QED BY <1>2, <2>1, <2>2 DEF DeviceIds
<1> QED BY <1>8, <1>9, <1>10

(* mkfs_image.go:254-276, writer.go:466, for any sizes, widths and number  *)
(* of copies: a block of a file is read from the place its source gave it, *)
(* in the first image of a list that fits the chunk size, and in every     *)
(* further copy of a file that is one run.                                 *)
THEOREM BlocksStayWhereTheyWere ==
    ASSUME InRange
    PROVE  ChunkSpec => []MappedRight
<1> USE ChunkAssumption
<1>1. ChunkInit => MapInv
  BY MapInit
<1>2. MapInv /\ [ChunkNext]_chunkVars => MapInv'
  BY MapStep
<1>3. MapInv => MappedRight
  BY InvMapped
<1> QED BY <1>1, <1>2, <1>3, PTL DEF ChunkSpec

(* mkfs.go:494, under the same assumption: a file that openDirect takes    *)
(* for one run is where loadBlock finds its blocks.                        *)
THEOREM DirectReadsTheSame ==
    ASSUME InRange
    PROVE  ChunkSpec => []DirectAgrees
<1> USE ChunkAssumption
<1>1. ChunkInit => MapInv
  BY MapInit
<1>2. MapInv /\ [ChunkNext]_chunkVars => MapInv'
  BY MapStep
<1>3. MapInv => DirectAgrees
  BY InvDirect
<1> QED BY <1>1, <1>2, <1>3, PTL DEF ChunkSpec
=============================================================================
