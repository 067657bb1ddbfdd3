----------------------------- MODULE DeviceTable ------------------------------
(***************************************************************************)
(* The devices an image's chunks refer to.  A Writer keeps a table of      *)
(* device slots; each metadata-only CopyFrom adds the slots of its source  *)
(* and shifts the DeviceIDs of the source's chunks accordingly; a data     *)
(* file takes the first slot (src/mkfs.go, src/mkfs_image.go).  Close      *)
(* writes the table (writeBlock0, src/writer.go), Open reads it again      *)
(* (src/erofs.go), and the image can be the source of the next Writer.     *)
(* All chunks of an image count in its one block size.                     *)
(*                                                                         *)
(* A chunk is known by the file it belongs to and, as history, by the      *)
(* device its source means (from) and the block size it counts in (unit).  *)
(***************************************************************************)
EXTENDS Integers, Sequences

CONSTANTS
    Natives,       \* sources that are no image: [name, block, blocks, ids,
                   \* shared]; block 0: no BlockSize, blocks 0: no DeviceBlocks,
                   \* shared: Sys() returns the same Entry every time
    Given,         \* images written by other tools
    BlockSizes, DefaultBlock,
    MaxImages, MaxCopies   \* bounds on the images made and the copies taken

(* Images are known by their number, other sources by a negative one.      *)
Numbers == 1..(Len(Given) + MaxImages + 1)
Device == [of : {n.name : n \in Natives} \cup Numbers, dev : Nat]
Primary(name) == [of |-> name, dev |-> 0]

NativeFiles == UNION {{<<s.name, id>> : id \in s.ids} : s \in Natives}
GivenFiles == UNION {{c.file : c \in Given[i].chunks} : i \in DOMAIN Given}
Own == <<0, 0>>                         \* a file made by Create
Files == NativeFiles \cup GivenFiles \cup {Own}

Chunk == [file : Files, from : Device, unit : Nat, dev : Nat]
Slot == [what : Device, blocks : Nat]
Image == [name : Numbers, block : BlockSizes, slots : Seq(Slot), chunks : SUBSET Chunk]

ASSUME DeviceAssumption ==
    /\ DefaultBlock \in BlockSizes /\ BlockSizes \subseteq Nat \ {0}
    /\ MaxImages \in Nat /\ MaxCopies \in Nat
    /\ Natives \subseteq [name : Int, block : BlockSizes \cup {0}, blocks : Nat, ids : SUBSET Nat,
                          shared : BOOLEAN]
    /\ \A s \in Natives : s.name < 0
    /\ Given \in Seq(Image)

VARIABLES
    images,        \* images there are: those given, then those closed
    block,         \* Writer.blockSize, 0 when unset
    devices,       \* Writer.devices, with what each slot stands for
    dataFile,      \* whether there is WithDataFile
    chunks,        \* the chunks of the Writer's entries
    copy,          \* the running CopyFrom, or NoCopy
    shifted,       \* what was added to the ids in the Entries of a shared source
    copies         \* copies begun

wvars == <<block, devices, dataFile, chunks>>
vars == <<images, block, devices, dataFile, chunks, copy, shifted, copies>>

NoCopy == [offset |-> -1]
Running == copy # NoCopy
Me == Len(images) + 1
DataDeviceOf(n) == [of |-> n, dev |-> 1]
DataDevice == DataDeviceOf(Me)

-----------------------------------------------------------------------------
(* Reading an image.                                                       *)

(* writeBlock0: units of 128 bytes of the image; the superblock is one.    *)
SbUnit == 8
VolumeName == 0            \* the bytes of the superblock where a slot has its count
DevtSlotOff == SbUnit
WrittenAt(img, u) == IF u = SbUnit THEN VolumeName ELSE img.slots[u - SbUnit].blocks

(* Open: the block count of slot i.  Other tools say where their table is. *)
BlocksRead(k, i) ==
    IF k <= Len(Given) THEN images[k].slots[i].blocks
    ELSE WrittenAt(images[k], DevtSlotOff + i - 1)

(* roundupPowerOfTwo: the least power of two that is v or more.            *)
RoundUpPow2(v) ==
    LET pow[k \in 0..v] == IF k = 0 THEN 1 ELSE 2 * pow[k - 1]
    IN  CHOOSE p \in {pow[k] : k \in 0..v} : p >= v /\ \A k \in 0..v : pow[k] >= v => p <= pow[k]

(* Open: deviceIDMask as a modulus.                                        *)
IdMod(img) == RoundUpPow2(Len(img.slots) + 1)
Masked(img, id) == IF Len(img.slots) = 0 THEN 0 ELSE id % IdMod(img)

(* mapDev: the device a chunk of an image is read from; none of the tables *)
(* here maps a device into the primary's addresses.                        *)
Resolved(img, c) ==
    LET id == Masked(img, c.dev)
    IN  CASE id = 0 -> Primary(img.name)
          [] id \in 1..Len(img.slots) -> img.slots[id].what
          [] OTHER -> [of |-> img.name, dev |-> -1]

-----------------------------------------------------------------------------
(* Create, with or without a data file and a block size: the table of the  *)
(* Writer that makes image n.                                              *)
Reserved(df, n) == IF df THEN <<[what |-> DataDeviceOf(n), blocks |-> 0]>> ELSE <<>>

Init ==
    /\ images = Given /\ copy = NoCopy /\ copies = 0
    /\ shifted = [f \in NativeFiles |-> 0]
    /\ block \in BlockSizes \cup {0} /\ dataFile \in BOOLEAN
    /\ devices = Reserved(dataFile, Me) /\ chunks = {}

(* Mutant of BlockFits: a second block size is not refused.                *)
AnyBlock(bs) == TRUE

(* setBlockSize; 0 stands for a source that does not say.                  *)
BlockFits(bs) == bs = 0 \/ block = 0 \/ block = bs

SetBlock(bs) == block' = IF block # 0 THEN block ELSE bs
Pinned == IF block = 0 THEN DefaultBlock ELSE block

(* CopyFrom of a source that is no image, up to the walk.  A refused block *)
(* size changes nothing.                                                   *)
CopyNative(s, metaOnly) ==
    /\ ~Running /\ copies < MaxCopies /\ BlockFits(s.block)
    /\ SetBlock(s.block)
    /\ devices' = IF metaOnly /\ s.blocks # 0
                  THEN Append(devices, [what |-> [of |-> s.name, dev |-> 1], blocks |-> s.blocks])
                  ELSE devices
    /\ copy' = [source |-> s, metaOnly |-> metaOnly,
                offset |-> IF metaOnly /\ s.blocks # 0 THEN Len(devices) ELSE 0,
                left |-> {<<s.name, id>> : id \in s.ids}]
    /\ copies' = copies + 1
    /\ UNCHANGED <<images, dataFile, chunks, shifted>>

(* The slots a copy of image k brings, with the counts its reader took.    *)
SlotsOf(k) == [i \in DOMAIN images[k].slots |->
                 [what |-> images[k].slots[i].what, blocks |-> BlocksRead(k, i)]]

(* Mutant of ImageOffset: the slots are appended first.                    *)
OffsetBehind(k) == Len(devices) + Len(images[k].slots)

(* Mutant of ImageOffset: the ids are taken as they are.                   *)
OffsetZero(k) == 0

(* copyDeviceID - 1.                                                       *)
ImageOffset(k) == Len(devices)

(* CopyFrom of image k, up to the walk or the fast path.                   *)
CopyImage(k, metaOnly) ==
    /\ ~Running /\ copies < MaxCopies /\ BlockFits(images[k].block)
    /\ SetBlock(images[k].block)
    /\ devices' = IF metaOnly THEN devices \o SlotsOf(k) ELSE devices
    /\ copy' = [source |-> images[k], metaOnly |-> metaOnly, offset |-> ImageOffset(k),
                left |-> {c.file : c \in images[k].chunks}]
    /\ copies' = copies + 1
    /\ UNCHANGED <<images, dataFile, chunks, shifted>>

FromImage == "slots" \in DOMAIN copy.source
Replace(f, new) == chunks' = {c \in chunks : c.file # f} \cup new

(* A file of the source, its data left where it is.  add writes the sum    *)
(* into the list of the source's own Entry.                                *)
ItemReferred(f) ==
    /\ Running /\ f \in copy.left /\ copy.metaOnly
    /\ IF FromImage
       THEN LET c == CHOOSE x \in copy.source.chunks : x.file = f
            IN  /\ Replace(f, {[c EXCEPT !.dev = Masked(copy.source, c.dev) + copy.offset]})
                /\ UNCHANGED shifted
       ELSE LET id == f[2] + (IF copy.source.shared THEN shifted[f] ELSE 0) + copy.offset
            IN  /\ Replace(f, {[file |-> f, from |-> [of |-> copy.source.name, dev |-> f[2]],
                                unit |-> copy.source.block,
                                dev |-> id]})
                /\ shifted' = [shifted EXCEPT ![f] = @ + copy.offset]
    /\ copy' = [copy EXCEPT !.left = @ \ {f}]
    /\ UNCHANGED <<images, block, devices, dataFile, copies>>

(* The bytes of a file appended to the data file: one block of it here.    *)
Appended(f) ==
    /\ block' = Pinned
    /\ devices' = [devices EXCEPT ![1].blocks = @ + 1]
    /\ Replace(f, {[file |-> f, from |-> DataDevice, unit |-> Pinned, dev |-> 1]})

(* A file of the source copied with its data; without a data file it is    *)
(* kept for Close and has no chunks.                                       *)
ItemCopied(f) ==
    /\ Running /\ f \in copy.left /\ ~copy.metaOnly
    /\ IF dataFile THEN Appended(f)
       ELSE Replace(f, {}) /\ UNCHANGED <<block, devices>>
    /\ copy' = [copy EXCEPT !.left = @ \ {f}]
    /\ UNCHANGED <<images, dataFile, shifted, copies>>

(* The copy is complete, or fails at any file; what it did stays.          *)
CopyReturn ==
    /\ Running /\ copy' = NoCopy
    /\ UNCHANGED <<images, wvars, shifted, copies>>

(* Create, Write and Close of a File.                                      *)
OwnFile ==
    /\ ~Running /\ dataFile /\ \A c \in chunks : c.file # Own
    /\ Appended(Own)
    /\ UNCHANGED <<images, dataFile, copy, shifted, copies>>

(* Writer.Close; then another Writer is begun.                             *)
Close ==
    /\ ~Running /\ Len(images) < Len(Given) + MaxImages
    /\ images' = Append(images, [name |-> Me, block |-> Pinned, slots |-> devices,
                                 chunks |-> chunks])
    /\ block' \in BlockSizes \cup {0} /\ dataFile' \in BOOLEAN
    /\ devices' = Reserved(dataFile', Me + 1) /\ chunks' = {}
    /\ UNCHANGED <<copy, shifted, copies>>

Next ==
    \/ \E s \in Natives, m \in BOOLEAN : CopyNative(s, m)
    \/ \E k \in DOMAIN images, m \in BOOLEAN : CopyImage(k, m)
    \/ \E f \in Files : ItemReferred(f) \/ ItemCopied(f)
    \/ CopyReturn \/ OwnFile \/ Close

Spec == Init /\ [][Next]_vars
-----------------------------------------------------------------------------
(* Images given, then made, and the state of the Writer of the next one.   *)
TypeOK ==
    /\ images \in Seq(Image) /\ Len(images) <= Len(Given) + MaxImages
    /\ block \in BlockSizes \cup {0} /\ devices \in Seq(Slot) /\ dataFile \in BOOLEAN
    /\ chunks \subseteq Chunk /\ copies \in 0..MaxCopies
    /\ shifted \in [NativeFiles -> Nat]
    /\ Running => copy.offset \in 0..Len(devices) /\ copy.left \subseteq Files

(* What the callers of the next properties may rely on.                    *)
(* A source that is no image says how long its one device is and makes its *)
(* Entries anew for each copy; every chunk of an image of another tool is  *)
(* on a device of its table (from is that device) and in its block size.   *)
OnItsDevice(img, c) ==
    /\ Masked(img, c.dev) \in 1..Len(img.slots)
    /\ img.slots[Masked(img, c.dev)].what = c.from
SourcesOnDevices ==
    /\ \A s \in Natives : s.blocks # 0 /\ s.ids \subseteq {1} /\ ~s.shared
    /\ \A i \in DOMAIN Given : \A c \in Given[i].chunks : OnItsDevice(Given[i], c)
GivenInOneUnit == \A i \in DOMAIN Given : \A c \in Given[i].chunks : c.unit \in {0, Given[i].block}

Made == {images[k] : k \in (Len(Given) + 1)..Len(images)}

(* mkfs.go:1066-1070, mkfs_image.go:282: whatever was copied before, also  *)
(* by a copy that failed or in an earlier image, a chunk of an image is    *)
(* read from the device its source means.                                  *)
ResolvesOwn == \A img \in Made : \A c \in img.chunks : Resolved(img, c) = c.from

(* mkfs.go:1289, :1309: chunks that count in blocks of their source, or of *)
(* the data file, come only into images of that block size.                *)
OneUnit == \A img \in Made : \A c \in img.chunks : c.unit \in {0, img.block}

(* writer.go:260: "Write device slots right after superblock", for Open to *)
(* read: the counts come back.                                             *)
(* Not kept: device_slots.cfg has a counterexample.                        *)
SlotsReadBack ==
    \A k \in (Len(Given) + 1)..Len(images) : \A i \in DOMAIN images[k].slots :
      BlocksRead(k, i) = images[k].slots[i].blocks
=============================================================================
