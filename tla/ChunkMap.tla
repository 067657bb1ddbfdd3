------------------------------- MODULE ChunkMap -------------------------------
(***************************************************************************)
(* Where the blocks of one chunk-based file are.  The Writer holds a list  *)
(* of chunks (runs of blocks of a device); writeChunkIndexes turns it into *)
(* one index for each logical chunk of the image (src/writer.go); the      *)
(* reader goes from a position in the file to a device and an address,     *)
(* block by block (loadBlock) or for the whole file at once (openDirect,   *)
(* src/erofs.go); and a metadata-only copy of the image turns the indexes  *)
(* into a list of chunks again (parseChunks, src/mkfs_image.go), which the *)
(* next image is written from.                                             *)
(*                                                                         *)
(* Positions are bytes, addresses are blocks of a device; contents are     *)
(* left out: a byte is known by its place.                                 *)
(***************************************************************************)
EXTENDS Integers, Sequences

CONSTANTS
    BlockSize,    \* bytes per block
    GlobalBits,   \* what erofsWriter.chunkBits can be: log2 of the blocks of a
                  \* chunk, 0 for blocks of 4096 bytes and more for smaller ones
    MaxBits,      \* LayoutChunkFormatBits, 31 in the code
    CountWrap,    \* Chunk.Count is a number below this, 2^16 in the code
    AddrWrap,     \* StartBlkLo is a number below this, 2^32 in the code
    Mapped,       \* device -> [start, blocks]: its range of the unified
                  \* address space, start 0 when it has none
    Sources,      \* what a source or a closed File gives the Writer
    Foreign,      \* chunk-based files of images written by other tools
    MaxRecopies   \* bound on how often an image is copied

DeviceIds == 1..Len(Mapped)
ListChunk == [phys : Nat, count : 0..(CountWrap - 1), dev : Nat]
Index == [hi : Nat, lo : 0..(AddrWrap - 1), dev : Nat]

(* StartBlkLo of a chunk that is not there.                                *)
NullAddr == AddrWrap - 1
NullIndex == [hi |-> 65535, lo |-> NullAddr, dev |-> 0]

Up(a, b) == (a + b - 1) \div b

(* 1 shifted left by b.                                                    *)
PerChunk(b) == LET pow[k \in 0..b] == IF k = 0 THEN 1 ELSE 2 * pow[k - 1] IN pow[b]

Parameters ==
    /\ BlockSize \in Nat \ {0} /\ CountWrap \in Nat \ {0} /\ AddrWrap \in Nat \ {0}
    /\ Mapped \in Seq([start : Nat, blocks : Nat]) /\ MaxBits \in Nat
    /\ GlobalBits \subseteq 0..MaxBits /\ MaxRecopies \in Nat
    /\ \A s \in Sources : /\ s.size \in Nat \ {0}
                          /\ s.chunks \in Seq(ListChunk) /\ s.chunks # <<>>
                          /\ s.contiguous \in BOOLEAN
    /\ \A f \in Foreign : /\ f.size \in Nat \ {0}
                          /\ f.bits \in 0..MaxBits /\ f.idx \in Seq(Index)
                          /\ Len(f.idx) = Up(f.size, BlockSize * PerChunk(f.bits))

ASSUME ChunkAssumption == Parameters

VARIABLES
    stage,        \* "emit": the indexes are being written; "image": the image
                  \* can be read; "parse": a copy of it is being taken
    size,         \* bytes of the file
    list, contiguous,   \* the fields of the fsEntry
    gbits,        \* erofsWriter.chunkBits
    bits, idx,    \* chunk format and indexes in the image
    n,            \* indexes written or parsed
    ci, coff,     \* writeChunkIndexes: current chunk, blocks of it passed
    copied,       \* images copied so far
    truth         \* history: block of the file -> its place, by the source

chunkVars == <<stage, size, list, contiguous, gbits, bits, idx, n, ci, coff, copied, truth>>

NBlocks == Up(size, BlockSize)
NChunks(b) == Up(size, BlockSize * PerChunk(b))

-----------------------------------------------------------------------------
(* Reading.                                                                *)

Zeros == [dev |-> -1, at |-> 0]       \* a block of zeros
Invalid == [dev |-> -2, at |-> 0]     \* an error

(* mapDev, for a block address.                                            *)
MapDev(dev, blk) ==
    LET holds(d) == Mapped[d].start # 0 /\ blk \in Mapped[d].start..(Mapped[d].start + Mapped[d].blocks - 1)
        hits == {d \in DeviceIds : holds(d)}
        first == CHOOSE d \in hits : \A e \in hits : d <= e
    IN  CASE dev \in DeviceIds -> [dev |-> dev, at |-> blk]
          [] dev > Len(Mapped) -> Invalid
          [] dev = 0 /\ hits = {} -> [dev |-> 0, at |-> blk]
          [] OTHER -> [dev |-> first, at |-> blk - Mapped[first].start]

(* deviceIDMask, as a modulus: the ids up to the next power of two.        *)
MaskMod == CHOOSE p \in {PerChunk(k) : k \in 0..Len(Mapped)} :
            /\ p > Len(Mapped)
            /\ \A k \in 0..Len(Mapped) : PerChunk(k) > Len(Mapped) => p <= PerChunk(k)

(* Mutant of LoadBlock: every block is the first of its chunk.             *)
LoadChunk(b) ==
    LET e == idx[b \div PerChunk(bits) + 1]
    IN  IF e.lo = NullAddr THEN Zeros ELSE MapDev(e.dev % MaskMod, e.lo)

(* loadBlock, for block b of the file.                                     *)
LoadBlock(b) ==
    LET cn == b \div PerChunk(bits)
        e == idx[cn + 1]
    IN  IF e.lo = NullAddr THEN Zeros
        ELSE MapDev(e.dev % MaskMod, e.lo + (b - cn * PerChunk(bits)))

(* The address of an index.                                                *)
Full(e) == e.hi * AddrWrap + e.lo

(* Mutant of Direct: holes are not looked for.                             *)
DirectOverHoles ==
    LET dev == idx[1].dev % MaskMod
    IN  IF \A k \in 1..NChunks(bits) : idx[k].lo = NullAddr \/
              Full(idx[k]) = Full(idx[1]) + (k - 1) * PerChunk(bits)
        THEN {[dev |-> IF dev \in DeviceIds THEN dev ELSE 0, at |-> Full(idx[1])]}
        ELSE {}

(* openDirect: the place of the first byte of a file that lies in one run, *)
(* or nothing.                                                             *)
Direct ==
    LET run == \A k \in 1..NChunks(bits) :
                  /\ idx[k].lo # NullAddr
                  /\ Full(idx[k]) = Full(idx[1]) + (k - 1) * PerChunk(bits)
                  /\ idx[k].dev % MaskMod = idx[1].dev % MaskMod
        dev == idx[1].dev % MaskMod
    IN  IF ~run THEN {}
        ELSE {[dev |-> IF dev \in DeviceIds THEN dev ELSE 0, at |-> Full(idx[1])]}

-----------------------------------------------------------------------------
(* Writing.                                                                *)

(* Blocks in the chunks before chunk k of a list.                          *)
Before(cs) == LET sum[k \in 1..(Len(cs) + 1)] ==
                    IF k = 1 THEN 0 ELSE sum[k - 1] + cs[k - 1].count
              IN  sum

(* minChunkBits: one chunk for the whole file, if the format allows.       *)
MinBits(sz) ==
    LET fits(b) == BlockSize * PerChunk(b) >= sz
    IN  CHOOSE b \in gbits..MaxBits :
          /\ fits(b) \/ b = MaxBits
          /\ \A c \in gbits..(b - 1) : ~fits(c)

EntryBits(contig, sz) == IF contig THEN MinBits(sz) ELSE gbits

(* The place the source gives block b, counting from 0.                    *)
Listed(cs, b) ==
    LET k == CHOOSE j \in 1..Len(cs) : b \in Before(cs)[j]..(Before(cs)[j + 1] - 1)
    IN  IF b >= Before(cs)[Len(cs) + 1] THEN Zeros
        ELSE MapDev(cs[k].dev, cs[k].phys + b - Before(cs)[k])

InitSource ==
    \E s \in Sources :
      /\ stage = "emit" /\ size = s.size
      /\ list = s.chunks /\ contiguous = s.contiguous
      /\ bits = EntryBits(s.contiguous, s.size) /\ idx = <<>>
      /\ truth = [b \in 0..(Up(s.size, BlockSize) - 1) |-> Listed(s.chunks, b)]

(* An image of another tool is what its reader takes it for.               *)
InitForeign ==
    \E f \in Foreign :
      /\ stage = "image" /\ size = f.size
      /\ list = <<>> /\ contiguous = FALSE
      /\ bits = f.bits /\ idx = f.idx
      /\ truth = [b \in 0..(NBlocks - 1) |-> LoadBlock(b)]

ChunkInit ==
    /\ gbits \in GlobalBits
    /\ InitSource \/ InitForeign
    /\ n = 0 /\ ci = 1 /\ coff = 0 /\ copied = 0

(* Mutant of Skip: at most one chunk is left behind.                       *)
SkipOne(at) ==
    IF at < Before(list)[ci + 1] THEN ci' = ci /\ coff' = at - Before(list)[ci]
    ELSE ci' = ci + 1 /\ coff' = 0

(* The position after at blocks of the list: the inner loop, which skips   *)
(* every chunk that is used up.                                            *)
Skip(at) ==
    LET left == {k \in ci..Len(list) : at < Before(list)[k + 1]}
        next == IF left = {} THEN Len(list) + 1
                ELSE CHOOSE k \in left : \A j \in left : k <= j
    IN  /\ ci' = next
        /\ coff' = at - Before(list)[next]

EmitIndex ==
    /\ stage = "emit" /\ n < NChunks(bits)
    /\ n' = n + 1
    /\ \/ /\ ci > Len(list)
          /\ idx' = Append(idx, NullIndex)
          /\ UNCHANGED <<ci, coff>>
       \/ /\ ci <= Len(list)
          /\ LET phys == list[ci].phys + coff
             IN  idx' = Append(idx, [hi |-> phys \div AddrWrap, lo |-> phys % AddrWrap,
                                     dev |-> list[ci].dev])
          /\ Skip(Before(list)[ci] + coff + PerChunk(bits))
    /\ UNCHANGED <<gbits, stage, size, list, contiguous, bits, copied, truth>>

EmitEnds ==
    /\ stage = "emit" /\ n = NChunks(bits)
    /\ stage' = "image"
    /\ UNCHANGED <<gbits, size, list, contiguous, bits, idx, n, ci, coff, copied, truth>>

(* CopyFrom(image, MetadataOnly()) into the next Writer.                   *)
Recopy ==
    /\ stage = "image" /\ copied < MaxRecopies
    /\ stage' = "parse" /\ copied' = copied + 1
    /\ n' = 0 /\ list' = <<>>
    /\ UNCHANGED <<gbits, size, contiguous, bits, idx, ci, coff, truth>>

(* parseChunks: a hole is left out, an index that follows on is merged.    *)
(* Count has 16 bits.                                                      *)
Merges(last, e, per) ==
    /\ last.dev = e.dev % MaskMod
    /\ last.phys + last.count = Full(e)
    /\ last.count + per <= CountWrap - 1

ParseIndex ==
    /\ stage = "parse" /\ n < NChunks(bits)
    /\ n' = n + 1
    /\ LET e == idx[n + 1]
           per == PerChunk(bits)
           last == list[Len(list)]
       IN  IF e.lo = NullAddr THEN UNCHANGED list
           ELSE IF list # <<>> /\ Merges(last, e, per)
           THEN list' = [list EXCEPT ![Len(list)].count = (@ + per) % CountWrap]
           ELSE list' = Append(list, [phys |-> Full(e), count |-> per % CountWrap,
                                      dev |-> e.dev % MaskMod])
    /\ UNCHANGED <<gbits, stage, size, contiguous, bits, idx, ci, coff, copied, truth>>

(* The copied entry always counts as contiguous.                           *)
ParseEnds ==
    /\ stage = "parse" /\ n = NChunks(bits)
    /\ stage' = "emit"
    /\ contiguous' = TRUE
    /\ bits' = EntryBits(TRUE, size) /\ idx' = <<>>
    /\ n' = 0 /\ ci' = 1 /\ coff' = 0
    /\ UNCHANGED <<gbits, size, list, copied, truth>>

ChunkNext == EmitIndex \/ EmitEnds \/ Recopy \/ ParseIndex \/ ParseEnds

ChunkSpec == ChunkInit /\ [][ChunkNext]_chunkVars
-----------------------------------------------------------------------------
ChunkTypeOK ==
    /\ stage \in {"emit", "image", "parse"}
    /\ size \in Nat \ {0} /\ list \in Seq(ListChunk) /\ contiguous \in BOOLEAN
    /\ gbits \in GlobalBits /\ bits \in 0..MaxBits /\ idx \in Seq(Index)
    /\ Len(idx) <= NChunks(bits) /\ n \in 0..NChunks(bits)
    /\ ci \in 1..(Len(list) + 1) \/ stage # "emit"
    /\ coff \in Nat /\ copied \in 0..MaxRecopies

(* What a chunk and an index can say: addresses of 32 bits, and no ranges  *)
(* of their own for devices, as in every image this Writer makes.          *)
FitChunk(c) == c.count > 0 /\ c.phys + c.count <= NullAddr /\ c.dev <= Len(Mapped)
FitIndex(e) == e.lo # NullAddr => e.hi = 0 /\ e.dev <= Len(Mapped)
InRange ==
    /\ \A d \in DeviceIds : Mapped[d].start = 0
    /\ \A s \in Sources : /\ s.size <= BlockSize * PerChunk(MaxBits)
                          /\ \A k \in DOMAIN s.chunks : FitChunk(s.chunks[k])
    /\ \A f \in Foreign : /\ f.size <= BlockSize * PerChunk(MaxBits)
                          /\ \A k \in DOMAIN f.idx : FitIndex(f.idx[k])

MappedAsListed == \A b \in 0..(NBlocks - 1) : LoadBlock(b) = truth[b]

(* One run of blocks of one device, without a hole.                        *)
OneRun == \A b \in 0..(NBlocks - 1) :
            truth[b].dev >= 0 /\ truth[b] = [dev |-> truth[0].dev, at |-> truth[0].at + b]

(* The writer steps by logical chunks through counts of blocks: each count *)
(* ends where a logical chunk does, or at the end of the file, or the next *)
(* chunk of the list follows on.                                           *)
StepsFit(cs, per) ==
    \A k \in 1..Len(cs) :
      \/ Before(cs)[k + 1] % per = 0 \/ Before(cs)[k + 1] >= NBlocks
      \/ /\ k < Len(cs) /\ cs[k + 1].dev = cs[k].dev
         /\ cs[k + 1].phys = cs[k].phys + cs[k].count

(* mkfs_image.go:254-276, writer.go:466: a block of the file is read from  *)
(* the place its source gave it, in the first image of a list that fits    *)
(* the chunk size, and in every further copy of a file that is one run,    *)
(* however its run was cut into chunks and merged again.                   *)
MappedRight ==
    stage = "image" /\ ((copied = 0 /\ StepsFit(list, PerChunk(bits))) \/ OneRun)
      => MappedAsListed

(* mkfs.go:494: a copy with data reads the file through openDirect when it *)
(* offers a reader, and must get the bytes loadBlock would give.           *)
DirectAgrees ==
    stage = "image" =>
      \A d \in Direct : \A b \in 0..(NBlocks - 1) :
        LoadBlock(b) = [dev |-> d.dev, at |-> d.at + b]

(* builder/entry.go:22: "Chunk maps a range of logical blocks to physical  *)
(* blocks on a device": whatever the counts.                               *)
(* Not kept: chunk_steps.cfg has a counterexample.                         *)
ListMapped == stage = "image" /\ copied = 0 => MappedAsListed

(* builder/entry.go:18, mkfs.go:748: contiguous says that the data blocks  *)
(* are; copies set it for every file and so keep the mapping.              *)
(* Not kept: chunk_recopy.cfg has a counterexample.                        *)
CopyKeepsMapping == stage = "image" /\ copied > 0 => MappedAsListed
=============================================================================
