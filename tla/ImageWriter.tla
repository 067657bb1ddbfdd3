------------------------------ MODULE ImageWriter ------------------------------
(***************************************************************************)
(* From the sorted list of entries to the bytes of the image               *)
(* (src/layout.go, src/writer.go).  planLayout gives every inode its place *)
(* in the metadata area and decides which data sits inline behind it;      *)
(* assignDataBlocks gives the rest its blocks; then the placeholder of the *)
(* superblock area, the data blocks, the metadata and, last, the           *)
(* superblock are written.  Planning and writing compute every offset      *)
(* separately, so the plan is only as good as their agreement.             *)
(*                                                                         *)
(* Offsets and sizes are real byte counts; contents are left out.          *)
(***************************************************************************)
EXTENDS Integers, Sequences

CONSTANTS
    BlockSize,    \* bytes per block, a power of two from 512 up
    Devices,      \* entries of the device table
    Inputs        \* the entry lists to serialise, in planLayout's order

Compact == 32     \* SizeInodeCompact
Extended == 64    \* SizeInodeExtended
Slot == 32        \* bytes per nid
IndexSize == 8    \* SizeChunkIndex

(* typ: what decides the layout; core: inode size; xattr: its xattr area;  *)
(* size: bytes of data (file size, serialised dirents, link target);       *)
(* data: a regular file has a reader; chunks: indexes of a chunk-based one.*)
EntryShape == [typ : {"file", "chunked", "dir", "link", "node"},
               core : {Compact, Extended}, xattr : Nat, size : Nat,
               data : BOOLEAN, chunks : Nat]

ASSUME WriterAssumption ==
    /\ BlockSize \in Nat \ {0} /\ BlockSize % Extended = 0
    /\ Devices \in Nat
    /\ Inputs \subseteq Seq(EntryShape)
    /\ \A in \in Inputs : \A i \in DOMAIN in : in[i].xattr % 4 = 0

VARIABLES
    entries,      \* the entry list
    stage,        \* which loop of the writer is running, or how it ended
    i,            \* entries the loop has dealt with
    off,          \* planLayout's currentOff, assignDataBlocks' addr, then
                  \* the bytes written to the metadata buffer
    plan,         \* entry -> offset, layout and trailing size
    block,        \* entry -> data block address, 0 for none
    metaBlk,      \* metaBlkAddr
    out,          \* bytes written to the output before the last Seek
    dataAt,       \* history: entry -> output offset of its data blocks
    inodeAt,      \* history: entry -> metadata offset of its inode
    super         \* the superblock's Blocks, 0 while it is a placeholder

vars == <<entries, stage, i, off, plan, block, metaBlk, out, dataAt, inodeAt, super>>

Up(n, unit) == ((n + unit - 1) \div unit) * unit
Blocks(n) == (n + BlockSize - 1) \div BlockSize

SbAreaSize == Up(1024 + 128 + Devices * 128, BlockSize)
SbAreaBlocks == SbAreaSize \div BlockSize

-----------------------------------------------------------------------------
(* planLayout for one entry at the offset at.                              *)

Header(e) == e.core + e.xattr
MovesTo(e, at) == IF (at % BlockSize) + e.core > BlockSize THEN Up(at, BlockSize) ELSE at

(* The first decision is made at the offset before the inode is moved off  *)
(* a block boundary ...                                                    *)
WantsInline(e, at) ==
    LET fits == ((at + Header(e)) % BlockSize) + e.size <= BlockSize
    IN  /\ e.size > 0
        /\ \/ e.typ = "file" /\ e.size <= BlockSize - Header(e) /\ fits
           \/ e.typ \in {"dir", "link"} /\ fits

(* Mutant of IsInline: the first decision stands.                          *)
StaysInline(e, at) == WantsInline(e, at)

(* ... and taken back when the moved inode with its data is too long.      *)
IsInline(e, at) ==
    /\ WantsInline(e, at)
    /\ (MovesTo(e, at) % BlockSize) + Header(e) + e.size <= BlockSize

Layout(e, at) == IF e.typ = "chunked" THEN "chunks"
                 ELSE IF IsInline(e, at) THEN "inline" ELSE "plain"

Trailing(e, layout) == CASE layout = "inline" -> e.size
                         [] layout = "chunks" -> e.chunks * IndexSize
                         [] OTHER -> 0

(* flatPlainDataSize.                                                      *)
PlainSize(e, layout) ==
    IF layout # "plain" \/ e.typ \in {"chunked", "node"} \/ (e.typ = "file" /\ ~e.data)
    THEN 0 ELSE e.size

N == Len(entries)
Size(k) == Up(Header(entries[k]) + plan[k].trailing, Slot)
DataSize(k) == PlainSize(entries[k], plan[k].layout)

-----------------------------------------------------------------------------
Init ==
    /\ entries \in Inputs
    /\ stage = "plan" /\ i = 0 /\ off = 0
    /\ plan = <<>> /\ block = <<>> /\ metaBlk = 0
    /\ out = 0 /\ dataAt = <<>> /\ inodeAt = <<>> /\ super = 0

(* A loop of the writer takes its next entry, or the next stage begins.    *)
Takes(s) == stage = s /\ i < N /\ i' = i + 1 /\ UNCHANGED <<entries, stage>>
Ends(s, t) == stage = s /\ i = N /\ i' = 0 /\ stage' = t /\ UNCHANGED entries

PlanEntry ==
    /\ Takes("plan")
    /\ LET e == entries[i + 1]
           at == MovesTo(e, off)
           t == Trailing(e, Layout(e, off))
       IN  /\ plan' = Append(plan, [at |-> at, layout |-> Layout(e, off), trailing |-> t])
           /\ off' = at + Up(Header(e) + t, Slot)
    /\ UNCHANGED <<block, metaBlk, out, dataAt, inodeAt, super>>

PlanEnds ==
    /\ Ends("plan", "assign")
    /\ off' = SbAreaBlocks
    /\ UNCHANGED <<plan, block, metaBlk, out, dataAt, inodeAt, super>>

(* Mutant of AssignEntry: an entry without data gets a negative address.   *)
AssignNull ==
    /\ Takes("assign")
    /\ block' = Append(block, IF DataSize(i + 1) > 0 THEN off ELSE -1)
    /\ off' = off + Blocks(DataSize(i + 1))
    /\ UNCHANGED <<plan, metaBlk, out, dataAt, inodeAt, super>>

(* Mutant of AssignEntry: a last partial block is not counted.             *)
AssignFloor ==
    /\ Takes("assign")
    /\ block' = Append(block, IF DataSize(i + 1) > 0 THEN off ELSE 0)
    /\ off' = off + DataSize(i + 1) \div BlockSize
    /\ UNCHANGED <<plan, metaBlk, out, dataAt, inodeAt, super>>

(* assignDataBlocks, data first.                                           *)
AssignEntry ==
    /\ Takes("assign")
    /\ block' = Append(block, IF DataSize(i + 1) > 0 THEN off ELSE 0)
    /\ off' = off + Blocks(DataSize(i + 1))
    /\ UNCHANGED <<plan, metaBlk, out, dataAt, inodeAt, super>>

(* The placeholder is written before any data.                             *)
AssignEnds ==
    /\ Ends("assign", "data")
    /\ metaBlk' = off
    /\ out' = SbAreaSize
    /\ UNCHANGED <<off, plan, block, dataAt, inodeAt, super>>

(* writeDataBlocks: the data and its padding, if there is any.             *)
DataEntry ==
    /\ Takes("data")
    /\ dataAt' = Append(dataAt, out)
    /\ out' = out + Up(DataSize(i + 1), BlockSize)
    /\ UNCHANGED <<off, plan, block, metaBlk, inodeAt, super>>

DataEnds ==
    /\ Ends("data", "meta")
    /\ off' = 0
    /\ UNCHANGED <<plan, block, metaBlk, out, dataAt, inodeAt, super>>

(* writeMetadataInodes: zeros up to the planned offset, the inode, its     *)
(* trailing data, padding.  The padding is computed from the planned       *)
(* trailing size, but of inline file data only what the reader gave was    *)
(* copied: one that ends early is no error here.                           *)
Copied(e, p) ==
    IF p.layout # "inline" \/ e.typ # "file" THEN {p.trailing}
    ELSE IF ~e.data THEN {0}
    ELSE {0, 1, p.trailing}          \* standing for all of 0..p.trailing

InodeEntry ==
    /\ Takes("meta")
    /\ LET e == entries[i + 1]
           p == plan[i + 1]
           at == IF p.at > off THEN p.at ELSE off
       IN  /\ inodeAt' = Append(inodeAt, at)
           /\ \E got \in Copied(e, p) :
                off' = at + Header(e) + got + Size(i + 1) - (Header(e) + p.trailing)
    /\ UNCHANGED <<plan, block, metaBlk, out, dataAt, super>>

(* The padded buffer goes to the output behind the data.                   *)
MetaEnds ==
    /\ Ends("meta", "super")
    /\ out' = out + Up(off, BlockSize)
    /\ UNCHANGED <<off, plan, block, metaBlk, dataAt, inodeAt, super>>

(* metadataBytes and the data blocks, counted again by writeBlock0.        *)
MetadataBytes ==
    LET end[k \in 0..N] ==
          IF k = 0 THEN 0
          ELSE (IF end[k - 1] < plan[k].at THEN plan[k].at ELSE end[k - 1]) + Size(k)
    IN  end[N]

(* Mutant of DataBlocks: the sizes are added up before rounding.           *)
DataBytesRounded ==
    LET sum[k \in 0..N] == IF k = 0 THEN 0 ELSE sum[k - 1] + DataSize(k)
    IN  Blocks(sum[N])

DataBlocks ==
    LET sum[k \in 0..N] == IF k = 0 THEN 0 ELSE sum[k - 1] + Blocks(DataSize(k))
    IN  sum[N]

(* The superblock is behind the first kilobyte of its area, the device     *)
(* slots behind it: a write that stops between them has set it.            *)
WriteBlock0 ==
    /\ stage = "super"
    /\ super' = SbAreaBlocks + Blocks(MetadataBytes) + DataBlocks
    /\ stage' \in {"done"} \cup (IF Devices > 0 THEN {"failed"} ELSE {})
    /\ UNCHANGED <<entries, i, off, plan, block, metaBlk, out, dataAt, inodeAt>>

(* Any write may fail, a file's reader may fail or end early, and the      *)
(* machine may stop: what has been written stays.                          *)
Fail ==
    /\ stage \in {"data", "meta", "super"}
    /\ stage' = "failed"
    /\ UNCHANGED <<entries, i, off, plan, block, metaBlk, out, dataAt, inodeAt, super>>

Next ==
    \/ PlanEntry \/ PlanEnds
    \/ AssignEntry \/ AssignEnds
    \/ DataEntry \/ DataEnds
    \/ InodeEntry \/ MetaEnds
    \/ WriteBlock0 \/ Fail

Spec == Init /\ [][Next]_vars
-----------------------------------------------------------------------------
TypeOK ==
    /\ entries \in Inputs
    /\ stage \in {"plan", "assign", "data", "meta", "super", "done", "failed"}
    /\ i \in 0..N /\ off \in Nat /\ metaBlk \in Nat /\ out \in Nat /\ super \in Nat
    /\ plan \in Seq([at : Nat, layout : {"inline", "plain", "chunks"}, trailing : Nat])
    /\ block \in Seq(Nat) /\ dataAt \in Seq(Nat) /\ inodeAt \in Seq(Nat)
    /\ Len(plan) <= N /\ Len(block) <= N /\ Len(dataAt) <= N /\ Len(inodeAt) <= N

(* What the reader relies on (loadBlock, readInfo): an inode starts at a   *)
(* whole nid and does not cross a block; inline data ends in the block its *)
(* inode starts in; no two inodes share a byte.                            *)
PlanSound ==
    \A k \in 1..Len(plan) :
      LET e == entries[k]  at == plan[k].at
      IN  /\ at % Slot = 0
          /\ at \div BlockSize = (at + e.core - 1) \div BlockSize
          /\ plan[k].layout = "inline" =>
                (at % BlockSize) + Header(e) + e.size <= BlockSize
          /\ k > 1 => plan[k - 1].at + Size(k - 1) <= at

(* The bytes go where the plan, and so every nid and block address already *)
(* handed to directories and inodes, says: also after an inline file that  *)
(* came up short.  The zeros up to an inode come from a buffer of one      *)
(* block (writer.go:287): asking for more would be a panic.                *)
WrittenAsPlanned ==
    /\ \A k \in 1..Len(inodeAt) : inodeAt[k] = plan[k].at
    /\ stage = "meta" /\ i < N => plan[i + 1].at - off \in 0..BlockSize
    /\ \A k \in 1..Len(dataAt) : DataSize(k) > 0 => dataAt[k] = block[k] * BlockSize
    /\ stage = "meta" => out = metaBlk * BlockSize

(* The superblock, once it is there, counts exactly the blocks that are:   *)
(* writeBlock0 recomputes them instead of counting what was written.  An   *)
(* image cut short has none, or all it counts (writer.go:108).             *)
SuperCountsAll == super # 0 => super * BlockSize = out

(* readInfo: the bytes it reads of an inode at an offset of the image, all *)
(* that is left of the block if that holds an extended inode.              *)
InfoLength(at) ==
    IF BlockSize - (at % BlockSize) < Extended THEN Extended ELSE BlockSize - (at % BlockSize)

(* layout.go:110: "inode core must not cross a block boundary", so that it *)
(* is read from one block: the image has the bytes readInfo asks for.      *)
(* Not kept: image_last_inode.cfg has a counterexample.                    *)
InodesReadable ==
    super # 0 => \A k \in 1..N :
      metaBlk * BlockSize + inodeAt[k] + InfoLength(inodeAt[k]) <= out

(* mkfs_image.go:377, erofs.go:586: chunk indexes are aligned to 8 bytes;  *)
(* readers skip to the next multiple of 8.                                 *)
(* Not kept: image_indexes.cfg has a counterexample.                       *)
IndexesAligned ==
    \A k \in 1..Len(plan) : plan[k].layout = "chunks" =>
      (plan[k].at + Header(entries[k])) % IndexSize = 0
=============================================================================
