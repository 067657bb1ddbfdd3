-------------------------------- MODULE FileRead -------------------------------
(***************************************************************************)
(* Reading a file from an image (src/erofs.go, src/block.go): readInfo,    *)
(* loadBlock for data in blocks of its own and for a tail behind the       *)
(* inode, Read with buffers of any length, and ReadFile.  The image comes  *)
(* from an io.ReaderAt, which may hold less than the image should and      *)
(* which may report the end along with its last bytes.                     *)
(*                                                                         *)
(* The file's bytes are numbered; the image has one block of metadata with *)
(* the file's inode, before or behind the file's blocks.                   *)
(***************************************************************************)
EXTENDS Integers, Sequences, FiniteSetsExt

CONSTANTS
    BlockSize,
    Compact, Extended,    \* inode sizes, 32 and 64
    Places,               \* where in its block the inode may lie
    Sizes,                \* sizes of the file
    Requests,             \* lengths of the buffers a caller reads into
    Losses,               \* how much of the image's end may be missing
    Eager                 \* which kinds of reader: TRUE if the end comes with the last bytes

ASSUME ReadAssumption ==
    /\ BlockSize \in Nat \ {0} /\ Compact \in Nat \ {0} /\ Extended \in Nat
    /\ Compact <= Extended /\ Extended <= BlockSize
    /\ Places \subseteq 0..BlockSize - 1 /\ Sizes \subseteq Nat
    /\ Requests \subseteq Nat \ {0} /\ Losses \subseteq Nat /\ Eager \subseteq BOOLEAN

VARIABLES
    size, layout, core, place, metaFirst,   \* the inode
    available, eager,          \* bytes the reader has, and its kind
    op,                   \* "none", "read" or "readfile"
    state,                \* "idle", in a call: "info" or "copy"; at the end "ended" or "failed"
    known, offset,        \* file.info is there; file.offset
    room, n,              \* Read: len(p), n
    given                 \* what the caller has got

inode == <<size, layout, core, place, metaFirst, available, eager>>
vars == <<inode, op, state, known, offset, room, n, given>>

(* calculateBlocks.                                                        *)
BlocksOf(s) == (s + BlockSize - 1) \div BlockSize
(* Blocks of the file outside the inode.                                   *)
DataBlocks(s, l) == IF l = "inline" THEN BlocksOf(s) - 1 ELSE BlocksOf(s)

MetaAddr == IF metaFirst THEN 0 ELSE DataBlocks(size, layout) * BlockSize
DataAddr == IF metaFirst THEN BlockSize ELSE 0
InodeAddr == MetaAddr + place

(* The bytes of the file are its positions; 0 is any other byte.           *)
Content(s) == [k \in 1..s |-> k]
InlineFrom == IF layout = "inline" THEN (BlocksOf(size) - 1) * BlockSize ELSE size
Image(addr) ==
    IF addr \in DataAddr..DataAddr + Min({InlineFrom, size}) - 1 THEN addr - DataAddr + 1
    ELSE IF addr \in InodeAddr + core..InodeAddr + core + size - InlineFrom - 1
         THEN addr - (InodeAddr + core) + InlineFrom + 1
    ELSE 0

(* ReadAt of len bytes fails.                                              *)
Fails(addr, len) == addr + len > available \/ (eager /\ addr + len = available)

(* readInfo reads what is left of the inode's block, or an extended inode. *)
InfoLength == IF BlockSize - place < Extended THEN Extended ELSE BlockSize - place

(* Mutant of LoadBlock: the offset into the last block is the block's.     *)
LoadBlockFromInode(pos) ==
    LET bn == pos \div BlockSize
        last == bn = BlocksOf(size) - 1
        tail == last /\ layout = "inline"
        from == IF tail THEN (place + core) ELSE pos % BlockSize
        upto == IF tail THEN size - bn * BlockSize + place + core
                ELSE IF last THEN size - bn * BlockSize ELSE BlockSize
    IN  [addr |-> IF tail THEN MetaAddr ELSE DataAddr + bn * BlockSize, from |-> from, upto |-> upto]
(* loadBlock: block address, and the part of the block to read.            *)
LoadBlock(pos) ==
    LET bn == pos \div BlockSize
        last == bn = BlocksOf(size) - 1
        tail == last /\ layout = "inline"
        from == IF tail THEN (place + core) + pos - bn * BlockSize ELSE pos % BlockSize
        upto == IF tail THEN size - bn * BlockSize + place + core
                ELSE IF last THEN size - bn * BlockSize ELSE BlockSize
    IN  [addr |-> IF tail THEN MetaAddr ELSE DataAddr + bn * BlockSize, from |-> from, upto |-> upto]

(* Inodes the layout makes: a tail does not leave its inode's block.       *)
Fitting ==
    /\ place % Compact = 0 /\ place + core <= BlockSize
    /\ layout = "inline" => size > 0 /\ place + core + size - InlineFrom <= BlockSize

Init ==
    /\ size \in Sizes /\ layout \in {"plain", "inline"} /\ core \in {Compact, Extended}
    /\ place \in Places /\ metaFirst \in BOOLEAN /\ Fitting
    /\ eager \in Eager
    /\ \E loss \in Losses : available = Max({0, (DataBlocks(size, layout) + 1) * BlockSize - loss})
    /\ op = "none" /\ state = "idle" /\ known = FALSE
    /\ offset = 0 /\ room = 0 /\ n = 0 /\ given = <<>>

(* Read, called again until it reports the end or an error; or ReadFile,   *)
(* one Read of the size.                                                   *)
Call ==
    /\ state = "idle" /\ op # "readfile"
    /\ \/ op' = "read" /\ room' \in Requests
       \/ op = "none" /\ op' = "readfile" /\ room' = size
    /\ n' = 0 /\ state' = IF known THEN "copy" ELSE "info"
    /\ UNCHANGED <<inode, known, offset, given>>

Zeros(k) == [j \in 1..k |-> 0]

(* How a call ends.  ReadFile takes an end before the size for the end of  *)
(* the file; what was not read is zero.                                    *)
Returns(err) ==
    /\ state' = CASE err = "eof" /\ op = "read" -> "ended"
                  [] err = "none" /\ op = "read" -> "idle"
                  [] err = "error" -> "failed"
                  [] OTHER -> "ended"
    /\ given' = IF op = "readfile" /\ err # "error" THEN given \o Zeros(size - Len(given)) ELSE given

(* readInfo passes an error of the reader on as it is; ReadFile reports it.*)
ReadInfo ==
    /\ state = "info"
    /\ IF Fails(InodeAddr, InfoLength)
       THEN known' = known /\ Returns(IF op = "read" THEN "eof" ELSE "error")
       ELSE known' = TRUE /\ state' = "copy" /\ UNCHANGED given
    /\ UNCHANGED <<inode, op, offset, room, n>>

(* Mutant of CopyBlock: the offset is that of the block behind.            *)
CopyBlockWhole ==
    /\ state = "copy" /\ room > 0 /\ offset < size
    /\ LET b == LoadBlock(offset)
           len == b.upto - b.from
           k == Min({room, len})
       IN  /\ ~Fails(b.addr + b.from, len)
           /\ given' = given \o [j \in 1..k |-> Image(b.addr + b.from + j - 1)]
           /\ n' = n + k /\ room' = room - k /\ offset' = offset + len
    /\ UNCHANGED <<inode, op, state, known>>
(* One turn of Read's loop.                                                *)
CopyBlock ==
    /\ state = "copy" /\ room > 0 /\ offset < size
    /\ LET b == LoadBlock(offset)
           len == b.upto - b.from
           k == Min({room, len})
       IN  /\ ~Fails(b.addr + b.from, len)
           /\ given' = given \o [j \in 1..k |-> Image(b.addr + b.from + j - 1)]
           /\ n' = n + k /\ room' = room - k /\ offset' = offset + k
    /\ UNCHANGED <<inode, op, state, known>>

(* A block the reader does not have whole: its io.EOF becomes the file's.  *)
BlockMissing ==
    /\ state = "copy" /\ room > 0 /\ offset < size
    /\ LET b == LoadBlock(offset) IN Fails(b.addr + b.from, b.upto - b.from)
    /\ offset' = offset + n
    /\ Returns("eof")
    /\ UNCHANGED <<inode, op, known, room, n>>

(* Mutant of ReadDone: the end of the file is not reported.                *)
ReadDoneSilent ==
    /\ state = "copy" /\ (room = 0 \/ offset >= size) /\ Returns("none")
    /\ UNCHANGED <<inode, op, known, offset, room, n>>
ReadDone ==
    /\ state = "copy"
    /\ \/ room = 0 /\ Returns("none")
       \/ room > 0 /\ offset >= size /\ Returns("eof")
    /\ UNCHANGED <<inode, op, known, offset, room, n>>

Next == Call \/ ReadInfo \/ CopyBlock \/ BlockMissing \/ ReadDone

Spec == Init /\ [][Next]_vars /\ WF_vars(Next)
-----------------------------------------------------------------------------
Whole == available = (DataBlocks(size, layout) + 1) * BlockSize /\ ~eager

TypeOK ==
    /\ state \in {"idle", "info", "copy", "ended", "failed"} /\ op \in {"none", "read", "readfile"}
    /\ offset \in 0..size \/ state = "ended"
    /\ room \in Nat /\ n \in Nat /\ Len(given) <= size

(* However the reads are cut, whatever the reader lacks: the bytes come in *)
(* order, none twice, none from elsewhere but the zeros of ReadFile.       *)
InOrder ==
    \A k \in DOMAIN given :
      given[k] = k \/ (given[k] = 0 /\ ~Whole /\ op = "readfile" /\ state = "ended")

(* A caller of Read or ReadFile who is told no error has the whole file,   *)
(* if its last inode is not in the last bytes of the image: readInfo reads *)
(* Extended bytes there.                                                   *)
AllRead ==
    state = "ended" /\ Whole /\ InodeAddr + InfoLength <= available => given = Content(size)

(* Every loop over Read comes to an end.                                   *)
ReadEnds == <>(state \in {"ended", "failed"})

(* erofs.go:842: "ReadFile reads the named file and returns its contents". *)
(* Not kept: file_truncated.cfg has a counterexample.                      *)
ReadFileWhole == state = "ended" /\ op = "readfile" => given = Content(size)
=============================================================================
