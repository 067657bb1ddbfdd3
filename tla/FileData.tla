------------------------------- MODULE FileData -------------------------------
(***************************************************************************)
(* Where the Writer keeps file contents until Close (src/mkfs.go): one     *)
(* append-only store shared by all files, either the caller's data file    *)
(* (chunks of whole blocks reference it) or the temporary spool (files     *)
(* reference byte ranges, copied files keep their source reader).          *)
(* File handles record where the store ended when they were created.       *)
(*                                                                         *)
(* A byte is a cell that names the file and the position it was written    *)
(* for, so content that ends up in the wrong file is visible.              *)
(***************************************************************************)
EXTENDS Integers, Sequences, SequencesExt

CONSTANTS
    File,         \* paths of regular files
    BlockSize,    \* cells per block
    MaxCount,     \* most blocks one chunk can hold (65535)
    Prior,        \* cells already in the data file given to WithDataFile
    Sequential,   \* the caller closes each File before it starts the next
    MaxLen,       \* bound: cells per file
    MaxStore      \* bound: cells in the store

ASSUME ParamAssumption ==
    /\ BlockSize \in Nat \ {0} /\ MaxCount \in Nat \ {0}
    /\ Prior \in Nat /\ MaxLen \in Nat /\ MaxStore \in Nat
    /\ Sequential \in BOOLEAN

VARIABLES
    dataMode,     \* a data file was given; fixed by the constructor
    store,        \* the data file or the spool
    off,          \* dataOff or spoolOff: where the Writer believes it ends
    spooled,      \* ensureSpool has made the spool
    ent,          \* file -> the data fields of its fsEntry
    handle,       \* file -> its File, or NoHandle
    want,         \* history: file -> what its writer handed over
    failed,       \* history: some call has returned an error
    done          \* the Writer is closed

vars == <<dataMode, store, off, spooled, ent, handle, want, failed, done>>

Pad == <<"pad", 0>>
Old == <<"old", 0>>
Lost == <<"lost", 0>>
CellsOf(f, from, n) == [i \in 1..n |-> <<f, from + i - 1>>]

NoEntry == [made |-> FALSE, fileClosed |-> FALSE, start |-> 0, spoolOff |-> 0,
            size |-> 0, chunks |-> <<>>, direct |-> <<>>]
NoHandle == [open |-> FALSE, start |-> 0, written |-> 0]

CeilDiv(n) == (n + BlockSize - 1) \div BlockSize
PadTo(n) == (BlockSize - (n % BlockSize)) % BlockSize
Padding(n) == [i \in 1..n |-> Pad]

Init ==
    /\ dataMode \in BOOLEAN
    /\ store = IF dataMode THEN [i \in 1..Prior |-> Old] ELSE <<>>
    /\ off = Len(store)
    /\ spooled = FALSE
    /\ ent = [f \in File |-> NoEntry]
    /\ handle = [f \in File |-> NoHandle]
    /\ want = [f \in File |-> <<>>]
    /\ failed = FALSE
    /\ done = FALSE

(* What a caller that uses one File at a time keeps to.                    *)
Free == Sequential => \A f \in File : ~handle[f].open

-----------------------------------------------------------------------------
(* Mutant of ChunksFor: one block more when the content ends on a block.   *)
ChunksOverrun(start, n) ==
    << [block |-> start \div BlockSize, count |-> n \div BlockSize + 1] >>

(* closeDataFile: the chunks for n cells from block b on.                  *)
ChunksFor(start, n) ==
    LET total == CeilDiv(n)
        parts == (total + MaxCount - 1) \div MaxCount
    IN  [i \in 1..parts |->
           [block |-> start \div BlockSize + (i - 1) * MaxCount,
            count |-> IF i < parts THEN MaxCount ELSE total - (i - 1) * MaxCount]]

(* Mutant of Create: ensureSpool makes a new spool every time.             *)
CreateNewSpool(f) ==
    /\ ~done /\ ~ent[f].made /\ Free
    /\ store' = IF dataMode THEN store ELSE <<>>
    /\ off' = Len(store')
    /\ ent' = [ent EXCEPT ![f] = [NoEntry EXCEPT !.made = TRUE, !.start = off',
                                  !.spoolOff = IF dataMode THEN 0 ELSE off']]
    /\ handle' = [handle EXCEPT ![f] = [open |-> TRUE, start |-> off', written |-> 0]]
    /\ spooled' = (spooled \/ ~dataMode)
    /\ UNCHANGED <<dataMode, want, failed, done>>

(* Writer.Create.                                                          *)
Create(f) ==
    /\ ~done /\ ~ent[f].made /\ Free
    /\ ent' = [ent EXCEPT ![f] = [NoEntry EXCEPT !.made = TRUE, !.start = off,
                                  !.spoolOff = IF dataMode THEN 0 ELSE off]]
    /\ handle' = [handle EXCEPT ![f] = [open |-> TRUE, start |-> off, written |-> 0]]
    /\ spooled' = (spooled \/ ~dataMode)
    /\ UNCHANGED <<dataMode, store, off, want, failed, done>>

(* The spool cannot be made: Create returns the error, the entry stays.    *)
CreateFails(f) ==
    /\ ~done /\ ~ent[f].made /\ Free
    /\ ~dataMode /\ ~spooled
    /\ ent' = [ent EXCEPT ![f].made = TRUE]
    /\ failed' = TRUE
    /\ UNCHANGED <<dataMode, store, off, spooled, handle, want, done>>

(* Mutant of Write: the offset moves by what was asked for.                *)
WriteCountsAll(f, n, m) ==
    /\ ~done /\ handle[f].open
    /\ handle[f].written + n <= MaxLen /\ Len(store) + n <= MaxStore
    /\ store' = store \o CellsOf(f, handle[f].written, m)
    /\ want' = [want EXCEPT ![f] = @ \o CellsOf(f, handle[f].written, m)]
    /\ off' = off + n
    /\ handle' = [handle EXCEPT ![f].written = @ + m]
    /\ failed' = (failed \/ m < n)
    /\ UNCHANGED <<dataMode, spooled, ent, done>>

(* File.Write of n cells of which m reach the store; fewer is an error.    *)
(* The code does not look whether the Writer is closed: not using it after *)
(* Close is left to the caller (mkfs.go:562), here and below.              *)
Write(f, n, m) ==
    /\ ~done /\ handle[f].open
    /\ handle[f].written + n <= MaxLen /\ Len(store) + n <= MaxStore
    /\ LET cells == CellsOf(f, handle[f].written, m)
       IN  /\ store' = store \o cells
           /\ want' = [want EXCEPT ![f] = @ \o cells]
    /\ off' = off + m
    /\ handle' = [handle EXCEPT ![f].written = @ + m]
    /\ failed' = (failed \/ m < n)
    /\ UNCHANGED <<dataMode, spooled, ent, done>>

(* Mutant of CloseFile: no padding.                                        *)
CloseFileUnpadded(f, q) ==
    /\ ~done /\ handle[f].open /\ q = 0
    /\ ent' = [ent EXCEPT ![f].fileClosed = TRUE, ![f].size = handle[f].written,
                 ![f].chunks = IF dataMode
                               THEN @ \o ChunksFor(handle[f].start, handle[f].written) ELSE @]
    /\ handle' = [handle EXCEPT ![f].open = FALSE]
    /\ UNCHANGED <<dataMode, store, off, spooled, want, failed, done>>

(* File.Close: in data-file mode q cells of padding are written; fewer     *)
(* than needed is an error, and then no chunk is recorded.                 *)
CloseFile(f, q) ==
    /\ ~done /\ handle[f].open
    /\ LET h == handle[f]
           pad == IF dataMode /\ h.written > 0 THEN PadTo(off) ELSE 0
       IN  /\ q <= pad
           /\ store' = store \o Padding(q)
           /\ off' = off + q
           /\ failed' = (failed \/ q < pad)
           /\ ent' = [ent EXCEPT ![f].fileClosed = TRUE, ![f].size = h.written,
                        ![f].chunks = IF dataMode /\ q = pad
                                      THEN @ \o ChunksFor(h.start, h.written) ELSE @]
    /\ handle' = [handle EXCEPT ![f].open = FALSE]
    /\ UNCHANGED <<dataMode, spooled, want, done>>

(* add of a regular file with n > 0 cells of data, new or over an earlier  *)
(* entry of that path.  With a data file the content is written, padded    *)
(* and recorded at once; otherwise the reader is kept until Close.         *)
Copied(f, n) == [i \in 1..n |-> <<f, -i>>]

CopyData(f, n) ==
    /\ ~done /\ Free
    /\ want' = [want EXCEPT ![f] = Copied(f, n)]
    /\ IF dataMode
       THEN /\ Len(store) + n + BlockSize <= MaxStore
            /\ store' = store \o Copied(f, n) \o Padding(PadTo(off + n))
            /\ off' = off + n + PadTo(off + n)
            /\ ent' = [ent EXCEPT ![f] = [NoEntry EXCEPT
                         !.made = TRUE, !.fileClosed = TRUE, !.start = off,
                         !.size = n, !.chunks = ChunksFor(off, n)]]
       ELSE /\ ent' = [ent EXCEPT ![f] = [NoEntry EXCEPT
                         !.made = TRUE, !.fileClosed = TRUE, !.size = n,
                         !.direct = Copied(f, n)]]
            /\ UNCHANGED <<store, off>>
    /\ UNCHANGED <<dataMode, spooled, handle, failed, done>>

(* The source or the data file fails after m cells: CopyFrom returns the   *)
(* error, the cells stay in the data file and the entry has no chunks.     *)
CopyFails(f, n, m) ==
    /\ ~done /\ Free /\ dataMode /\ m < n + PadTo(off + n)
    /\ Len(store) + n + BlockSize <= MaxStore
    /\ store' = store \o SubSeq(Copied(f, n) \o Padding(BlockSize), 1, m)
    /\ off' = off + m
    /\ ent' = [ent EXCEPT ![f] = [NoEntry EXCEPT !.made = TRUE, !.fileClosed = (m >= n),
                                  !.start = off, !.size = n]]
    /\ failed' = TRUE
    /\ UNCHANGED <<dataMode, spooled, handle, want, done>>

(* Writer.Close takes the entries as they are.                             *)
Close ==
    /\ ~done
    /\ done' = TRUE
    /\ UNCHANGED <<dataMode, store, off, spooled, ent, handle, want, failed>>

Next ==
    \/ \E f \in File : Create(f) \/ CreateFails(f)
    \/ \E f \in File, n \in 1..MaxLen : \E m \in 0..n : Write(f, n, m)
    \/ \E f \in File, q \in 0..(BlockSize - 1) : CloseFile(f, q)
    \/ \E f \in File, n \in 1..MaxLen : CopyData(f, n)
    \/ \E f \in File, n \in 1..MaxLen, m \in 0..(MaxLen + BlockSize) : CopyFails(f, n, m)
    \/ Close

Spec == Init /\ [][Next]_vars
-----------------------------------------------------------------------------
(* Reading contents.                                                       *)

(* n cells of the store from byte offset from on, as far as it reaches.    *)
Cells(from, n) == [i \in 1..n |-> IF from + i <= Len(store) THEN store[from + i] ELSE Lost]
Blocks(c) == Cells(c.block * BlockSize, c.count * BlockSize)
Take(seq, n) == [i \in 1..n |-> IF i <= Len(seq) THEN seq[i] ELSE Lost]

(* What the image gives for a file: with a data file, the blocks of its    *)
(* chunks; otherwise its reader, or its range of the spool.                *)
Content(f) ==
    LET e == ent[f]
    IN  IF dataMode
        THEN Take(FlattenSeq([i \in 1..Len(e.chunks) |-> Blocks(e.chunks[i])]), e.size)
        ELSE IF e.direct # <<>> THEN Take(e.direct, e.size)
        ELSE Cells(e.spoolOff, e.size)

(* What Writer.Open gives for it before Close: always a range of the store,*)
(* and nothing when there is no store.                                     *)
ReadBack(f) ==
    LET e == ent[f]
    IN  IF dataMode \/ spooled THEN Cells(e.start, e.size) ELSE <<>>

-----------------------------------------------------------------------------
Cell == (File \X Int) \cup {Pad, Old}
Chunk == [block : Nat, count : 1..MaxCount]

TypeOK ==
    /\ dataMode \in BOOLEAN /\ spooled \in BOOLEAN
    /\ failed \in BOOLEAN /\ done \in BOOLEAN
    /\ store \in Seq(Cell) /\ off = Len(store)
    /\ \A f \in File :
         /\ ent[f].made \in BOOLEAN /\ ent[f].fileClosed \in BOOLEAN
         /\ ent[f].start \in Nat /\ ent[f].spoolOff \in Nat /\ ent[f].size \in Nat
         /\ ent[f].chunks \in Seq(Chunk) /\ ent[f].direct \in Seq(Cell)
         /\ handle[f] \in [open : BOOLEAN, start : Nat, written : Nat]

(* mkfs.go:50: data is written to a File and committed with Close; :658:   *)
(* Write appends to the file.  As long as no call has failed, the image    *)
(* gives every finished file exactly the bytes it was given: its chunks    *)
(* or its range cover them, all of them, in order, and no padding and no   *)
(* byte of another file.                                                   *)
Faithful ==
    ~failed => \A f \in File : ent[f].fileClosed => Content(f) = want[f]

(* A finished file is finished: nothing that is written, copied or fails   *)
(* later, for another file, changes what the image will give for it.       *)
EarlierFilesKept ==
    [][\A f \in File :
         ent[f].fileClosed /\ ent'[f] = ent[f] => Content(f)' = Content(f)]_vars

(* mkfs.go:578-582: the block count written for device 1 covers every      *)
(* chunk, also after failures and with files open at the same time.        *)
ChunksInDevice ==
    \A f \in File : \A i \in 1..Len(ent[f].chunks) :
      ent[f].chunks[i].block + ent[f].chunks[i].count <= CeilDiv(off)

(* mkfs.go:622-624: Open opens the named file for reading once its data is *)
(* final.                                                                  *)
(* Not kept: file_readback.cfg has a counterexample.                       *)
ReadBackRight ==
    ~failed => \A f \in File : ent[f].fileClosed => ReadBack(f) = want[f]
=============================================================================
