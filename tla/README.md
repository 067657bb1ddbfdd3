# A verification of go-erofs

Specifications of go-erofs: the image writer, the image reader, and what the
two must agree on. `X.tla` models a component, `MCX.tla` gives it small values
for TLC (`BlockPool` needs none), `*.cfg` are the runs, `*Proofs.tla` hold
theorems checked by TLAPS, with the facts they share in `NaturalLemmas`.
`PROJECT.json` maps every definition to the lines it stands for and lists
components, runs, hazards and findings.

## The system

| Part | State | Operations | Modelled in |
|---|---|---|---|
| Writer tree (`mkfs.go`, `mkfs_image.go`) | `fsEntry` objects with parent and children, the `byPath` map, removed marks, per-copy options | Create, Mkdir, Symlink, Mknod, CopyFrom (walk and metadata-only fast path, whiteouts), Close | `Namespace`, `WriterTree`; promise in `Overlay` |
| Writer attributes (`mkfs.go` 294-371, `layout.go`, `writer.go`) | owner, mode, time and link count of an entry, build time | Chmod, Chown, Chtimes, SetNlink, CopyFrom, Close, Stat | `Attributes` |
| File data (`mkfs.go`) | data file or spool, its end, open `File` handles, chunks of entries | Create, Write, ReadFrom, File.Close, data of `add`, Open | `FileData` |
| Serialisation (`layout.go`, `writer.go`) | entry list, offsets, block addresses, output position | planLayout, assignDataBlocks, writeDataBlocks, writeMetadataInodes, writeBlock0 | `ImageWriter` |
| Directory blocks (`layout.go`, `writer.go`, `erofs.go`, `mkfs_image.go`) | blocks of dirents, the cursor of an open directory | direntDataSize, writeDirents, lookup, ReadDir, parseDirBlock | `DirBlocks` |
| Chunk indexes (`writer.go`, `erofs.go`, `mkfs_image.go`) | chunks of an entry, indexes of an inode | writeChunkIndexes, loadBlock, openDirect, mapDev, parseChunks | `ChunkMap` |
| Device table (`mkfs.go`, `mkfs_image.go`, `writer.go`, `erofs.go`) | slots, DeviceIDs of chunks, the block size | Create, CopyFrom, File.Close, writeBlock0, Open, mapDev | `DeviceTable` |
| Path resolution (`erofs.go`) | node, rest of the name, path so far, links followed | resolve, Open, Stat, ReadFile, ReadDir, ReadLink, Lstat | `Resolve` |
| Reading (`erofs.go`, `block.go`) | inode, offset, the bytes the caller has | readInfo, loadBlock, Read, ReadFile | `FileRead` |
| Block buffers (`erofs.go`, `xattr.go`) | the pool, what each goroutine holds, the Once of the long prefixes | getBlock, putBlock in every reading function | `BlockPool` |
| Extended attributes (`xattr.go`, `format.go`, `writer.go`, `mkfs_image.go`) | the bytes behind an inode, loadXattrs' position and window | Setxattr, writeXattrs, loadXattrs, parseXattrsFromBuf | `XattrArea` |
| Platform stat, constants, CLI, test helpers | none | | not modelled: no behaviour of their own |

How they interact: the caller (or CopyFrom, for each item of a source) changes
the tree; regular files also append to the shared store. Close turns the tree
into a list of entries, plans where each inode, its inline data and its blocks
go, and writes placeholder, data, metadata and superblock in this order. The
reader finds everything again from nids and block addresses alone.

There is little concurrency (a Writer and a `File` are used by one goroutine;
readers of an image share a pool of blocks and the long xattr prefixes). What is
hard is long sequences of legal calls: layers laid over layers that delete,
overwrite and re-create the same names; one shared append position behind many
files; failures half way that leave the Writer usable; and pairs of loops that
must compute the same offsets independently (plan and write, pack and look up).

What makes each part correct:

* tree: objects, map and removed marks agree; what is registered is reached by
  Close, under its own name; a merge deletes what lower layers hold and
  nothing of its own; the result is the overlay of the layers in order;
* file data: a finished file gives back its bytes, whatever is written later;
* serialisation: the plan obeys the reader's rules and the bytes are where the
  plan says, also when an inline file comes up short;
* directory blocks: sizes agree, every name is found, listed once and in order;
* attributes: what was set last is what Stat gives, through either inode format
  and any number of images;
* chunks and devices: a block of a file is read from the place and the device
  its source meant, however often images were copied into others;
* reading: resolution ends and agrees with a walk component by component; bytes
  come in order and whole; buffers are in one pair of hands; both decoders of
  extended attributes give what was set.

## Modules

**Namespace** abstracts paths to a set with a parent function (`Dir`), the
ancestors of a path (`Anc`), AUFS markers (`Opaque`, `WhiteoutOf`) and layers,
which are partial functions from paths to `"dir"` or `"file"`. The assumptions
say that paths form a tree, that a marker names a sibling and that layers hold
the parents of what they hold.

**Overlay** is the abstract specification: one tree of names. `Node` adds a name
with the missing directories above it, `Apply` lays a layer over the tree in one
step, `Fail` leaves any mixture of old, new and hidden names, `Close` makes the
image the tree.

**WriterTree** is the code: `byPath`, object generations (`gens`, an `fsEntry`
is a pair of path and generation), `ent` (kind, which call wrote it, and the
objects above it: the parent chain), `live` (not marked removed), and the
running copy. `Attach` is `addChild`, with the implicit directories of
`ensureParent` in `AddWithParents`; `AddInPlace` is what the fast path does
instead; `Overwrite` keeps the object and its place; `Remove`,
`RemoveChildren`, `Subtree` are the functions of the same names, with their
descent through live directories only. A `CopyFrom` is a sequence of `Visit`
steps in walk order (`WalkOrder`) or queue order (`QueueOrder`) and may return
early with an error. `Close` serialises what the child lists reach.

**FileData** is the store: cells carry the file and position they were written
for. `Write` and `CloseFile` may come up short or fail, `CopyFails` stops at any
cell, `CreateFails` is a spool that cannot be made. `Content` is what the image
will give for a file, `ReadBack` what `Writer.Open` gives before Close.

**ImageWriter** works on real byte counts: one action per entry for each loop
(plan, assign, data, metadata), the placeholder, the superblock, and failure at
any point of the output. A directory is its number of bytes here.

**DirBlocks** packs a directory into blocks whose names are cells, and reads
them with the same offsets the code uses: both binary searches, the parsing of
the fast path and the paging cursor. It is where the directory sizes of
`ImageWriter` come from.

**Attributes** follows owner, mode (its special bits), time and link count from
the setters to `IsCompact` and `InodeOf`, back through `Stat`, and through
`CopyImage` into the next Writer. `want` is what was asked for, kept beside.

**ChunkMap** is the life of one chunk-based file: `EmitIndex` writes the indexes
from the list of chunks (`Skip` is the inner loop), `LoadBlock` and `Direct` read
them, `ParseIndex` makes a list again, and round it goes. `truth` is where the
source said each block is. The width of counts and addresses and the largest
chunk are constants.

**DeviceTable** has images in a row, each made by a Writer from native sources,
earlier images, a data file and its own files. A chunk carries, as history, the
device it means and the block size it counts in; `Resolved` is what Open and
`mapDev` make of its DeviceID.

**Resolve** has one action for each way through the loop of `resolve`; `Clean` is
`path.Clean`. `Walk` is the reference: links are replaced where they are found
and `..` is looked up.

**FileRead** has one file, its inode anywhere in a metadata block, and an
`io.ReaderAt` that may hold less than the image or report the end with the last
bytes (`Fails`). The caller reads with any buffers until it is told of the end
or an error, or calls ReadFile.

**BlockPool** follows the variables that hold a block (`Slots`) through every
reading function and each of its error returns. `Load` takes any block of the
pool or a new one; `Put` gives back. `once` is the `sync.Once` of the prefixes.

**XattrArea** is bytes: `Area` is what the writer writes, `Start` to `EntryDone`
are the steps of `loadXattrs` with the window `win` and position `pos`, `Parsed`
is the decoder of the fast path: `ParsedShared` follows the references, and
`ParsedFrom` gives for each position the entries from there on. `Ends` says where
each entry of a list ends. Shared attributes come from other tools.

## Runs

| Run | What it shows |
|---|---|
| `tree_overlay` | 171,332 states. Two or three calls over six layers with an opaque marker, whiteouts of a file and of a directory, and re-creations; markers sort first. `TypeOK`, `LiveIffRegistered`, `TreeLinked`, `SameLayerKept`, and `OverlayPromise`: WriterTree implements Overlay, failures included. |
| `tree_retyped` | expects a violation of `CopyComplete`: a directory, overwritten by a file, deleted by a whiteout, brought again; the last layer's file is not in the image |
| `file_data` | 312,480 states. `TypeOK`, `Faithful`, `ChunksInDevice`, `EarlierFilesKept` for files written one after the other, with and without data file |
| `image_writer` | 22,240 states. `TypeOK`, `PlanSound`, `WrittenAsPlanned`, `SuperCountsAll` |
| `dir_blocks` | 65,355 states. `PackedAsPlanned`, `FoundIffThere`, `ParsedRight`, `ListedOnce`, and `ListingEnds` |
| `attributes` | 3.35 million states. `ReadAsSet`, `LinksCounted`, `LinksKept`, over up to three images |
| `chunk_map` | 22,370 states. `MappedRight`, `DirectAgrees`: written, read, and copied twice |
| `device_table` | 4.03 million states. `TypeOK`, `ResolvesOwn`, `OneUnit`, with copies that fail |
| `resolve` | 242,168 states. `AgreesWithWalk`, `CurPathTracks`, and `Resolves` |
| `block_pool` | 240,476 states. `PoolTypeOK`, `NoSharing`, `ReadsOwn`, `AllReturned`, and `CallsEnd` |
| `file_read` | 711,750 states. `InOrder`, `AllRead`, and `ReadEnds`, for whole and cut images |
| `xattr_area` | 69,976 states. `WindowTracks`, `DecodedAsSet`, `DecodersAgree` |

The other six modules state their `TypeOK` too; their runs spend themselves on
the properties that can go wrong.

Besides these, each of the following configurations has TLC show a statement of
a comment or a test of the repository that the code does not keep. They are run
by hand, and TLC ends each with a counterexample.

| Configuration | Property | What the counterexample shows |
|---|---|---|
| `tree_own_layer` | `SameLayerKept` | a name that sorts before `.wh..wh..opq` is brought by a layer and removed by the same layer's marker |
| `tree_fast_parent` | `LinkedByPath` | in the fast path the child of such a directory then becomes a child of the root |
| `tree_under_file` | `NothingLost` | a name created below a regular file is registered and never written |
| `file_interleaved` | `Faithful` | two Files open at a time get each other's bytes |
| `file_readback` | `ReadBackRight` | a copied file read back before Close |
| `image_indexes` | `IndexesAligned` | an xattr area of 20 bytes puts the indexes off the 8-byte boundary the readers round up to |
| `image_last_inode` | `InodesReadable` | a compact inode in the last 32 bytes of the image is read with the 64 bytes of an extended one |
| `attr_special` | `SpecialKept` | setuid, setgid, sticky do not survive a copy by the walk |
| `attr_nanos` | `TimesKept` | a time in the build's second without nanoseconds is read with the build's nanoseconds |
| `chunk_steps` | `ListMapped` | a count that ends inside a logical chunk |
| `chunk_recopy` | `CopyKeepsMapping` | the copy of a sparse or scattered file |
| `device_shared` | `ResolvesOwn` | a source that keeps its Entry is copied twice |
| `device_slots` | `SlotsReadBack` | the table is written and read at different offsets |
| `file_truncated` | `ReadFileWhole` | an image without its last block: zeros, and no error |
| `xattr_long` | `SetIsRead` | a value longer than its length field can say |

Deadlock is not checked: a Writer may always be left alone, and stops after
Close; a listing, a resolution or a read stops at its end, and a reader may
make no further call.

Bounds, and why they are enough:

* `MaxGen`, `MaxOps` (tree): three calls and three objects per path let a name be
  brought, deleted and brought again, which is the longest chain in which an
  old object can be mistaken for a new one; `tree_retyped` needs a fourth call.
  The layers cover opaque and plain whiteouts of empty, file and directory
  targets, with the target present, absent and brought by the same layer.
* `BlockSize = 2`, `MaxCount = 1`, `MaxLen = 3`, `MaxStore = 10` (file data):
  files that end on, before and after a block, files of two chunks, and room for
  padding, a failed copy and a second file. `Prior` is the length of a data
  file given at the start: a whole block where the caller keeps to the
  documented alignment, one cell where it does not.
* `BlockSize = 512` (image): the smallest the code allows; shapes are chosen one
  byte around each comparison of planLayout. Inline data that ends early is
  taken to give 0, 1 or all of its bytes.
* `DirentSize = 2`, `BlockSize = 10`, names of 1, 2 and 4 bytes, up to four
  children (directory): one to three entries a block, one to four blocks, blocks
  that are exactly full, and the dots at any place. Page sizes 1, 2 and all;
  `MaxFails = 1` failing block.
* `Wrap = 4`, owner 5, link counts 0 and 5 (attributes): one value below and one
  above what a compact inode can hold; two seconds and nanoseconds, of which one
  is the build time's. Two operations a Writer and three images: set, copied,
  changed, copied again.
* Counts below 4, addresses below 32, at most 8 blocks a chunk (chunks): files of
  up to five blocks, longer than a count and than a chunk; counts that end with
  and within a chunk; sparse files of two and three chunks. `MaxCopies = 2`,
  since the second copy is made from an image the first copy has shaped. The
  two devices have no range of their own in the primary's addresses, as in
  every image this Writer makes.
* Three copies and two images made (devices): a copy into an image that holds
  copies, after a failed one; sources with and without a device, a block size of
  their own, or neither; an image of two devices from another tool.
* `MaxLinks = 4`, 255 in the code (resolve): links to links, to directories,
  upwards, rooted, and cycles that only the count ends; targets of the passing
  run go up only at their start.
* Two goroutines, six buffers, two loads, one call each (pool): a goroutine
  holds at most four buffers (its inode's, a window, a shared block, the one of
  the prefixes); two loads let a lookup replace the block it keeps and a window
  be followed by the next. A second call starts from a pool the first has used,
  which the other goroutine's call has too.
* `BlockSize = 8`, inodes of 2 and 4 bytes (reading): files of no block to three,
  an inode at every place of its block, every loss of the image's last two
  blocks, buffers shorter and longer than a block and than the file.
* Bytes below 4, windows of 16 (xattrs): names of up to 3 and values of up to 15
  bytes are what the length fields hold; entries end before, at and behind a
  window. `xattr_long.cfg` has values one longer.

Fairness, where there is a liveness property:

* `DirBlocks`, `FileRead`: loops run to their end, and a caller that lists a
  directory or reads a file goes on until it is told that there is no more,
  which is how `ReadDir(n)` and `Read` are meant to be used;
* `Resolve`: a loop in the caller's goroutine, nothing to wait for;
* `BlockPool`: each goroutine in a call is scheduled again and again
  (`WF_vars(Run(r))`); no fairness makes it begin a call. A goroutine that waits
  in `Once.Do` is not enabled until the one that runs the load is done.

Everything else is safety: the Writer does nothing on its own.

## Proofs

Each theorem holds for every value of the constants that the named assumption of
its module allows: any name space, layers, files, sizes, devices, goroutines and
bounds. Behind "if" stands what the theorem assumes besides; every one of these
is needed, and a configuration run by hand or a precondition of the property
shows what happens without it. Unless said otherwise a theorem is
`Spec => []P` for a property `P` of a run.

| Module | Theorem | Property |
|---|---|---|
| `WriterTreeProofs` | `TypesHold` | `TypeOK` |
| | `MapAndMarksAgree` | `LiveIffRegistered` |
| | `RegisteredIsLinked` | `TreeLinked`, if `InnerAreDirs` and `MarkersLead` |
| | `MergeKeepsOwnLayer` | `SameLayerKept`, if the same |
| | `ImplementsOverlay` | `OverlayPromise`, if the same: WriterTree implements Overlay |
| `FileDataProofs` | `Typed` | `TypeOK` |
| | `DeviceCoversChunks` | `ChunksInDevice` |
| | `FinishedFilesStay` | `EarlierFilesKept`, an action property |
| | `ContentsAreWhatWasWritten` | `Faithful`, if `Sequential` and a given data file ends on a block |
| `ImageWriterProofs` | `Typed` | `TypeOK` |
| | `PlanIsSound` | `PlanSound` |
| | `WrittenWhereItWasPlanned` | `WrittenAsPlanned` |
| | `SuperblockCountsAll` | `SuperCountsAll` |
| `AttributesProofs` | `StatReadsWhatWasSet` | `ReadAsSet`, if build times are whole seconds (`WholeSeconds`) |
| | `DirectoriesAreCounted` | `LinksCounted` |
| | `SetCountsAreKept` | `LinksKept` |
| | `AreaTyped` | `AreaTypeOK` of `XattrArea`, if `RefsCounted` |
| | `XattrWindow` | `WindowTracks`, if `RefsCounted` |
| | `XattrsRead` | `DecodedAsSet`, if `FieldsHold` |
| | `CopiesReadTheSame` | `DecodersAgree`, if `FieldsHold` |
| `DeviceTableProofs` | `Typed` | `TypeOK` |
| | `ChunksCountAlike` | `OneUnit`, if `GivenInOneUnit` |
| | `EveryChunkResolves` | `ResolvesOwn`, if `SourcesOnDevices` |
| | `BlocksStayWhereTheyWere` | `MappedRight` of `ChunkMap`, if `InRange` |
| | `DirectReadsTheSame` | `DirectAgrees` of `ChunkMap`, if `InRange` |
| `DirBlocksProofs` | `DirectoryTyped` | `TypeOK` of `DirBlocks` |
| | `PlannedAsPacked` | `PackedAsPlanned` |
| | `LookupFinds` | `FoundIffThere` |
| | `AllParsed` | `ParsedRight` |
| | `ListedInOrder` | `ListedOnce` |
| | `PathTracked` | `CurPathTracks` of `Resolve` |
| `ReaderProofs` | `Typed` | `TypeOK` of `FileRead` |
| | `BytesInOrder` | `InOrder` |
| | `WholeFileRead` | `AllRead` |
| | `PoolTyped` | `PoolTypeOK` of `BlockPool` |
| | `NeverShared` | `NoSharing` |
| | `OwnBytesRead` | `ReadsOwn` |
| | `EverythingReturned` | `AllReturned` |
| | `NothingDropped` | `[][Kept]_poolVars`: a variable that holds a block is not overwritten unless the block went back or on |

A module of proofs may extend two components, whose variables then have nothing
to do with each other; the second one's `Init`, `Next`, `Spec` and `TypeOK` carry
its name (`ChunkSpec`, `PoolSpec`, `ResolveSpec`, `AreaSpec`).

Assumptions that narrow what callers and images do:

* `InnerAreDirs`, no name with something below it is ever a non-directory, and
  `MarkersLead`, no name of a layer sorts before a marker that hides it:
  `tree_retyped`, `tree_under_file`, `tree_own_layer`;
* `Sequential`, one File is open at a time (`file_interleaved`), and the caller
  aligns a data file it gives, as `WithDataFile` asks;
* `WholeSeconds`: `attr_nanos`;
* `SourcesOnDevices`, sources make their Entries anew for each copy
  (`device_shared`) and images of other tools have each chunk on a device of
  their table; `GivenInOneUnit`, the chunks of such an image count in its block
  size;
* `InRange`, addresses below the mark of a hole, indexes without the high half,
  no device mapped into the primary's addresses, and no file longer than one
  chunk of the largest size can be (8 TiB of blocks of 4096 bytes). TLC finds it
  true of the values of `chunk_map` (`MCInRange`);
* `FieldsHold`, the count of an inode and the lengths of its attributes are below
  what their fields can say, which `Setxattr` does not look at (`xattr_long`), and
  no two shared attributes of an inode have one name. `RefsCounted` is the part
  of it about the counts of inodes with references: with a count that has gone
  around, the references alone could be more than the reader's area. TLC finds
  them true of the values of `xattr_area` (`MCFieldsHold`).

The inductive invariants, and why they are needed:

* `WriterTree`. `LiveIffRegistered` is inductive with `TypeOK`: each change of
  the tree is one of `Attach`, `Overwrite`, `Discard`; `Attach` makes the next
  generation of a path that is not registered, and `Discard` clears the map
  exactly where it takes marks away. `TreeLinked` is not: a removal takes the
  objects below an object away, so one must know that the registered descendants
  of a path are exactly the live objects above which its object lies (`LinkInv`),
  and the fast path needs the parent of an item to be registered when the item
  comes. That holds because what the copy has done is still there (`DoneKept`),
  parents come first (`DoneFirst`), and what was written by the running copy
  carries its number (`Stamps`); and it is still there because markers lead,
  which is `SameLayerKept` again. So the four are one invariant, `IInv`, with a
  lemma for each of `Attach`, `Overwrite`, `Remove`, `RemoveChildren`, one for a
  visit, and a case for each action.
* `WriterTree` implements `Overlay`: what Close would write now is `byPath`
  (`TreeIs`, from `TreeLinked`), and while a copy runs, `Shape` says that each
  name is new if the copy has done it, gone if a marker seen so far hides it, and
  as before the copy otherwise. A copy's return is then `Apply`, its failure
  `Fail`, the visits are stutters.
* `FileData`. Whatever a finished file refers to lies in front of the end of the
  store (`Behind`), whichever Files are open and whatever fails: appending cannot
  touch it, which gives `EarlierFilesKept`, and the device announced covers it.
  For `Faithful` the bytes of the open File must be the end of the store and its
  chunks begin on a block (`Writing`), which is true only until a call fails.
  That the chunks of a closed file, parts of `MaxCount` blocks each, put together
  give its bytes is `FlattenPieces`.
* `ImageWriter`. `Reached` ties the position of every loop to the entries it has
  done; `AsPlanned` keeps for each entry that it starts behind the end of the one
  before and not behind the next block (`PlannedOf`), so that padding in the
  metadata loop always leads to the planned offset. An inline file that comes up
  short leaves the buffer in the block where the plan ends (`WrittenTo`), from
  which the same padding still leads there.
* `Attributes`. A copy takes its attributes from an image and Close puts them
  into one, so the agreement with what was asked for is kept for the Writer's
  entries (`Agrees`) and for each image (`Faithful`) together; `nlink` needs that
  a count is only set with its flag.
* `XattrArea`. `Window` says that `xb` is what the area has at the position, for
  every reload, reference, name, part of a value and padding; behind a reload
  there is always as much as the next read asks for, or the area ends
  (`WindowOr`). For what is decoded, the position must be tied to an entry: at
  each there is a `k` such that `found` is what setting the shared attributes and
  the first `k` own ones gives (`Pre`), and the position, with what is held of the
  next entry, lies in that entry's bytes (`Between`, `AtName`, `InValue`), which
  `EntriesFollow` and `AreaIs` place. A value is the beginning of the one that was
  set, however many windows it goes over. `parseXattrsFromBuf` is not a process:
  `ParsedFrom` at the start of the k-th entry is the rest of the list, by
  induction from the end (`OwnParsed`), and what it makes of the references is a
  part of what the reader makes of them (`SharedParsed`), which setting the own
  attributes on both sides keeps (`SetAllBoth`).
* `DeviceTable`. The slots a copy brought stand together from its offset on
  (`Brought`), and every chunk names the slot of its own device (`Slotted`), in
  images the same through the mask (`OnItsDevice`). `RoundsUp` says the mask does
  not cut an id of the table.
* `ChunkMap`. While indexes are written, current chunk and offset stand for the
  block at which the next index begins (`Emitted`); with `StepsFit` the blocks
  behind it in the same logical chunk are where its first one says. A copied
  file is one chunk, so its one index is all a later copy hands on (`Recopied`);
  `RunFits` shows that a file of one run fits whatever its list was.
* `BlockPool`. `NoSharing` is inductive only with the bytes and with which slots
  may and must be full at each point of a call (`Discipline`): a function that
  overwrote a full slot, or returned with one, would break it there.
* `FileRead`. Until the end, what was given is `Content(offset)`; `BlockHolds`
  shows that the range of `loadBlock` holds the bytes from the offset on, in the
  data blocks and in the tail behind the inode.
* `Resolve`. The nodes along `curPath` are a path from the root to `at` (`Along`);
  going up takes the last one away.
* `DirBlocks`. The blocks written so far hold the entries in order, each as many
  as fit, up to the one to be packed next (`Laid`); the handle stands at an entry
  of a block or at a block's end, and what was given out before, this call's part
  included, are the children up to there (`Reading`). The two are one invariant
  with the first entries of the blocks between them. `PackedAsPlanned` needs that
  the sum of `direntDataSize` breaks blocks where `LastFitting` does; the other
  three that a block gives back the entries that were put in, names and nids
  (`ReadBack`), which for the last block means finding the end of the name in
  the zeros behind it. The binary searches keep the entry they look for between
  their bounds; that they close is shown by counting the steps.

Each of these properties but `NothingDropped` and the types of `FileRead`,
`DirBlocks` and `XattrArea` is also checked by TLC on its run.

The models compute with recursive functions over `0..n` or with folds. A theorem
about what one computes unfolds it once (`Recursion`) and goes on by induction
over a set: if a set of numbers has 0 and with each number the next one, or if a
set of numbers not shown has no least element, all are in it
(`BoundedInduction`, `LeastElement` of `NaturalLemmas`).

Left to TLC:

* liveness, `ListingEnds`, `Resolves`, `CallsEnd` and `ReadEnds`, which is beyond
  the prover;
* `AgreesWithWalk` of `Resolve`. Its reference restarts from a rewritten name for
  each link while `resolve` goes on where it is, so the proof has to relate two
  unbounded computations of different lengths, and the reference is cut off at
  `WalkSteps`.

## What the code does not keep

The counterexamples above, and some that need no run: a copied directory keeps
its source's link count (`mkfs.go:1219`, against `mkfs_test.go:659`); a chunk
with DeviceID 0 is shifted to a device of the table (`mkfs_image.go:286`,
against `internal/builder/entry.go:26`); `openDirect` does not look for devices
mapped into the primary's addresses (`erofs.go:372`); a target that leaves a
link by `..` is cleaned before the link is followed (`erofs.go:792`); a reader
that gives io.EOF with the last bytes loses ReadFile a block (`erofs.go:672`);
the fast path leaves out a shared attribute that goes over the end of its block
(`mkfs_image.go:445`); and the caller, not the Writer, has to align a data file
(`mkfs.go:158`).

Most concern images of other tools, copies of copies, or limits that are not
tested for. The passing runs of the same modules leave out exactly these cases,
by a precondition in the property (`StepsFit`, `OneRun`, `Whole`, `Unreadable`,
`walked`, `copied`, `inMeta`) or by the inputs of the run (`MCDeviceTable`,
`MCResolve`, `MCChunkMap`, `attributes.cfg`), and show that nothing else goes
wrong.

## Not modelled

Contents of files (bytes are numbered or known by their place); the checks of
the superblock in `Open`; the table of long xattr prefixes (its loading is, as
buffers and a `sync.Once`); compressed layouts, which the reader refuses;
listing and stating the Writer itself; source file systems that change while
they are walked; file descriptors. Paths are clean already (`cleanPath` is part
of the abstraction of paths; `resolve` cleans its own in `Resolve`). A whiteout
named exactly `.wh.` is excluded by `MarkerAssumption`. Platform stat parsing,
the command line tool and the test helpers copy fields or print.

## Plan

1. `AgreesWithWalk`, by a walk whose fuel is the number of steps left.
2. The long prefix table and the packed inode it is read from, as bytes.
3. `Open`'s checks of the superblock against images cut short at any byte.
