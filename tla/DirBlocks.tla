------------------------------- MODULE DirBlocks -------------------------------
(***************************************************************************)
(* A directory's entries on their way into blocks and out again.  The      *)
(* writer first computes how long they will be (direntDataSize, layout.go) *)
(* and later writes them block by block (writeDirents, writer.go); the     *)
(* reader finds a name by two binary searches (dir.lookup, erofs.go),      *)
(* lists the names in pages (dir.ReadDir), and the metadata-only copy      *)
(* takes them all at once (parseDirBlock, mkfs_image.go).                  *)
(*                                                                         *)
(* An entry is its rank in the byte order of the names, so the nid it must *)
(* lead to is the rank too.  A byte of a name is the name and a position:  *)
(* what a wrong offset cuts out is no name.                                *)
(***************************************************************************)
EXTENDS Integers, Sequences, FiniteSetsExt, SequencesExt

CONSTANTS
    BlockSize,    \* bytes per block
    DirentSize,   \* bytes of a dirent without its name (SizeDirent)
    Directories,  \* sorted entries: [len, dot], dot for "." and ".."
    Pages,        \* what ReadDir is called with; 0 asks for everything
    MaxFails      \* bound: blocks that cannot be read

ASSUME DirAssumption ==
    /\ BlockSize \in Nat \ {0} /\ DirentSize \in Nat \ {0} /\ MaxFails \in Nat
    /\ Pages \subseteq Nat
    /\ 2 * DirentSize + 1 + 2 <= BlockSize
    /\ \A d \in Directories :
         /\ d \in Seq([len : Nat \ {0}, dot : BOOLEAN])
         /\ \E i, j \in DOMAIN d :
              /\ \A k \in DOMAIN d : d[k].dot <=> k \in {i, j}
              /\ d[i].len = 1 /\ d[j].len = 2
         /\ \A k \in DOMAIN d : DirentSize + d[k].len <= BlockSize

VARIABLES
    names,        \* the directory's entries, "." and ".." included
    blocks,       \* the blocks written
    next,         \* writeDirents' i: the next entry to pack
    bn,           \* the handle's block ...
    consumed,     \* ... and how many of its entries it has passed
    call,         \* the running ReadDir: its n and what it gathered
    listed,       \* history: what the calls have returned, joined
    ended,        \* a call has said that there is no more
    fails         \* calls that returned an error

vars == <<names, blocks, next, bn, consumed, call, listed, ended, fails>>

N == Len(names)

(* The numbers of S up to n, in order.                                     *)
Ascending(S, n) ==
    LET upTo[k \in 0..n] ==
          IF k = 0 THEN <<>> ELSE IF k \in S THEN Append(upTo[k - 1], k) ELSE upTo[k - 1]
    IN  upTo[n]
Children == Ascending({k \in 1..N : ~names[k].dot}, N)

Nul == <<0, 0>>
NameBytes(k) == [j \in 1..names[k].len |-> <<k, j>>]
(* The bytes of the first k names.                                         *)
TextTo == LET sum[k \in 0..N] == IF k = 0 THEN 0 ELSE sum[k - 1] + names[k].len IN sum
RoundUp(n) == ((n + BlockSize - 1) \div BlockSize) * BlockSize

(* A block: the nid and name offset of every entry, then the names.        *)
Bytes(b) == Len(b.head) * DirentSize + Len(b.data)

-----------------------------------------------------------------------------
(* Writing.                                                                *)

Used(from, to) ==
    (to - from + 1) * DirentSize + (TextTo[to] - TextTo[from - 1])

(* The last entry of the block that starts with from: as many as fit, and  *)
(* one if none does.                                                       *)
LastFitting(from) ==
    Max({from} \cup {to \in from..N : Used(from, to) <= BlockSize})

(* Mutant of DirentDataSize: the padding between blocks is not counted.    *)
DirentBytes ==
    N * DirentSize + TextTo[N]

DirentDataSize ==
    LET size[from \in 1..(N + 1)] ==
          IF from > N THEN 0
          ELSE LET to == LastFitting(from)
               IN  (IF to < N THEN RoundUp(Used(from, to)) ELSE Used(from, to))
                   + size[to + 1]
    IN  IF N = 2 THEN 2 * DirentSize + 1 + 2 ELSE size[1]

BlockOf(from, to) ==
    LET start == (to - from + 1) * DirentSize
        off(k) == start + (TextTo[k - 1] - TextTo[from - 1])
        text == FlattenSeq([k \in 1..(to - from + 1) |-> NameBytes(from + k - 1)])
        used == start + Len(text)
        pad == IF to < N THEN RoundUp(used) - used ELSE 0
    IN  [head |-> [k \in 1..(to - from + 1) |->
                     [nid |-> from + k - 1, off |-> off(from + k - 1)]],
         data |-> text \o [k \in 1..pad |-> Nul]]

(* One turn of writeDirents' loop.                                         *)
PackBlock ==
    /\ next <= N
    /\ blocks' = Append(blocks, BlockOf(next, LastFitting(next)))
    /\ next' = LastFitting(next) + 1
    /\ UNCHANGED <<names, bn, consumed, call, listed, ended, fails>>

Packed == next > N
(* Before the first call; the blocks do not change any more.               *)
JustPacked == Packed /\ ~call.running /\ bn = 0 /\ listed = <<>> /\ fails = 0
Written ==
    LET sum[b \in 0..Len(blocks)] == IF b = 0 THEN 0 ELSE sum[b - 1] + Bytes(blocks[b])
    IN  sum[Len(blocks)]

-----------------------------------------------------------------------------
(* Reading.  A block is what the file holds from bn * BlockSize on.        *)

EntryN(b) == b.head[1].off \div DirentSize

Slice(b, from, to) ==
    SubSeq(b.data, from - Len(b.head) * DirentSize + 1, to - Len(b.head) * DirentSize)
BeforeNul(text) ==
    IF \E k \in DOMAIN text : text[k] = Nul
    THEN SubSeq(text, 1, Min({k \in DOMAIN text : text[k] = Nul}) - 1)
    ELSE text

(* Mutant of NameAt: the padding stays part of the last name.              *)
NameAtPadded(b, k) ==
    IF k < EntryN(b) THEN Slice(b, b.head[k].off, b.head[k + 1].off)
                     ELSE Slice(b, b.head[k].off, Bytes(b))

(* blockDirent: a name ends where the next begins, the last one at the     *)
(* first NUL.                                                              *)
NameAt(b, k) ==
    IF k < EntryN(b) THEN Slice(b, b.head[k].off, b.head[k + 1].off)
                     ELSE BeforeNul(Slice(b, b.head[k].off, Bytes(b)))

(* The rank of the name a text is, 0 if it is none.                        *)
RankOf(text) ==
    IF \E k \in 1..N : NameBytes(k) = text
    THEN CHOOSE k \in 1..N : NameBytes(k) = text ELSE 0

(* Names are compared by rank; a target is a name's rank doubled, and odd  *)
(* for a string that sorts between two names.                              *)
Targets == 1..(2 * N + 1)

(* What a search has left, of n, and the last it passed.                   *)
Window(n) == [lo : 0..n, hi : 0..n, last : 0..n]
Mid(w) == w.lo + (w.hi - w.lo) \div 2

(* Mutant of BlockFor: the candidate is dropped when its first name is the *)
(* target.                                                                 *)
BlockAbove(target) ==
    LET search[w \in Window(Len(blocks))] ==
          IF w.lo >= w.hi THEN w.last
          ELSE IF 2 * RankOf(NameAt(blocks[Mid(w) + 1], 1)) < target
               THEN search[[w EXCEPT !.lo = Mid(w) + 1, !.last = Mid(w) + 1]]
               ELSE search[[w EXCEPT !.hi = Mid(w)]]
    IN  search[[lo |-> 0, hi |-> Len(blocks), last |-> 0]]

(* The search over blocks: the last one whose first name is not beyond the *)
(* target, counted from 1; 0 if there is none.                             *)
BlockFor(target) ==
    LET search[w \in Window(Len(blocks))] ==
          IF w.lo >= w.hi THEN w.last
          ELSE IF 2 * RankOf(NameAt(blocks[Mid(w) + 1], 1)) <= target
               THEN search[[w EXCEPT !.lo = Mid(w) + 1, !.last = Mid(w) + 1]]
               ELSE search[[w EXCEPT !.hi = Mid(w)]]
    IN  search[[lo |-> 0, hi |-> Len(blocks), last |-> 0]]

(* The search inside a block (lookupBlock): the nid found, 0 for none.     *)
NidIn(b, target) ==
    LET rank(k) == 2 * RankOf(NameAt(b, k))
        search[w \in Window(EntryN(b))] ==
          IF w.lo >= w.hi THEN 0
          ELSE IF rank(Mid(w) + 1) = target THEN b.head[Mid(w) + 1].nid
          ELSE IF rank(Mid(w) + 1) < target THEN search[[w EXCEPT !.lo = Mid(w) + 1]]
          ELSE search[[w EXCEPT !.hi = Mid(w)]]
    IN  search[[lo |-> 0, hi |-> EntryN(b), last |-> 0]]

Lookup(target) ==
    IF BlockFor(target) = 0 THEN 0 ELSE NidIn(blocks[BlockFor(target)], target)

IsChild(name) == name = 0 \/ ~names[name].dot

(* parseDirBlock: every entry of every block but the dots; the last name   *)
(* of a block loses its trailing NULs.                                     *)
Parsed ==
    LET ofBlock(b) == [k \in 1..EntryN(b) |-> [nid |-> b.head[k].nid,
                                                name |-> RankOf(NameAt(b, k))]]
        all == FlattenSeq([j \in 1..Len(blocks) |-> ofBlock(blocks[j])])
        kept == Ascending({k \in DOMAIN all : IsChild(all[k].name)}, Len(all))
    IN  [k \in DOMAIN kept |-> all[kept[k]]]

-----------------------------------------------------------------------------
(* Listing with one handle.                                                *)

Idle == [running |-> FALSE, n |-> 0, got |-> <<>>]

ReadDir(n) ==
    /\ Packed /\ ~call.running /\ ~ended
    /\ call' = [running |-> TRUE, n |-> n, got |-> <<>>]
    /\ UNCHANGED <<names, blocks, next, bn, consumed, listed, ended, fails>>

(* The entries of block b behind the first c that are not dots.            *)
Fresh(b, c) ==
    Ascending({k \in 1..EntryN(b) : k > c /\ IsChild(RankOf(NameAt(b, k)))}, EntryN(b))
NamesOf(b, es) == [k \in DOMAIN es |-> RankOf(NameAt(b, es[k]))]

Room == call.n - Len(call.got)

(* In the following, es are the entries of block b the handle has to give. *)

(* The page is full inside this block: the call returns, and the handle    *)
(* stands behind the last entry it returned.                               *)
PageFull ==
    /\ call.running /\ bn < Len(blocks)
    /\ \E b \in {blocks[bn + 1]}, es \in {Fresh(blocks[bn + 1], consumed)} :
           /\ call.n > 0 /\ Len(es) >= Room
           /\ listed' = listed \o call.got \o NamesOf(b, SubSeq(es, 1, Room))
           /\ LET left == es[Room] = EntryN(b)
              IN  /\ consumed' = IF left THEN 0 ELSE es[Room]
                  /\ bn' = IF left THEN bn + 1 ELSE bn
    /\ call' = Idle
    /\ UNCHANGED <<names, blocks, next, ended, fails>>

(* Mutants of TakeBlock: the count goes over to the next block; a block    *)
(* with nothing to return is not left.                                     *)
TakeBlockKeepsCount ==
    /\ call.running /\ bn < Len(blocks)
    /\ \E b \in {blocks[bn + 1]}, es \in {Fresh(blocks[bn + 1], consumed)} :
           /\ call.n = 0 \/ Len(es) < Room
           /\ call' = [call EXCEPT !.got = @ \o NamesOf(b, es)]
    /\ bn' = bn + 1
    /\ UNCHANGED <<names, blocks, next, consumed, listed, ended, fails>>

TakeBlockIfAny ==
    /\ call.running /\ bn < Len(blocks)
    /\ \E b \in {blocks[bn + 1]}, es \in {Fresh(blocks[bn + 1], consumed)} :
           /\ es # <<>> /\ (call.n = 0 \/ Len(es) < Room)
           /\ call' = [call EXCEPT !.got = @ \o NamesOf(b, es)]
    /\ bn' = bn + 1 /\ consumed' = 0
    /\ UNCHANGED <<names, blocks, next, listed, ended, fails>>

(* The whole block is taken and the call goes on with the next one.        *)
TakeBlock ==
    /\ call.running /\ bn < Len(blocks)
    /\ \E b \in {blocks[bn + 1]}, es \in {Fresh(blocks[bn + 1], consumed)} :
           /\ call.n = 0 \/ Len(es) < Room
           /\ call' = [call EXCEPT !.got = @ \o NamesOf(b, es)]
    /\ bn' = bn + 1 /\ consumed' = 0
    /\ UNCHANGED <<names, blocks, next, listed, ended, fails>>

(* No block is left: the rest of the page, with io.EOF when n > 0.         *)
AtEnd ==
    /\ call.running /\ bn = Len(blocks)
    /\ listed' = listed \o call.got
    /\ ended' = TRUE
    /\ call' = Idle
    /\ UNCHANGED <<names, blocks, next, bn, consumed, fails>>

(* A block cannot be read: nil and the error; the handle stays where it is *)
(* now, not where it was when the call began.                              *)
LoadFails ==
    /\ call.running /\ bn < Len(blocks)
    /\ fails < MaxFails /\ fails' = fails + 1
    /\ call' = Idle
    /\ UNCHANGED <<names, blocks, next, bn, consumed, listed, ended>>

Init ==
    /\ names \in Directories
    /\ blocks = <<>> /\ next = 1
    /\ bn = 0 /\ consumed = 0 /\ call = Idle
    /\ listed = <<>> /\ ended = FALSE /\ fails = 0

Next ==
    \/ PackBlock
    \/ \E n \in Pages : ReadDir(n)
    \/ PageFull \/ TakeBlock \/ AtEnd
    \/ LoadFails

(* The loops run on, and the caller calls until it is told there is no     *)
(* more; a page size it uses again and again is enough.                    *)
Fairness ==
    /\ WF_vars(PackBlock)
    /\ WF_vars(\E n \in Pages : ReadDir(n))
    /\ WF_vars(PageFull \/ TakeBlock \/ AtEnd)

Spec == Init /\ [][Next]_vars /\ Fairness
-----------------------------------------------------------------------------
TypeOK ==
    /\ names \in Directories
    /\ next \in 1..(N + 1)
    /\ bn \in 0..Len(blocks) /\ fails \in 0..MaxFails /\ ended \in BOOLEAN
    /\ consumed # 0 => bn < Len(blocks) /\ consumed < EntryN(blocks[bn + 1])
    /\ call \in [running : BOOLEAN, n : Pages \cup {0}, got : Seq(1..N)]
    /\ listed \in Seq(1..N)

(* layout.go:182 and writer.go:546: what planLayout and the inode say the  *)
(* directory takes is what is written, and every block but the last is     *)
(* whole, so that the reader's n-th block is the writer's.                 *)
PackedAsPlanned ==
    JustPacked => /\ Written = DirentDataSize
                  /\ \A b \in 1..(Len(blocks) - 1) : Bytes(blocks[b]) = BlockSize

(* erofs.go:1249: the two binary searches find exactly the names that are  *)
(* there, whichever block they are in and wherever the dots sort, and give *)
(* each its own nid; a string between two names is found nowhere.          *)
FoundIffThere ==
    JustPacked =>
      \A t \in Targets : Lookup(t) = IF t % 2 = 0 THEN t \div 2 ELSE 0

(* mkfs_image.go:315: the fast copy sees every child once, in order, with  *)
(* its nid.                                                                *)
ParsedRight ==
    JustPacked =>
      Parsed = [k \in DOMAIN Children |-> [nid |-> Children[k], name |-> Children[k]]]

(* erofs.go:1130: over any sequence of page sizes and failing blocks no    *)
(* name is returned twice or out of order; without failures none is left   *)
(* out either, page by page and in all when the end is reported.           *)
ListedOnce ==
    /\ \A k \in 1..(Len(listed) - 1) : listed[k] < listed[k + 1]
    /\ ToSet(listed) \subseteq ToSet(Children)
    /\ fails = 0 => IsPrefix(listed, Children)
    /\ fails = 0 /\ ended => listed = Children

(* A caller that keeps asking reaches the end, whatever its page sizes.    *)
ListingEnds == <>ended
=============================================================================
