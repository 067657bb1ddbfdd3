------------------------------- MODULE XattrArea ------------------------------
(***************************************************************************)
(* The extended attributes of an inode, byte by byte: the area writeXattrs *)
(* writes behind the inode (src/writer.go, src/format.go), its size from   *)
(* the inode's count, and the two decoders: loadXattrs (src/xattr.go),     *)
(* which sees one block at a time and loads the next where an entry goes   *)
(* on, and parseXattrsFromBuf (src/mkfs_image.go), which has it all in     *)
(* memory.  Both follow references to shared attributes, which only other  *)
(* tools write.  A byte is a number below ByteWrap, 256 in the code; an    *)
(* attribute is <<name index, suffix, value>>, its name the first two.     *)
(***************************************************************************)
EXTENDS Integers, Sequences, FiniteSets, SequencesExt, FiniteSetsExt

CONSTANTS
    ByteWrap, BlockSize,
    Inlines, Shareds,      \* sequences of attributes: an inode's own, shared ones
    Tails                  \* how many bytes an image may have behind the shared ones

HeaderSize == 12           \* disk.SizeXattrBodyHeader
EntrySize == 4             \* disk.SizeXattrEntry

Attribute == (0..ByteWrap - 1) \X Seq(0..ByteWrap - 1) \X Seq(0..ByteWrap - 1)

ASSUME AreaAssumption ==
    /\ ByteWrap \in Nat \ {0, 1} /\ BlockSize \in Nat /\ BlockSize >= HeaderSize /\ Tails \subseteq Nat
    /\ \A list \in Inlines \cup Shareds :
         list \in Seq(Attribute) /\ \A i \in DOMAIN list : Len(list[i][2]) <= BlockSize

VARIABLES
    own, shared,           \* the attributes of the inode and the shared ones
    tail,                  \* bytes of the image behind the shared ones
    inMeta,                \* whether the shared ones are in the metadata region
    state, pos, win,       \* loadXattrs: what it does next, pos, and xb
    refs,                  \* shared references it has followed
    entry,                 \* the entry being read: index, nlen, vlen, name, value
    found                  \* stat.Xattrs

areaVars == <<own, shared, tail, inMeta, state, pos, win, refs, entry, found>>
image == <<own, shared, tail, inMeta>>

Zeros(n) == [i \in 1..n |-> 0]
RoundUp4(n) == ((n + 3) \div 4) * 4
Name(a) == <<a[1], a[2]>>
(* Setting attributes in order, the later of two with one name stays.      *)
Set(f, n, v) == [m \in DOMAIN f \cup {n} |-> IF m = n THEN v ELSE f[m]]
SetUpTo(f, list) ==
    LET upTo[k \in 0..Len(list)] ==
          IF k = 0 THEN f ELSE Set(upTo[k - 1], Name(list[k]), list[k][3])
    IN  upTo
SetAll(f, list) == SetUpTo(f, list)[Len(list)]
-----------------------------------------------------------------------------
(* The writer.                                                             *)

EntryRecord(a) == <<Len(a[2]) % ByteWrap, a[1], Len(a[3]) % ByteWrap,
                    (Len(a[3]) \div ByteWrap) % ByteWrap>>

(* Mutant of Entry: the padding is one byte short of the rule.             *)
EntryUnpadded(a) == EntryRecord(a) \o a[2] \o a[3]
(* One entry, padded.                                                      *)
Entry(a) ==
    LET e == EntryRecord(a) \o a[2] \o a[3] IN e \o Zeros(RoundUp4(Len(e)) - Len(e))

EntrySizeOf(a) == RoundUp4(EntrySize + Len(a[2]) + Len(a[3]))
Entries(list) == FlattenSeq([i \in DOMAIN list |-> Entry(list[i])])
(* Where each entry ends, counted from the first.                          *)
Ends(list) == LET sum[k \in 0..Len(list)] == IF k = 0 THEN 0 ELSE sum[k - 1] + EntrySizeOf(list[k])
            IN  sum
EntriesSize(list) == Ends(list)[Len(list)]

(* References are in units of 4 bytes; two bytes of four hold them all.    *)
Place(list, i) == Ends(list)[i - 1]
Ref(o) == <<(o \div 4) % ByteWrap, (o \div 4) \div ByteWrap, 0, 0>>
Refs(list) == FlattenSeq([i \in DOMAIN list |-> Ref(Place(list, i))])
Header(n) == [i \in 1..HeaderSize |-> IF i = 5 THEN n ELSE 0]

(* What lies behind the inode: the area, then data of the file.            *)
Area == Header(Len(shared)) \o Refs(shared) \o Entries(own)
Behind == Area \o [i \in 1..BlockSize |-> 1]

(* calcXattrSize, the count in the inode, and the size a reader takes from *)
(* it.                                                                     *)
AreaSize == IF shared = <<>> /\ own = <<>> THEN 0
            ELSE HeaderSize + 4 * Len(shared) + EntriesSize(own)
XattrCount == IF AreaSize = 0 THEN 0
              ELSE (((AreaSize - HeaderSize) \div EntrySize) + 1) % (ByteWrap * ByteWrap)
xsize == IF XattrCount = 0 THEN 0 ELSE (XattrCount - 1) * EntrySize + HeaderSize

(* The shared attributes, at a block's start, and the end of the image.    *)
Blocks == Entries(shared) \o Zeros(tail)
-----------------------------------------------------------------------------
(* parseXattrsFromBuf.                                                     *)

Byte(b, p) == b[p + 1]
RefAt(b, p) == 4 * (Byte(b, p) + ByteWrap * Byte(b, p + 1))
Bytes(b, p, n) == SubSeq(b, p + 1, p + n)
(* An entry of which the record has been read, and a whole one.            *)
Record(b, p) == [index |-> Byte(b, p + 1), nlen |-> Byte(b, p),
                 vlen |-> Byte(b, p + 2) + ByteWrap * Byte(b, p + 3),
                 name |-> <<>>, value |-> <<>>]
Decoded(b, p) ==
    LET r == Record(b, p)
    IN  <<r.index, Bytes(b, p + EntrySize, r.nlen), Bytes(b, p + EntrySize + r.nlen, r.vlen)>>
After(b, p) == RoundUp4(p + EntrySize + Record(b, p).nlen + Record(b, p).vlen)
Fits(b, p) ==
    /\ p + EntrySize <= Len(b)
    /\ p + EntrySize + Record(b, p).nlen + Record(b, p).vlen <= Len(b)

(* at: the metadata to its end, of another block what is left of it.       *)
At(off) ==
    IF inMeta THEN Bytes(Blocks, off, Len(Blocks) - off)
    ELSE Bytes(Blocks, off, Min({Len(Blocks), (off \div BlockSize + 1) * BlockSize}) - off)

SharedRefs(buf) == Min({Byte(buf, 4), (Len(buf) - HeaderSize) \div 4})
WithEntry(f, b) ==
    IF Fits(b, 0) THEN Set(f, Name(Decoded(b, 0)), Decoded(b, 0)[3]) ELSE f

(* Mutant of ParsedShared: an entry is taken from the block's start.       *)
ParsedSharedAtBlock(buf) ==
    LET block(k) == At((RefAt(buf, HeaderSize + 4 * (k - 1)) \div BlockSize) * BlockSize)
        upTo[k \in 0..SharedRefs(buf)] == IF k = 0 THEN <<>> ELSE WithEntry(upTo[k - 1], block(k))
    IN  upTo[SharedRefs(buf)]
(* The shared ones; what does not fit into the bytes at hand is skipped.   *)
ParsedShared(buf) ==
    LET upTo[k \in 0..SharedRefs(buf)] ==
          IF k = 0 THEN <<>>
          ELSE WithEntry(upTo[k - 1], At(RefAt(buf, HeaderSize + 4 * (k - 1))))
    IN  upTo[SharedRefs(buf)]

(* Those from each position on.                                            *)
ParsedFrom(buf) ==
    LET from[p \in 0..(Len(buf) + 3)] ==
          IF Fits(buf, p) THEN <<Decoded(buf, p)>> \o from[After(buf, p)] ELSE <<>>
    IN  from

Parsed ==
    IF xsize = 0 THEN <<>>
    ELSE LET buf == Bytes(Behind, 0, xsize)
         IN  SetAll(ParsedShared(buf), ParsedFrom(buf)[HeaderSize + 4 * SharedRefs(buf)])
-----------------------------------------------------------------------------
(* loadXattrs.                                                             *)

(* loadAt, at most a block.                                                *)
Loaded(p) == Bytes(Behind, p, Min({BlockSize, xsize - p}))

AreaInit ==
    /\ own \in Inlines /\ shared \in Shareds /\ tail \in Tails /\ inMeta \in BOOLEAN
    /\ state = "start" /\ pos = 0 /\ win = <<>> /\ refs = 0
    /\ entry = [index |-> 0, nlen |-> 0, vlen |-> 0, name |-> <<>>, value |-> <<>>]
    /\ found = <<>>

Stop(s) == state' = s /\ UNCHANGED <<image, pos, win, refs, entry, found>>

Start ==
    /\ state = "start"
    /\ IF xsize = 0 THEN Stop("done")
       ELSE /\ win' = Bytes(Loaded(0), HeaderSize, Len(Loaded(0)) - HeaderSize)
            /\ pos' = HeaderSize /\ state' = "refs"
            /\ UNCHANGED <<image, refs, entry, found>>

(* One reference.  Its block is loaded whole, so the image must not end    *)
(* before it does.                                                         *)
FollowRef ==
    /\ state = "refs" /\ refs < Byte(Behind, 4)
    /\ LET w == IF Len(win) < 4 THEN Loaded(pos) ELSE win
           off == RefAt(w, 0)
           b == Bytes(Blocks, off, BlockSize)
       IN IF off + BlockSize > Len(Blocks) \/ ~Fits(b, 0) THEN Stop("error")
          ELSE /\ found' = WithEntry(found, b)
               /\ win' = Bytes(w, 4, Len(w) - 4) /\ pos' = pos + 4 /\ refs' = refs + 1
               /\ UNCHANGED <<image, state, entry>>

(* Mutant of NextEntry: the window is not moved on.                        *)
NextEntryInWindow ==
    \/ state = "refs" /\ refs = Byte(Behind, 4) /\ Stop("entry")
    \/ state = "entry" /\ pos >= xsize /\ Stop("done")
    \/ /\ state = "entry" /\ pos < xsize
       /\ IF Len(win) < EntrySize THEN Stop("error")
          ELSE /\ entry' = [entry EXCEPT !.index = Record(win, 0).index,
                                         !.nlen = Record(win, 0).nlen, !.vlen = Record(win, 0).vlen]
               /\ win' = Bytes(win, EntrySize, Len(win) - EntrySize) /\ pos' = pos + EntrySize
               /\ state' = "name"
       /\ UNCHANGED <<image, refs, found>>
(* The next entry's record, or the end.                                    *)
NextEntry ==
    \/ state = "refs" /\ refs = Byte(Behind, 4) /\ Stop("entry")
    \/ state = "entry" /\ pos >= xsize /\ Stop("done")
    \/ /\ state = "entry" /\ pos < xsize
       /\ LET w == IF Len(win) < EntrySize THEN Loaded(pos) ELSE win
          IN IF Len(w) < EntrySize THEN Stop("error")
             ELSE /\ entry' = Record(w, 0)
                  /\ win' = Bytes(w, EntrySize, Len(w) - EntrySize) /\ pos' = pos + EntrySize
                  /\ state' = "name"
                  /\ UNCHANGED <<image, refs, found>>

ReadName ==
    /\ state = "name"
    /\ LET w == IF Len(win) < entry.nlen THEN Loaded(pos) ELSE win
       IN IF Len(w) < entry.nlen THEN Stop("error")
          ELSE /\ entry' = [entry EXCEPT !.name = Bytes(w, 0, entry.nlen)]
               /\ win' = Bytes(w, entry.nlen, Len(w) - entry.nlen) /\ pos' = pos + entry.nlen
               /\ state' = "value"
               /\ UNCHANGED <<image, refs, found>>

(* What the window has of the value; an empty window is moved on first.    *)
ReadValue ==
    /\ state = "value" /\ Len(entry.value) < entry.vlen
    /\ LET w == IF win = <<>> THEN Loaded(pos) ELSE win
           n == Min({Len(w), entry.vlen - Len(entry.value)})
       IN IF n = 0 THEN Stop("error")
          ELSE /\ entry' = [entry EXCEPT !.value = @ \o Bytes(w, 0, n)]
               /\ win' = Bytes(w, n, Len(w) - n) /\ pos' = pos + n
               /\ UNCHANGED <<image, state, refs, found>>

(* Mutant of EntryDone: only the position skips the padding.               *)
EntryDoneKeepsWindow ==
    /\ state = "value" /\ Len(entry.value) = entry.vlen
    /\ found' = Set(found, <<entry.index, entry.name>>, entry.value)
    /\ pos' = RoundUp4(pos) /\ state' = "entry"
    /\ UNCHANGED <<image, win, refs, entry>>
(* The attribute is set, and the padding skipped.                          *)
EntryDone ==
    /\ state = "value" /\ Len(entry.value) = entry.vlen
    /\ found' = Set(found, <<entry.index, entry.name>>, entry.value)
    /\ LET pad == RoundUp4(pos) - pos
       IN /\ win' = IF Len(win) < pad THEN <<>> ELSE Bytes(win, pad, Len(win) - pad)
          /\ pos' = pos + pad
    /\ state' = "entry"
    /\ UNCHANGED <<image, refs, entry>>

AreaNext == Start \/ FollowRef \/ NextEntry \/ ReadName \/ ReadValue \/ EntryDone

AreaSpec == AreaInit /\ [][AreaNext]_areaVars
-----------------------------------------------------------------------------
(* What the fields hold: the count of an inode, and the lengths of each    *)
(* attribute; the names of the shared ones differ.                         *)
CountHolds(list, ss) == 4 * Len(ss) + EntriesSize(list) < 4 * (ByteWrap * ByteWrap - 1)
RefsCounted == \A list \in Inlines, ss \in Shareds \ {<<>>} : CountHolds(list, ss)
FieldsHold ==
    /\ \A list \in Inlines, ss \in Shareds : CountHolds(list, ss)
    /\ \A list \in Inlines \cup Shareds : \A i \in DOMAIN list :
         Len(list[i][2]) < ByteWrap /\ Len(list[i][3]) < ByteWrap * ByteWrap
    /\ \A ss \in Shareds : \A i, j \in DOMAIN ss : Name(ss[i]) = Name(ss[j]) => i = j

Written == SetAll(SetAll(<<>>, shared), own)

AreaTypeOK ==
    /\ state \in {"start", "refs", "entry", "name", "value", "done", "error"}
    /\ pos \in 0..xsize /\ refs \in 0..Len(shared)
    /\ win \in Seq(Nat)
    /\ Len(entry.value) <= entry.vlen

(* xattr.go:129-137: reload moves the window, every step below it moves    *)
(* the position; between them xb must stay what the area has at pos.       *)
WindowTracks == state # "start" => pos + Len(win) <= xsize /\ win = Bytes(Area, pos, Len(win))

(* xattr.go:40: "loadXattrs reads the extended attributes for the file's   *)
(* inode": what was set is read, unless a reference's block ends the image *)
(* or does not hold its entry.                                             *)
Unreadable(i) ==
    Place(shared, i) + BlockSize > Len(Blocks) \/ EntrySize + Len(shared[i][2]) + Len(shared[i][3]) > BlockSize
DecodedAsSet ==
    /\ state = "done" => found = Written
    /\ state = "error" => \E i \in DOMAIN shared : Unreadable(i)

(* The decoder of image copies gives what Stat gives when the shared       *)
(* attributes are in the metadata it has read; elsewhere some of it, and   *)
(* nothing else.                                                           *)
DecodersAgree ==
    state = "done" =>
      /\ inMeta => Parsed = found
      /\ \A n \in DOMAIN Parsed : n \in DOMAIN found /\ Parsed[n] = found[n]

(* mkfs.go:343: "Setxattr sets an extended attribute on the named path".   *)
(* Not kept: xattr_long.cfg has a counterexample.                          *)
SetIsRead == state \in {"done", "error"} => state = "done" /\ found = Written
=============================================================================
