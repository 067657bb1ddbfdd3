------------------------------- MODULE Attributes ------------------------------
(***************************************************************************)
(* What an entry is besides its name and data: owner, mode, modification   *)
(* time and link count, from the Writer's setters (src/mkfs.go) through    *)
(* Close, where it becomes a compact or an extended inode (src/layout.go,  *)
(* src/writer.go), back through Stat (src/erofs.go), and into the next     *)
(* Writer by a copy of the image, entry by entry or straight from its      *)
(* metadata (src/mkfs_image.go).  One file, one directory and one          *)
(* directory in it stand for all.                                          *)
(***************************************************************************)
EXTENDS Integers, Sequences, FiniteSets

CONSTANTS
    Wrap,              \* what a compact inode's owner and link count are below, 2^16
    Owners, Links,     \* owners to set (user and group alike), link counts to set
    Secs, Nanos,       \* modification times
    BuildTimes,        \* options for WithBuildTime, <<sec, ns>>
    Specials,          \* whether Chmod sets setuid, setgid or sticky: a subset of BOOLEAN
    Walks,             \* whether images are copied by the walk: a subset of BOOLEAN
    MaxOps, MaxImages  \* bounds: operations per Writer, images

ASSUME AttributeAssumption ==
    /\ Wrap \in Nat \ {0} /\ Owners \subseteq Nat /\ Links \subseteq Nat
    /\ Secs \subseteq Nat /\ Nanos \subseteq Nat /\ BuildTimes \subseteq Nat \X Nat
    /\ Specials \subseteq BOOLEAN /\ Walks \subseteq BOOLEAN
    /\ MaxOps \in Nat /\ MaxImages \in Nat

Paths == {"file", "dir", "dir/sub"}
Dirs == {"dir", "dir/sub"}

VARIABLES
    entries,   \* path -> fsEntry
    build,     \* buildTime, buildTimeNs and hasBuildTime of the Writer
    want,      \* history: path -> what was asked for; links is -1 unless SetNlink
               \* set it, copied says whether a copy brought the entry
    images,    \* the images written, each [sec, ns, inodes, want]
    ops

vars == <<entries, build, want, images, ops>>

Fresh == [owner |-> 0, special |-> FALSE, sec |-> 0, ns |-> 0, nlink |-> 0, nlinkSet |-> FALSE]
Asked == [owner |-> 0, special |-> FALSE, sec |-> 0, ns |-> 0, links |-> -1, copied |-> FALSE, walked |-> FALSE]
Extend(f, ps, v) == [p \in DOMAIN f \cup ps |-> IF p \in DOMAIN f THEN f[p] ELSE v]
(* With its parent, if that is missing (ensureParent).                     *)
Needed(p) == IF p = "dir/sub" THEN Dirs ELSE {p}

NoBuild == [sec |-> 0, ns |-> 0, has |-> FALSE]
Builds == {NoBuild} \cup {[sec |-> t[1], ns |-> t[2], has |-> TRUE] : t \in BuildTimes}

Init ==
    /\ entries = <<>> /\ want = <<>> /\ images = <<>> /\ ops = 0
    /\ build \in Builds

Operation == Len(images) < MaxImages /\ ops < MaxOps /\ ops' = ops + 1 /\ UNCHANGED <<build, images>>

(* Create, Mkdir.                                                          *)
Make(p) ==
    /\ Operation /\ p \notin DOMAIN entries
    /\ entries' = Extend(entries, Needed(p), Fresh) /\ want' = Extend(want, Needed(p), Asked)

(* A whiteout of a later layer.                                            *)
RemoveEntry(p) ==
    /\ Operation /\ p \in DOMAIN entries
    /\ LET gone == IF p = "dir" THEN Dirs ELSE {p} IN
         /\ entries' = [q \in DOMAIN entries \ gone |-> entries[q]]
         /\ want' = [q \in DOMAIN want \ gone |-> want[q]]

Chmod(p, s) ==
    /\ Operation /\ p \in DOMAIN entries
    /\ entries' = [entries EXCEPT ![p].special = s] /\ want' = [want EXCEPT ![p].special = s]
Chown(p, o) ==
    /\ Operation /\ p \in DOMAIN entries
    /\ entries' = [entries EXCEPT ![p].owner = o] /\ want' = [want EXCEPT ![p].owner = o]
Chtimes(p, s, n) ==
    /\ Operation /\ p \in DOMAIN entries
    /\ entries' = [entries EXCEPT ![p].sec = s, ![p].ns = n]
    /\ want' = [want EXCEPT ![p].sec = s, ![p].ns = n]
SetNlink(p, n) ==
    /\ Operation /\ p \in DOMAIN entries
    /\ entries' = [entries EXCEPT ![p].nlink = n, ![p].nlinkSet = TRUE]
    /\ want' = [want EXCEPT ![p].links = n]
-----------------------------------------------------------------------------
(* Close.                                                                  *)

ChildDirs(p) == IF p = "dir" /\ "dir/sub" \in DOMAIN entries THEN 1 ELSE 0
Counted(p) == IF p \in Dirs THEN 2 + ChildDirs(p) ELSE 1

(* Mutant of Nlink: the children are not counted.                          *)
NlinkFlat(p) == IF entries[p].nlinkSet THEN entries[p].nlink ELSE IF p \in Dirs THEN 2 ELSE 1
(* fsToErofs and buildErofsTree.                                           *)
Nlink(p) == IF entries[p].nlinkSet THEN entries[p].nlink ELSE Counted(p)

(* Mutant of IsCompact: the owner is forgotten.                            *)
IsCompactAnyOwner(p, sec) == Nlink(p) < Wrap /\ entries[p].sec = sec /\ entries[p].ns = 0
(* planLayout.                                                             *)
IsCompact(p, sec) ==
    /\ entries[p].owner < Wrap /\ Nlink(p) < Wrap
    /\ entries[p].sec = sec /\ entries[p].ns = 0

(* writeInode: a compact inode has no time and short fields.               *)
InodeOf(p, sec) ==
    IF IsCompact(p, sec)
    THEN [compact |-> TRUE, owner |-> entries[p].owner % Wrap, special |-> entries[p].special,
          sec |-> 0, ns |-> 0, nlink |-> Nlink(p) % Wrap]
    ELSE [compact |-> FALSE, owner |-> entries[p].owner, special |-> entries[p].special,
          sec |-> entries[p].sec, ns |-> entries[p].ns, nlink |-> Nlink(p)]

(* The image is written, at the build time or now; then the next Writer.   *)
Close ==
    /\ Len(images) < MaxImages
    /\ \E now \in IF build.has THEN {build.sec} ELSE Secs :
         images' = Append(images, [sec |-> now, ns |-> build.ns, want |-> want,
                                   inodes |-> [p \in DOMAIN entries |-> InodeOf(p, now)]])
    /\ entries' = <<>> /\ want' = <<>> /\ ops' = 0 /\ build' \in Builds
-----------------------------------------------------------------------------
(* Reading and copying.                                                    *)

(* readInfo.                                                               *)
Stat(im, p) ==
    LET i == im.inodes[p] IN
    [owner |-> i.owner, special |-> i.special, nlink |-> i.nlink,
     sec |-> IF i.compact THEN im.sec ELSE i.sec, ns |-> IF i.compact THEN im.ns ELSE i.ns]

(* The entry a copy makes.  The mode of the walk comes from FileInfo.Mode, *)
(* which has the bits of the inode where fs.FileMode has no such bits; a   *)
(* directory has at least two links.                                       *)
Copied(im, p, walk) ==
    LET s == Stat(im, p)
        n == IF walk /\ p \in Dirs /\ s.nlink < 2 THEN 2 ELSE s.nlink
    IN  [owner |-> s.owner, special |-> s.special /\ ~walk, sec |-> s.sec, ns |-> s.ns,
         nlink |-> IF n > 0 THEN n ELSE 0, nlinkSet |-> n > 0]

Over(f, g) == [p \in DOMAIN f \cup DOMAIN g |-> IF p \in DOMAIN g THEN g[p] ELSE f[p]]

(* Mutant of CopyImage: what was there keeps its attributes.               *)
CopyImageUnder(im, walk) ==
    /\ Len(images) < MaxImages /\ ops < MaxOps /\ ops' = ops + 1
    /\ entries' = Over([p \in DOMAIN im.inodes |-> Copied(im, p, walk)], entries)
    /\ want' = Over(want, [p \in DOMAIN im.want |-> [im.want[p] EXCEPT !.copied = TRUE, !.walked = @ \/ walk]])
    /\ build' = IF build.has THEN build ELSE [build EXCEPT !.sec = im.sec, !.has = TRUE]
    /\ UNCHANGED images
(* CopyFrom of an image; it passes on its build time, in seconds.          *)
CopyImage(im, walk) ==
    /\ Len(images) < MaxImages /\ ops < MaxOps /\ ops' = ops + 1
    /\ entries' = Over(entries, [p \in DOMAIN im.inodes |-> Copied(im, p, walk)])
    /\ want' = Over(want, [p \in DOMAIN im.want |-> [im.want[p] EXCEPT !.copied = TRUE, !.walked = @ \/ walk]])
    /\ build' = IF build.has THEN build ELSE [build EXCEPT !.sec = im.sec, !.has = TRUE]
    /\ UNCHANGED images

Next ==
    \/ \E p \in Paths :
         \/ Make(p) \/ RemoveEntry(p)
         \/ \E s \in Specials : Chmod(p, s)
         \/ \E o \in Owners : Chown(p, o)
         \/ \E s \in Secs, n \in Nanos : Chtimes(p, s, n)
         \/ \E n \in Links : SetNlink(p, n)
    \/ \E k \in DOMAIN images, w \in Walks : CopyImage(images[k], w)
    \/ Close

Spec == Init /\ [][Next]_vars
-----------------------------------------------------------------------------
TypeOK ==
    /\ DOMAIN entries \subseteq Paths /\ DOMAIN want = DOMAIN entries
    /\ "dir/sub" \in DOMAIN entries => "dir" \in DOMAIN entries
    /\ \A p \in DOMAIN entries : entries[p].nlink # 0 => entries[p].nlinkSet
    /\ build \in [sec : Nat, ns : Nat, has : BOOLEAN] /\ ops \in 0..MaxOps
    /\ Len(images) <= MaxImages

(* However often an image was copied and written again, an entry has the   *)
(* owner, mode and time last set, but for the special bits after a walk: a *)
(* compact inode loses none of it, nor does one written for another build  *)
(* time than the one it was read with.                                     *)
ReadAsSet ==
    \A k \in DOMAIN images : \A p \in DOMAIN images[k].inodes :
      LET s == Stat(images[k], p)  w == images[k].want[p]
      IN  s.owner = w.owner /\ s.sec = w.sec /\ s.ns = w.ns /\ (w.walked \/ s.special = w.special)

(* mkfs_test.go:659: "directory nlink = 2 + child_dir_count", of every     *)
(* directory whose count no caller has set and no copy has brought.        *)
InImage(im, p) ==
    IF p \in Dirs THEN 2 + Cardinality({q \in DOMAIN im.inodes \cap Dirs : p = "dir" /\ q = "dir/sub"}) ELSE 1
LinksCounted ==
    \A k \in DOMAIN images : \A p \in DOMAIN images[k].inodes :
      LET w == images[k].want[p] IN
      w.links = -1 /\ ~w.copied => Stat(images[k], p).nlink = InImage(images[k], p)

(* A count a caller has set goes through any number of copies.             *)
LinksKept ==
    \A k \in DOMAIN images : \A p \in DOMAIN images[k].inodes :
      images[k].want[p].links >= 2 => Stat(images[k], p).nlink = images[k].want[p].links

(* mkfs_test.go:1702: "verify metadata survived the round-trip".           *)
(* Not kept: attr_special.cfg has a counterexample.                        *)
SpecialKept ==
    \A k \in DOMAIN images : \A p \in DOMAIN images[k].inodes :
      Stat(images[k], p).special = images[k].want[p].special

(* mkfs.go:782: "Entries whose mtime matches the build time can use        *)
(* compact (32-byte) inodes", and no others.                               *)
(* Not kept: attr_nanos.cfg has a counterexample.                          *)
TimesKept ==
    \A k \in DOMAIN images : \A p \in DOMAIN images[k].inodes :
      LET s == Stat(images[k], p)  w == images[k].want[p] IN s.sec = w.sec /\ s.ns = w.ns
=============================================================================
