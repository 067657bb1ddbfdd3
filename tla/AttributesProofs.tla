--------------------------- MODULE AttributesProofs ---------------------------
(***************************************************************************)
(* Proofs about owners, modes, times and link counts, for any operations,  *)
(* images and copies.  The invariant relates what an entry is to what was  *)
(* asked for, in the Writer (Agrees) and in each image written (Faithful), *)
(* since a copy takes the one from the other.                              *)
(* Behind them, proofs about extended attributes (XattrArea), for any      *)
(* lists, block size and images: where each entry is in the area, that     *)
(* loadXattrs stays in it with its window (WindowInv) and has decoded the  *)
(* attributes up to some entry (DecodeInv), and what parseXattrsFromBuf    *)
(* makes of the same bytes.                                                *)
(***************************************************************************)
EXTENDS Attributes, XattrArea, FiniteSetTheorems, NaturalLemmas

Table(S) == UNION {[D -> S] : D \in SUBSET Paths}
Node == [owner : Nat, special : BOOLEAN, sec : Nat, ns : Nat, nlink : Nat, nlinkSet : BOOLEAN]
Wanted == [owner : Nat, special : BOOLEAN, sec : Nat, ns : Nat, links : Int,
           copied : BOOLEAN, walked : BOOLEAN]
Inode == [compact : BOOLEAN, owner : Nat, special : BOOLEAN, sec : Nat, ns : Nat, nlink : Nat]
Image == [sec : Nat, ns : Nat, want : Table(Wanted), inodes : Table(Inode)]

(* A build time in whole seconds, as the run has them: the nanoseconds of  *)
(* one are given to every compact inode (attr_nanos.cfg).                  *)
WholeSeconds == \A t \in BuildTimes : t[2] = 0

ParentThere(D) == "dir/sub" \in D => "dir" \in D

(* What an entry is agrees with what was asked for.                        *)
Agrees(e, w) ==
    /\ e.owner = w.owner /\ (WholeSeconds => e.sec = w.sec /\ e.ns = w.ns)
    /\ w.walked \/ e.special = w.special
    /\ e.nlink # 0 => e.nlinkSet
    /\ w.links = -1 /\ ~w.copied => ~e.nlinkSet
    /\ w.links >= 2 => e.nlinkSet /\ e.nlink = w.links

(* What Stat says of an image's inode does.                                *)
StatRight(im, p) ==
    LET s == Stat(im, p)  w == im.want[p] IN
    /\ s.owner = w.owner /\ (w.walked \/ s.special = w.special)
    /\ WholeSeconds => s.sec = w.sec /\ s.ns = w.ns
    /\ w.links = -1 /\ ~w.copied => s.nlink = InImage(im, p)
    /\ w.links >= 2 => s.nlink = w.links
Faithful(im) ==
    /\ DOMAIN im.inodes = DOMAIN im.want /\ ParentThere(DOMAIN im.inodes)
    /\ \A p \in DOMAIN im.inodes : StatRight(im, p)

EntriesInv ==
    /\ entries \in Table(Node) /\ want \in Table(Wanted)
    /\ DOMAIN want = DOMAIN entries /\ ParentThere(DOMAIN entries)
    /\ \A p \in DOMAIN entries : Agrees(entries[p], want[p])
BuildInv ==
    /\ build \in [sec : Nat, ns : Nat, has : BOOLEAN] /\ ops \in 0..MaxOps
    /\ WholeSeconds => build.ns = 0
ImagesInv ==
    /\ images \in Seq({im \in Image : Faithful(im)})
    /\ Len(images) <= MaxImages

IInv == EntriesInv /\ BuildInv /\ ImagesInv

-----------------------------------------------------------------------------
LEMMA TableFacts ==
    ASSUME NEW S
    PROVE  /\ \A f \in Table(S) : /\ DOMAIN f \subseteq Paths
                                  /\ f = [p \in DOMAIN f |-> f[p]]
                                  /\ \A p \in DOMAIN f : f[p] \in S
           /\ \A D \in SUBSET Paths : [D -> S] \subseteq Table(S)
  BY DEF Table

LEMMA SmallMod == \A n \in Nat : n < Wrap => n % Wrap = n
  BY AttributeAssumption

(* fsToErofs and buildErofsTree: a directory's count is two more than the  *)
(* directories the image has in it.                                        *)
LEMMA CountedIsInImage ==
    ASSUME NEW im, DOMAIN im.inodes = DOMAIN entries, NEW p
    PROVE  Counted(p) = InImage(im, p) /\ Counted(p) \in Nat
<1> DEFINE Kids == {q \in DOMAIN im.inodes \cap Dirs : p = "dir" /\ q = "dir/sub"}
<1>1. CASE p = "dir" /\ "dir/sub" \in DOMAIN entries
  <2>1. Kids = {"dir/sub"}
    BY <1>1 DEF Dirs
  <2>2. Cardinality(Kids) = 1
    BY <2>1, FS_Singleton
  <2> QED BY <1>1, <2>2 DEF Counted, ChildDirs, InImage
<1>2. CASE ~(p = "dir" /\ "dir/sub" \in DOMAIN entries)
  <2>1. Kids = {}
    BY <1>2
  <2>2. Cardinality(Kids) = 0
    BY <2>1, FS_EmptySet
  <2> QED BY <1>2, <2>2 DEF Counted, ChildDirs, InImage
<1> QED BY <1>1, <1>2

(* Close: a compact inode says the same as an extended one.                *)
LEMMA InodeIsRight ==
    ASSUME EntriesInv, BuildInv, NEW im, NEW p \in DOMAIN entries,
           im.sec \in Nat, im.ns = build.ns, im.want = want, DOMAIN im.inodes = DOMAIN entries,
           im.inodes[p] = InodeOf(p, im.sec)
    PROVE  InodeOf(p, im.sec) \in Inode /\ StatRight(im, p)
<1>1. entries[p] \in Node /\ want[p] \in Wanted /\ Agrees(entries[p], want[p])
  BY TableFacts DEF EntriesInv
<1>2. Nlink(p) \in Nat
  BY <1>1, CountedIsInImage DEF Nlink, Node
<1>3. InodeOf(p, im.sec) \in Inode
  BY <1>1, <1>2, SmallMod DEF InodeOf, Inode, Node, IsCompact
<1>4. /\ want[p].links = -1 /\ ~want[p].copied => Nlink(p) = InImage(im, p)
      /\ want[p].links >= 2 => Nlink(p) = want[p].links
  BY <1>1, CountedIsInImage DEF Nlink, Agrees
<1>5. CASE IsCompact(p, im.sec)
  <2>1. /\ entries[p].owner % Wrap = entries[p].owner /\ Nlink(p) % Wrap = Nlink(p)
        /\ entries[p].sec = im.sec /\ entries[p].ns = 0
    BY <1>1, <1>2, <1>5, SmallMod DEF IsCompact, Node
  <2>2. im.inodes[p] = [compact |-> TRUE, owner |-> entries[p].owner, special |-> entries[p].special,
                        sec |-> 0, ns |-> 0, nlink |-> Nlink(p)]
    BY <1>5, <2>1 DEF InodeOf
  <2>3. Stat(im, p) = [owner |-> entries[p].owner, special |-> entries[p].special, nlink |-> Nlink(p),
                       sec |-> im.sec, ns |-> im.ns]
    BY <2>2 DEF Stat
  <2> QED BY <1>1, <1>3, <1>4, <2>1, <2>3 DEF StatRight, Agrees, BuildInv
<1>6. CASE ~IsCompact(p, im.sec)
  <2>1. im.inodes[p] = [compact |-> FALSE, owner |-> entries[p].owner, special |-> entries[p].special,
                        sec |-> entries[p].sec, ns |-> entries[p].ns, nlink |-> Nlink(p)]
    BY <1>6 DEF InodeOf
  <2>2. Stat(im, p) = [owner |-> entries[p].owner, special |-> entries[p].special, nlink |-> Nlink(p),
                       sec |-> entries[p].sec, ns |-> entries[p].ns]
    BY <2>1 DEF Stat
  <2> QED BY <1>1, <1>3, <1>4, <2>2 DEF StatRight, Agrees
<1> QED BY <1>5, <1>6

(* A copy makes an entry that agrees with what the image was asked for.    *)
LEMMA CopiedAgrees ==
    ASSUME NEW im \in Image, Faithful(im), NEW p \in DOMAIN im.inodes, NEW walk \in BOOLEAN,
           NEW w, w = [im.want[p] EXCEPT !.copied = TRUE, !.walked = @ \/ walk]
    PROVE  Copied(im, p, walk) \in Node /\ w \in Wanted /\ Agrees(Copied(im, p, walk), w)
<1>1. im.inodes[p] \in Inode /\ im.want[p] \in Wanted /\ im.sec \in Nat /\ im.ns \in Nat
  BY TableFacts DEF Image, Faithful
<1>2. StatRight(im, p)
  BY DEF Faithful
<1>3. /\ Stat(im, p).owner \in Nat /\ Stat(im, p).special \in BOOLEAN /\ Stat(im, p).nlink \in Nat
      /\ Stat(im, p).sec \in Nat /\ Stat(im, p).ns \in Nat
  BY <1>1 DEF Stat, Inode
<1>4. w \in Wanted
  BY <1>1 DEF Wanted
<1>5. /\ w.owner = im.want[p].owner /\ w.sec = im.want[p].sec /\ w.ns = im.want[p].ns
      /\ w.special = im.want[p].special /\ w.links = im.want[p].links
      /\ w.copied /\ (w.walked <=> im.want[p].walked \/ walk)
  BY <1>1 DEF Wanted
<1> HIDE DEF Wanted
<1>6. Copied(im, p, walk) \in Node
  BY <1>3 DEF Copied, Node
<1>7. /\ Copied(im, p, walk).owner = Stat(im, p).owner
      /\ Copied(im, p, walk).sec = Stat(im, p).sec /\ Copied(im, p, walk).ns = Stat(im, p).ns
      /\ Copied(im, p, walk).nlink # 0 => Copied(im, p, walk).nlinkSet
      /\ Stat(im, p).nlink >= 2 => /\ Copied(im, p, walk).nlink = Stat(im, p).nlink
                                  /\ Copied(im, p, walk).nlinkSet
  <2> DEFINE n == IF walk /\ p \in Dirs /\ Stat(im, p).nlink < 2 THEN 2 ELSE Stat(im, p).nlink
  <2>1. n \in Nat /\ (Stat(im, p).nlink >= 2 => n = Stat(im, p).nlink)
    BY <1>3
  <2>2. /\ Copied(im, p, walk).owner = Stat(im, p).owner
        /\ Copied(im, p, walk).sec = Stat(im, p).sec /\ Copied(im, p, walk).ns = Stat(im, p).ns
        /\ Copied(im, p, walk).nlink = IF n > 0 THEN n ELSE 0
        /\ Copied(im, p, walk).nlinkSet = (n > 0)
    BY Zenon DEF Copied
  <2>3. n > 0 => Copied(im, p, walk).nlinkSet
    BY <2>2, Zenon
  <2> HIDE DEF n
  <2>4. Copied(im, p, walk).nlink = n
    BY <2>1, <2>2
  <2>5. Stat(im, p).nlink >= 2 => n > 0
    BY <1>3, <2>1
  <2>6. n # 0 => n > 0
    BY <2>1
  <2> QED BY <2>1, <2>2, <2>3, <2>4, <2>5, <2>6, Zenon
<1>8. w.links >= 2 => Stat(im, p).nlink = w.links
  BY <1>2, <1>5 DEF StatRight
<1>9. Stat(im, p).owner = w.owner /\ (WholeSeconds => Stat(im, p).sec = w.sec /\ Stat(im, p).ns = w.ns)
  BY <1>2, <1>5 DEF StatRight
<1>10. w.walked \/ Copied(im, p, walk).special = w.special
  <2>1. CASE w.walked
    BY <2>1
  <2>2. CASE ~w.walked
    <3>1. ~im.want[p].walked /\ ~walk
      BY <1>5, <2>2
    <3>2. Copied(im, p, walk).special = Stat(im, p).special
      BY <1>3, <3>1 DEF Copied
    <3> QED BY <1>2, <1>5, <3>1, <3>2 DEF StatRight
  <2> QED BY <2>1, <2>2
<1> QED BY <1>4, <1>5, <1>6, <1>7, <1>8, <1>9, <1>10 DEF Agrees

-----------------------------------------------------------------------------
(* The entries of a step, given what each of them is afterwards.           *)
LEMMA EntriesBecome ==
    ASSUME NEW D \in SUBSET Paths, ParentThere(D),
           NEW E, NEW W, entries' = [p \in D |-> E[p]], want' = [p \in D |-> W[p]],
           \A p \in D : E[p] \in Node /\ W[p] \in Wanted /\ Agrees(E[p], W[p])
    PROVE  EntriesInv'
<1>1. entries' \in [D -> Node] /\ want' \in [D -> Wanted]
  OBVIOUS
<1>2. entries' \in Table(Node) /\ want' \in Table(Wanted)
  BY <1>1 DEF Table
<1>3. DOMAIN entries' = D /\ DOMAIN want' = D
  OBVIOUS
<1>4. \A p \in D : Agrees(entries'[p], want'[p])
  OBVIOUS
<1> QED BY <1>2, <1>3, <1>4 DEF EntriesInv

LEMMA MakeKeeps ==
    ASSUME EntriesInv, NEW p \in Paths, Make(p)
    PROVE  EntriesInv'
<1> DEFINE D == DOMAIN entries \cup Needed(p)
           E == [q \in D |-> IF q \in DOMAIN entries THEN entries[q] ELSE Fresh]
           W == [q \in D |-> IF q \in DOMAIN entries THEN want[q] ELSE Asked]
<1>1. D \in SUBSET Paths /\ ParentThere(D)
  BY TableFacts DEF EntriesInv, ParentThere, Needed, Paths, Dirs
<1>2. Fresh \in Node /\ Asked \in Wanted /\ Agrees(Fresh, Asked)
  BY DEF Fresh, Asked, Node, Wanted, Agrees
<1>3. entries' = [q \in D |-> E[q]] /\ want' = [q \in D |-> W[q]]
  BY DEF Make, Extend, EntriesInv
<1>4. \A q \in D : E[q] \in Node /\ W[q] \in Wanted /\ Agrees(E[q], W[q])
  BY <1>2, TableFacts DEF EntriesInv
<1> HIDE DEF D, E, W
<1> QED BY <1>1, <1>3, <1>4, EntriesBecome

LEMMA RemoveKeeps ==
    ASSUME EntriesInv, NEW p \in Paths, RemoveEntry(p)
    PROVE  EntriesInv'
<1> DEFINE D == DOMAIN entries \ (IF p = "dir" THEN Dirs ELSE {p})
<1>1. D \in SUBSET Paths /\ ParentThere(D)
  BY TableFacts DEF EntriesInv, ParentThere, Dirs
<1>2. entries' = [q \in D |-> entries[q]] /\ want' = [q \in D |-> want[q]]
  BY DEF RemoveEntry, EntriesInv
<1>3. \A q \in D : entries[q] \in Node /\ want[q] \in Wanted /\ Agrees(entries[q], want[q])
  BY TableFacts DEF EntriesInv
<1> HIDE DEF D
<1> QED BY <1>1, <1>2, <1>3, EntriesBecome

(* Chmod, Chown, Chtimes and SetNlink change one entry.                    *)
LEMMA SetKeeps ==
    ASSUME EntriesInv, NEW p \in DOMAIN entries, NEW e \in Node, NEW w \in Wanted, Agrees(e, w),
           entries' = [entries EXCEPT ![p] = e], want' = [want EXCEPT ![p] = w]
    PROVE  EntriesInv'
<1> DEFINE D == DOMAIN entries
           E == [q \in D |-> IF q = p THEN e ELSE entries[q]]
           W == [q \in D |-> IF q = p THEN w ELSE want[q]]
<1>1. D \in SUBSET Paths /\ ParentThere(D)
  BY TableFacts DEF EntriesInv
<1>2. entries' = [q \in D |-> E[q]] /\ want' = [q \in D |-> W[q]]
  BY DEF EntriesInv
<1>3. \A q \in D : E[q] \in Node /\ W[q] \in Wanted /\ Agrees(E[q], W[q])
  BY TableFacts DEF EntriesInv
<1> HIDE DEF D, E, W
<1> QED BY <1>1, <1>2, <1>3, EntriesBecome

LEMMA SettersKeep ==
    ASSUME EntriesInv, NEW p \in Paths,
           \/ \E v \in Specials : Chmod(p, v)
           \/ \E o \in Owners : Chown(p, o)
           \/ \E v \in Secs, n \in Nanos : Chtimes(p, v, n)
           \/ \E n \in Links : SetNlink(p, n)
    PROVE  EntriesInv'
<1>0. p \in DOMAIN entries
  BY DEF Chmod, Chown, Chtimes, SetNlink
<1> DEFINE e == entries[p]
           w == want[p]
<1>a. e \in Node /\ w \in Wanted /\ Agrees(e, w)
  BY <1>0, TableFacts DEF EntriesInv
<1>1. ASSUME NEW v \in Specials, Chmod(p, v)
      PROVE  EntriesInv'
  <2>1. /\ entries' = [entries EXCEPT ![p] = [e EXCEPT !.special = v]]
        /\ want' = [want EXCEPT ![p] = [w EXCEPT !.special = v]]
    BY <1>1 DEF Chmod
  <2>2. [e EXCEPT !.special = v] \in Node /\ [w EXCEPT !.special = v] \in Wanted
    BY <1>a, AttributeAssumption DEF Node, Wanted
  <2>3. Agrees([e EXCEPT !.special = v], [w EXCEPT !.special = v])
    BY <1>a DEF Agrees, Node, Wanted
  <2> QED BY <1>0, <2>1, <2>2, <2>3, SetKeeps
<1>2. ASSUME NEW o \in Owners, Chown(p, o)
      PROVE  EntriesInv'
  <2>1. /\ entries' = [entries EXCEPT ![p] = [e EXCEPT !.owner = o]]
        /\ want' = [want EXCEPT ![p] = [w EXCEPT !.owner = o]]
    BY <1>2 DEF Chown
  <2>2. [e EXCEPT !.owner = o] \in Node /\ [w EXCEPT !.owner = o] \in Wanted
    BY <1>a, AttributeAssumption DEF Node, Wanted
  <2>3. Agrees([e EXCEPT !.owner = o], [w EXCEPT !.owner = o])
    BY <1>a DEF Agrees, Node, Wanted
  <2> QED BY <1>0, <2>1, <2>2, <2>3, SetKeeps
<1>3. ASSUME NEW v \in Secs, NEW n \in Nanos, Chtimes(p, v, n)
      PROVE  EntriesInv'
  <2>1. /\ entries' = [entries EXCEPT ![p] = [e EXCEPT !.sec = v, !.ns = n]]
        /\ want' = [want EXCEPT ![p] = [w EXCEPT !.sec = v, !.ns = n]]
    BY <1>3 DEF Chtimes
  <2>2. [e EXCEPT !.sec = v, !.ns = n] \in Node /\ [w EXCEPT !.sec = v, !.ns = n] \in Wanted
    BY <1>a, AttributeAssumption DEF Node, Wanted
  <2>3. Agrees([e EXCEPT !.sec = v, !.ns = n], [w EXCEPT !.sec = v, !.ns = n])
    BY <1>a DEF Agrees, Node, Wanted
  <2> QED BY <1>0, <2>1, <2>2, <2>3, SetKeeps
<1>4. ASSUME NEW n \in Links, SetNlink(p, n)
      PROVE  EntriesInv'
  <2>1. /\ entries' = [entries EXCEPT ![p] = [e EXCEPT !.nlink = n, !.nlinkSet = TRUE]]
        /\ want' = [want EXCEPT ![p] = [w EXCEPT !.links = n]]
    BY <1>4 DEF SetNlink
  <2>0. n \in Nat /\ n \in Int
    BY AttributeAssumption
  <2>a. [e EXCEPT !.nlink = n, !.nlinkSet = TRUE] \in Node
    BY <1>a, <2>0 DEF Node
  <2>b. [w EXCEPT !.links = n] \in Wanted
    BY <1>a, <2>0 DEF Wanted
  <2>3. Agrees([e EXCEPT !.nlink = n, !.nlinkSet = TRUE], [w EXCEPT !.links = n])
    <3> DEFINE f == [e EXCEPT !.nlink = n, !.nlinkSet = TRUE]
               v == [w EXCEPT !.links = n]
    <3>1. /\ f.owner = e.owner /\ f.sec = e.sec /\ f.ns = e.ns /\ f.special = e.special
          /\ f.nlink = n /\ f.nlinkSet
      BY <1>a DEF Node
    <3>2. /\ v.owner = w.owner /\ v.sec = w.sec /\ v.ns = w.ns /\ v.special = w.special
          /\ v.walked = w.walked /\ v.links = n
      BY <1>a DEF Wanted
    <3>3. n # -1
      BY <2>0
    <3> HIDE DEF f, v
    <3> QED BY <1>a, <3>1, <3>2, <3>3 DEF Agrees
  <2> QED BY <1>0, <2>1, <2>a, <2>b, <2>3, SetKeeps
<1> QED BY <1>1, <1>2, <1>3, <1>4

(* copyFrom replaces what an image has and keeps the rest.                 *)
LEMMA CopyKeeps ==
    ASSUME EntriesInv, NEW im \in Image, Faithful(im), NEW walk \in BOOLEAN, CopyImage(im, walk)
    PROVE  EntriesInv'
<1> DEFINE D == DOMAIN entries \cup DOMAIN im.inodes
           V == [p \in DOMAIN im.want |-> [im.want[p] EXCEPT !.copied = TRUE, !.walked = @ \/ walk]]
           E == [q \in D |-> IF q \in DOMAIN im.inodes THEN Copied(im, q, walk) ELSE entries[q]]
           W == [q \in D |-> IF q \in DOMAIN im.inodes THEN V[q] ELSE want[q]]
<1>0. DOMAIN im.want = DOMAIN im.inodes /\ DOMAIN im.inodes \subseteq Paths
  BY TableFacts DEF Faithful, Image
<1>1. D \in SUBSET Paths /\ ParentThere(D)
  BY <1>0, TableFacts DEF EntriesInv, ParentThere, Faithful
<1>2. entries' = [q \in D |-> E[q]]
  BY DEF CopyImage, Over
<1>3. want' = [q \in D |-> W[q]]
  <2>1. want' = Over(want, V)
    BY DEF CopyImage
  <2>2. DOMAIN V = DOMAIN im.inodes
    BY <1>0
  <2> HIDE DEF V
  <2> QED BY <2>1, <2>2 DEF Over, EntriesInv
<1>4. ASSUME NEW q \in D
      PROVE  E[q] \in Node /\ W[q] \in Wanted /\ Agrees(E[q], W[q])
  <2>1. CASE q \in DOMAIN im.inodes
    BY <1>0, <2>1, CopiedAgrees
  <2>2. CASE q \notin DOMAIN im.inodes
    BY <1>4, <2>2, TableFacts DEF EntriesInv
  <2> QED BY <2>1, <2>2
<1> HIDE DEF D, E, W
<1> QED BY <1>1, <1>2, <1>3, <1>4, EntriesBecome

LEMMA NoEntries ==
    ASSUME entries' = <<>>, want' = <<>>
    PROVE  EntriesInv'
<1>1. entries' = [q \in {} |-> Fresh] /\ want' = [q \in {} |-> Asked]
  OBVIOUS
<1> QED BY <1>1, EntriesBecome DEF ParentThere

LEMMA BuildsFact ==
    \A b \in Builds : b \in [sec : Nat, ns : Nat, has : BOOLEAN] /\ (WholeSeconds => b.ns = 0)
<1> SUFFICES ASSUME NEW b \in Builds
             PROVE  b \in [sec : Nat, ns : Nat, has : BOOLEAN] /\ (WholeSeconds => b.ns = 0)
  OBVIOUS
<1>1. CASE b = NoBuild
  BY <1>1 DEF NoBuild
<1>2. ASSUME NEW t \in BuildTimes, b = [sec |-> t[1], ns |-> t[2], has |-> TRUE]
      PROVE  b \in [sec : Nat, ns : Nat, has : BOOLEAN] /\ (WholeSeconds => b.ns = 0)
  <2>1. t \in Nat \X Nat
    BY AttributeAssumption
  <2>2. t[1] \in Nat /\ t[2] \in Nat
    BY <2>1
  <2>3. WholeSeconds => t[2] = 0
    BY DEF WholeSeconds
  <2> QED BY <1>2, <2>2, <2>3
<1> QED BY <1>1, <1>2 DEF Builds

LEMMA CloseKeeps ==
    ASSUME IInv, Close
    PROVE  IInv'
<1>1. EntriesInv'
  BY NoEntries DEF Close
<1>2. BuildInv'
  BY BuildsFact, AttributeAssumption DEF Close, BuildInv
<1>3. PICK now \in IF build.has THEN {build.sec} ELSE Secs :
         images' = Append(images, [sec |-> now, ns |-> build.ns, want |-> want,
                                   inodes |-> [p \in DOMAIN entries |-> InodeOf(p, now)]])
  BY DEF Close
<1> DEFINE im == [sec |-> now, ns |-> build.ns, want |-> want,
                  inodes |-> [p \in DOMAIN entries |-> InodeOf(p, now)]]
<1>4. now \in Nat /\ build.ns \in Nat
  BY <1>3, AttributeAssumption DEF IInv, BuildInv
<1>5. /\ DOMAIN im.inodes = DOMAIN entries /\ im.sec = now /\ im.ns = build.ns /\ im.want = want
      /\ \A p \in DOMAIN entries : im.inodes[p] = InodeOf(p, im.sec)
  OBVIOUS
<1>6. \A p \in DOMAIN entries : InodeOf(p, now) \in Inode /\ StatRight(im, p)
  <2> HIDE DEF im
  <2> QED BY <1>4, <1>5, InodeIsRight DEF IInv
<1>7. im \in Image
  <2>1. [p \in DOMAIN entries |-> InodeOf(p, now)] \in [DOMAIN entries -> Inode]
    BY <1>6
  <2>2. DOMAIN entries \in SUBSET Paths
    BY TableFacts DEF IInv, EntriesInv
  <2>3. [p \in DOMAIN entries |-> InodeOf(p, now)] \in Table(Inode)
    BY <2>1, <2>2 DEF Table
  <2>4. want \in Table(Wanted)
    BY DEF IInv, EntriesInv
  <2> QED BY <1>4, <2>3, <2>4 DEF Image
<1>8. Faithful(im)
  <2> HIDE DEF im
  <2> QED BY <1>5, <1>6 DEF Faithful, IInv, EntriesInv
<1>9. ImagesInv'
  <2> DEFINE Good == {x \in Image : Faithful(x)}
  <2>1. im \in Good
    BY <1>7, <1>8
  <2>2. images \in Seq(Good) /\ images' = Append(images, im)
    BY <1>3 DEF IInv, ImagesInv
  <2>3. images' \in Seq(Good) /\ Len(images') = Len(images) + 1
    <3> HIDE DEF im, Good
    <3> QED BY <2>1, <2>2
  <2>4. Len(images) < MaxImages /\ Len(images) \in Nat
    BY <2>2 DEF Close
  <2>5. Len(images') <= MaxImages
    BY <2>3, <2>4, AttributeAssumption
  <2> QED BY <2>3, <2>5 DEF ImagesInv
<1> QED BY <1>1, <1>2, <1>9 DEF IInv

LEMMA IInvInit == Init => IInv
<1> SUFFICES ASSUME Init
             PROVE  IInv
  OBVIOUS
<1>1. EntriesInv
  <2>1. entries = [q \in {} |-> Fresh] /\ want = [q \in {} |-> Asked]
    BY DEF Init
  <2>2. DOMAIN entries = {} /\ DOMAIN want = {} /\ entries \in [{} -> Node] /\ want \in [{} -> Wanted]
    BY <2>1
  <2>3. entries \in Table(Node) /\ want \in Table(Wanted)
    BY <2>2 DEF Table
  <2> QED BY <2>2, <2>3 DEF EntriesInv, ParentThere
<1>2. BuildInv
  BY BuildsFact, AttributeAssumption DEF Init, BuildInv
<1>3. ImagesInv
  BY AttributeAssumption DEF Init, ImagesInv
<1> QED BY <1>1, <1>2, <1>3 DEF IInv

LEMMA IInvStep == IInv /\ [Next]_vars => IInv'
<1> SUFFICES ASSUME IInv, [Next]_vars
             PROVE  IInv'
  OBVIOUS
<1>1. ASSUME Operation
      PROVE  BuildInv' /\ ImagesInv'
  BY <1>1, AttributeAssumption DEF Operation, IInv, BuildInv, ImagesInv, Faithful, StatRight
<1>2. CASE \E p \in Paths : Make(p)
  BY <1>1, <1>2, MakeKeeps DEF IInv, Make
<1>3. CASE \E p \in Paths : RemoveEntry(p)
  BY <1>1, <1>3, RemoveKeeps DEF IInv, RemoveEntry
<1>4. ASSUME NEW p \in Paths,
             \/ \E v \in Specials : Chmod(p, v)
             \/ \E o \in Owners : Chown(p, o)
             \/ \E v \in Secs, n \in Nanos : Chtimes(p, v, n)
             \/ \E n \in Links : SetNlink(p, n)
      PROVE  IInv'
  <2>1. Operation
    BY <1>4 DEF Chmod, Chown, Chtimes, SetNlink
  <2>2. EntriesInv'
    BY <1>4, SettersKeep DEF IInv
  <2> QED BY <1>1, <2>1, <2>2 DEF IInv
<1>5. ASSUME NEW k \in DOMAIN images, NEW w \in Walks, CopyImage(images[k], w)
      PROVE  IInv'
  <2>1. images[k] \in Image /\ Faithful(images[k]) /\ w \in BOOLEAN
    BY AttributeAssumption DEF IInv, ImagesInv
  <2>2. EntriesInv'
    BY <1>5, <2>1, CopyKeeps DEF IInv
  <2>3. build' = IF build.has THEN build ELSE [build EXCEPT !.sec = images[k].sec, !.has = TRUE]
    BY <1>5 DEF CopyImage
  <2>4. build' \in [sec : Nat, ns : Nat, has : BOOLEAN] /\ build'.ns = build.ns
    BY <2>1, <2>3 DEF IInv, BuildInv, Image
  <2>5. BuildInv'
    <3>1. ops' \in 0..MaxOps
      <4>1. ops < MaxOps /\ ops' = ops + 1
        BY <1>5, Zenon DEF CopyImage
      <4> QED BY <4>1, AttributeAssumption DEF IInv, BuildInv
    <3>2. WholeSeconds => build'.ns = 0
      BY <2>4 DEF IInv, BuildInv
    <3> QED BY <2>4, <3>1, <3>2 DEF BuildInv
  <2>6. ImagesInv'
    BY <1>5 DEF CopyImage, IInv, ImagesInv
  <2> QED BY <2>2, <2>5, <2>6 DEF IInv
<1>6. CASE Close
  BY <1>6, CloseKeeps
<1>7. CASE UNCHANGED vars
  BY <1>7 DEF vars, IInv, EntriesInv, BuildInv, ImagesInv
<1> QED BY <1>2, <1>3, <1>4, <1>5, <1>6, <1>7 DEF Next

-----------------------------------------------------------------------------
(* fsEntry objects and build times keep their types, and a directory in    *)
(* another has its parent.                                                 *)
THEOREM Typed == Spec => []TypeOK
<1>1. IInv => TypeOK
  BY TableFacts DEF IInv, EntriesInv, BuildInv, ImagesInv, TypeOK, ParentThere, Agrees
<1> QED BY <1>1, IInvInit, IInvStep, PTL DEF Spec

(* planLayout, writeInode, readInfo and both copies: owner, mode and time  *)
(* of every inode are those last asked for, through any number of images,  *)
(* when build times are in whole seconds.                                  *)
THEOREM StatReadsWhatWasSet ==
    ASSUME WholeSeconds
    PROVE  Spec => []ReadAsSet
<1>1. IInv => ReadAsSet
  BY DEF IInv, ImagesInv, ReadAsSet, Faithful, StatRight
<1> QED BY <1>1, IInvInit, IInvStep, PTL DEF Spec

(* buildErofsTree: every directory whose count nobody has set is counted   *)
(* right, at any 16-bit limit and whatever else the image has.             *)
THEOREM DirectoriesAreCounted == Spec => []LinksCounted
<1>1. IInv => LinksCounted
  BY DEF IInv, ImagesInv, LinksCounted, Faithful, StatRight
<1> QED BY <1>1, IInvInit, IInvStep, PTL DEF Spec

(* SetNlink: a count of two or more survives any number of copies, of      *)
(* either kind.                                                            *)
THEOREM SetCountsAreKept == Spec => []LinksKept
<1>1. IInv => LinksKept
  BY DEF IInv, ImagesInv, LinksKept, Faithful, StatRight
<1> QED BY <1>1, IInvInit, IInvStep, PTL DEF Spec
-----------------------------------------------------------------------------
(* An attribute of bytes, whatever the bound of a byte is.                 *)
Attr == Nat \X Seq(Nat) \X Seq(Nat)

LEMMA Bounds ==
    /\ ByteWrap \in Nat /\ ByteWrap > 1 /\ BlockSize \in Nat /\ BlockSize >= 12
    /\ HeaderSize = 12 /\ EntrySize = 4
  BY AreaAssumption DEF HeaderSize, EntrySize

LEMMA CellsOf ==
    ASSUME NEW S, NEW s \in Seq(S)
    PROVE  Len(s) \in Nat /\ DOMAIN s = 1..Len(s) /\ \A i \in 1..Len(s) : s[i] \in S
  OBVIOUS

LEMMA MoreCells ==
    ASSUME NEW S, NEW T, S \subseteq T
    PROVE  Seq(S) \subseteq Seq(T)
<1> SUFFICES ASSUME NEW s \in Seq(S)
             PROVE  s \in Seq(T)
  OBVIOUS
<1>1. s = [i \in 1..Len(s) |-> s[i]] /\ Len(s) \in Nat /\ \A i \in 1..Len(s) : s[i] \in T
  OBVIOUS
<1>2. [i \in 1..Len(s) |-> s[i]] \in Seq(T)
  BY <1>1
<1> QED BY <1>1, <1>2

LEMMA AttributesAre ==
    ASSUME NEW list \in Inlines \cup Shareds
    PROVE  /\ list \in Seq(Attr) /\ Len(list) \in Nat
           /\ \A i \in 1..Len(list) : /\ list[i] \in Attr /\ list[i][1] \in Nat
                                    /\ list[i][2] \in Seq(Nat) /\ list[i][3] \in Seq(Nat)
                                    /\ Len(list[i][2]) <= BlockSize
<1>1. list \in Seq(Attribute) /\ \A i \in DOMAIN list : Len(list[i][2]) <= BlockSize
  BY AreaAssumption
<1>2. Attribute \subseteq Attr
  <2>1. 0..ByteWrap - 1 \subseteq Nat
    BY Bounds
  <2>2. Seq(0..ByteWrap - 1) \subseteq Seq(Nat)
    BY <2>1, MoreCells
  <2> QED BY <2>1, <2>2, Zenon DEF Attribute, Attr
<1>3. list \in Seq(Attr) /\ Len(list) \in Nat
  <2>1. Seq(Attribute) \subseteq Seq(Attr)
    BY <1>2, MoreCells
  <2>2. list \in Seq(Attr)
    BY <1>1, <2>1, Zenon
  <2> QED BY <2>2, CellsOf, Zenon
<1>4. ASSUME NEW i \in 1..Len(list)
      PROVE  list[i] \in Attr /\ Len(list[i][2]) <= BlockSize
  <2>1. DOMAIN list = 1..Len(list) /\ list[i] \in Attr
    BY <1>3, CellsOf, Zenon
  <2> QED BY <1>1, <2>1
<1> QED BY <1>3, <1>4 DEF Attr

-----------------------------------------------------------------------------
(* Rounding up to 4.                                                       *)
LEMMA Rounded4 ==
    ASSUME NEW n \in Nat
    PROVE  /\ RoundUp4(n) \in Nat /\ RoundUp4(n) % 4 = 0 /\ n <= RoundUp4(n) /\ RoundUp4(n) < n + 4
           /\ \A m \in Nat : m % 4 = 0 => RoundUp4(m + n) = m + RoundUp4(n)
           /\ \A m \in Nat : m % 4 = 0 /\ n <= m => RoundUp4(n) <= m
  BY DEF RoundUp4

(* Two sequences of bytes put together.                                    *)
LEMMA BytesJoined ==
    ASSUME NEW a \in Seq(Nat), NEW b \in Seq(Nat)
    PROVE  /\ Concat(a, b) \in Seq(Nat) /\ Len(Concat(a, b)) = Len(a) + Len(b)
           /\ Len(a) \in Nat /\ Len(b) \in Nat
           /\ \A i \in 1..Len(a) : Concat(a, b)[i] = a[i]
           /\ \A j \in 1..Len(b) : Concat(a, b)[Len(a) + j] = b[j]
<1>1. a \o b \in Seq(Nat) /\ Len(a \o b) = Len(a) + Len(b) /\ Len(a) \in Nat /\ Len(b) \in Nat
  OBVIOUS
<1>2. \A i \in 1..Len(a) : (a \o b)[i] = a[i]
  OBVIOUS
<1>3. \A j \in 1..Len(b) : (a \o b)[Len(a) + j] = b[j]
  OBVIOUS
<1> QED BY <1>1, <1>2, <1>3 DEF Concat

(* Slices.                                                                 *)
LEMMA BytesAre ==
    ASSUME NEW b \in Seq(Nat), NEW p \in Nat, NEW n \in Nat, p + n <= Len(b)
    PROVE  /\ Bytes(b, p, n) \in Seq(Nat) /\ Len(Bytes(b, p, n)) = n
           /\ \A i \in 1..n : Bytes(b, p, n)[i] = b[p + i]
           /\ Bytes(b, p, n) = [i \in 1..n |-> b[p + i]]
<1>1. SubSeq(b, p + 1, p + n) = [i \in 1..n |-> b[p + i]]
  OBVIOUS
<1>2. [i \in 1..n |-> b[p + i]] \in Seq(Nat) /\ Len([i \in 1..n |-> b[p + i]]) = n
  OBVIOUS
<1> QED BY <1>1, <1>2 DEF Bytes

LEMMA SameBytes ==
    ASSUME NEW n \in Nat, NEW s \in Seq(Nat), NEW t \in Seq(Nat), Len(s) = n, Len(t) = n,
           \A i \in 1..n : s[i] = t[i]
    PROVE  s = t
  OBVIOUS

(* A slice of a slice.                                                     *)
LEMMA BytesOfBytes ==
    ASSUME NEW b \in Seq(Nat), NEW p \in Nat, NEW n \in Nat, p + n <= Len(b),
           NEW q \in Nat, NEW m \in Nat, q + m <= n
    PROVE  Bytes(Bytes(b, p, n), q, m) = Bytes(b, p + q, m)
<1> DEFINE w == Bytes(b, p, n)
<1>1. w \in Seq(Nat) /\ Len(w) = n /\ \A i \in 1..n : w[i] = b[p + i]
  BY BytesAre
<1> HIDE DEF w
<1>2. /\ Bytes(w, q, m) \in Seq(Nat) /\ Len(Bytes(w, q, m)) = m
      /\ \A i \in 1..m : Bytes(w, q, m)[i] = w[q + i]
  BY <1>1, BytesAre
<1>3. /\ Bytes(b, p + q, m) \in Seq(Nat) /\ Len(Bytes(b, p + q, m)) = m
      /\ \A i \in 1..m : Bytes(b, p + q, m)[i] = b[(p + q) + i]
  <2>1. p + q \in Nat /\ (p + q) + m <= Len(b)
    OBVIOUS
  <2> QED BY <2>1, BytesAre
<1>4. ASSUME NEW i \in 1..m
      PROVE  Bytes(w, q, m)[i] = Bytes(b, p + q, m)[i]
  <2>1. w[q + i] = b[p + (q + i)] /\ p + (q + i) = (p + q) + i
    BY <1>1
  <2> QED BY <1>2, <1>3, <2>1
<1> QED BY <1>2, <1>3, <1>4, SameBytes DEF w

LEMMA NoBytes ==
    ASSUME NEW b \in Seq(Nat), NEW p \in Nat
    PROVE  Bytes(b, p, 0) = <<>>
  BY DEF Bytes

LEMMA LeastOfTwo ==
    ASSUME NEW a \in Int, NEW b \in Int
    PROVE  Min({a, b}) = IF a <= b THEN a ELSE b
<1> DEFINE m == IF a <= b THEN a ELSE b
<1>1. m \in {a, b} /\ \A y \in {a, b} : m <= y
  OBVIOUS
<1>2. \A x \in {a, b} : (\A y \in {a, b} : x <= y) => x = m
  OBVIOUS
<1> HIDE DEF m
<1>3. Min({a, b}) = m
  BY <1>1, <1>2 DEF Min
<1> QED BY <1>3 DEF m

-----------------------------------------------------------------------------
(* One entry as writeXattrs lays it out.                                   *)
LengthOf(a) == EntrySize + Len(a[2]) + Len(a[3])

LEMMA EntryIs ==
    ASSUME NEW a \in Attr
    PROVE  /\ Entry(a) \in Seq(Nat) /\ Len(Entry(a)) = EntrySizeOf(a)
           /\ LengthOf(a) \in Nat /\ LengthOf(a) >= 4
           /\ EntrySizeOf(a) = RoundUp4(LengthOf(a))
           /\ EntrySizeOf(a) \in Nat /\ EntrySizeOf(a) % 4 = 0 /\ EntrySizeOf(a) >= LengthOf(a)
           /\ \A i \in 1..4 : Entry(a)[i] = EntryRecord(a)[i]
           /\ \A j \in 1..Len(a[2]) : Entry(a)[4 + j] = a[2][j]
           /\ \A j \in 1..Len(a[3]) : Entry(a)[4 + Len(a[2]) + j] = a[3][j]
<1> DEFINE x == a[2]
           y == a[3]
           r == EntryRecord(a)
           l == LengthOf(a)
           z == Zeros(RoundUp4(l) - l)
<1>1. x \in Seq(Nat) /\ y \in Seq(Nat) /\ a[1] \in Nat /\ Len(x) \in Nat /\ Len(y) \in Nat
  BY DEF Attr
<1>2. r \in Seq(Nat) /\ Len(r) = 4
  <2> DEFINE lx == Len(x)
             ly == Len(y)
  <2>1. lx \in Nat /\ ly \in Nat /\ a[1] \in Nat
    BY <1>1
  <2>2. r = <<lx % ByteWrap, a[1], ly % ByteWrap, (ly \div ByteWrap) % ByteWrap>>
    BY DEF EntryRecord
  <2> HIDE DEF lx, ly, r
  <2>3. ByteWrap \in Nat \ {0}
    BY Bounds
  <2>4. lx % ByteWrap \in Nat /\ ly % ByteWrap \in Nat /\ ly \div ByteWrap \in Nat
    BY <2>1, <2>3, Division
  <2>5. (ly \div ByteWrap) % ByteWrap \in Nat
    BY <2>3, <2>4, Division
  <2> DEFINE r1 == lx % ByteWrap
             r3 == ly % ByteWrap
             r4 == (ly \div ByteWrap) % ByteWrap
  <2>6. r1 \in Nat /\ r3 \in Nat /\ r4 \in Nat /\ r = <<r1, a[1], r3, r4>>
    BY <2>2, <2>4, <2>5
  <2> HIDE DEF r1, r3, r4
  <2> QED BY <2>1, <2>6
<1>3. l = 4 + Len(x) + Len(y) /\ l \in Nat /\ l >= 4
  <2>1. l = EntrySize + Len(x) + Len(y)
    BY DEF LengthOf
  <2> HIDE DEF x, y, l
  <2> QED BY <1>1, <2>1, Bounds
<1> HIDE DEF x, y, r, l
<1>4. RoundUp4(l) \in Nat /\ RoundUp4(l) % 4 = 0 /\ l <= RoundUp4(l)
  BY <1>3, Rounded4
<1> DEFINE u == RoundUp4(l) - l
<1>5. u \in Nat
  BY <1>3, <1>4
<1>6. z \in Seq(Nat) /\ Len(z) = u
  <2> HIDE DEF u
  <2>1. Zeros(u) \in Seq(Nat) /\ Len(Zeros(u)) = u
    BY <1>5 DEF Zeros
  <2> QED BY <2>1 DEF u
<1>7. EntrySizeOf(a) = RoundUp4(l)
  BY DEF EntrySizeOf, LengthOf, l
<1> HIDE DEF z, u
<1> DEFINE rx == Concat(r, x)
           e == Concat(rx, y)
           f == Concat(e, z)
<1>8. /\ rx \in Seq(Nat) /\ Len(rx) = 4 + Len(x)
      /\ \A i \in 1..4 : rx[i] = r[i]
      /\ \A j \in 1..Len(x) : rx[4 + j] = x[j]
  <2>1. /\ rx \in Seq(Nat) /\ Len(rx) = Len(r) + Len(x)
        /\ \A i \in 1..Len(r) : rx[i] = r[i]
        /\ \A j \in 1..Len(x) : rx[Len(r) + j] = x[j]
    BY <1>1, <1>2, BytesJoined
  <2> HIDE DEF rx
  <2> QED BY <1>2, <2>1
<1> HIDE DEF rx
<1>9. /\ e \in Seq(Nat) /\ Len(e) = l
      /\ \A i \in 1..(4 + Len(x)) : e[i] = rx[i]
      /\ \A j \in 1..Len(y) : e[4 + Len(x) + j] = y[j]
  <2>1. /\ e \in Seq(Nat) /\ Len(e) = Len(rx) + Len(y)
        /\ \A i \in 1..Len(rx) : e[i] = rx[i]
        /\ \A j \in 1..Len(y) : e[Len(rx) + j] = y[j]
    BY <1>1, <1>8, BytesJoined
  <2> HIDE DEF e
  <2> QED BY <1>3, <1>8, <2>1
<1> HIDE DEF e
<1>10. f \in Seq(Nat) /\ Len(f) = l + u /\ \A i \in 1..l : f[i] = e[i]
  BY <1>6, <1>9, BytesJoined
<1> HIDE DEF f
<1>11. Entry(a) = f
  <2>1. Entry(a) = (r \o x \o y) \o Zeros(RoundUp4(Len(r \o x \o y)) - Len(r \o x \o y))
    BY DEF Entry, r, x, y
  <2>2. e = r \o x \o y
    BY DEF e, rx, Concat
  <2>3. f = e \o Zeros(RoundUp4(Len(e)) - Len(e))
    BY <1>9 DEF f, Concat, z
  <2> QED BY <2>1, <2>2, <2>3
<1>12. ASSUME NEW i \in 1..4
       PROVE  f[i] = r[i]
  <2>1. i \in 1..l /\ i \in 1..(4 + Len(x))
    BY <1>1, <1>3
  <2> QED BY <1>8, <1>9, <1>10, <2>1
<1>13. ASSUME NEW j \in 1..Len(x)
       PROVE  f[4 + j] = x[j]
  <2>1. 4 + j \in 1..l /\ 4 + j \in 1..(4 + Len(x))
    BY <1>1, <1>3
  <2> QED BY <1>8, <1>9, <1>10, <2>1
<1>14. ASSUME NEW j \in 1..Len(y)
       PROVE  f[4 + Len(x) + j] = y[j]
  <2>1. 4 + Len(x) + j \in 1..l
    BY <1>1, <1>3
  <2> QED BY <1>9, <1>10, <2>1
<1>15. l + u = RoundUp4(l)
  BY <1>3, <1>4 DEF u
<1>16. /\ f \in Seq(Nat) /\ Len(f) = EntrySizeOf(a)
       /\ LengthOf(a) \in Nat /\ LengthOf(a) >= 4
       /\ EntrySizeOf(a) = RoundUp4(LengthOf(a))
       /\ EntrySizeOf(a) \in Nat /\ EntrySizeOf(a) % 4 = 0 /\ EntrySizeOf(a) >= LengthOf(a)
  <2>1. LengthOf(a) = l
    BY DEF l
  <2> QED BY <1>3, <1>4, <1>7, <1>10, <1>15, <2>1
<1> QED BY <1>11, <1>12, <1>13, <1>14, <1>16 DEF x, y, r


-----------------------------------------------------------------------------
(* Where entries end.                                                      *)
LEMMA EndsAre ==
    ASSUME NEW list \in Seq(Attr)
    PROVE  /\ Ends(list)[0] = 0
           /\ \A k \in 0..Len(list) : Ends(list)[k] \in Nat /\ Ends(list)[k] % 4 = 0
           /\ \A k \in 1..Len(list) : Ends(list)[k] = Ends(list)[k - 1] + EntrySizeOf(list[k])
<1> DEFINE N == Len(list)
           Turn(h) == [k \in 0..N |-> IF k = 0 THEN 0 ELSE h[k - 1] + EntrySizeOf(list[k])]
           sum == CHOOSE h : h = Turn(h)
           g == [k \in 1..N |-> EntrySizeOf(list[k])]
<1>1. N \in Nat /\ \A k \in 1..N : g[k] \in Nat /\ g[k] = EntrySizeOf(list[k]) /\ g[k] % 4 = 0
  <2>1. N \in Nat /\ \A k \in 1..N : list[k] \in Attr
    BY CellsOf, Zenon
  <2> HIDE DEF N
  <2>2. \A k \in 1..N : EntrySizeOf(list[k]) \in Nat /\ EntrySizeOf(list[k]) % 4 = 0
    BY <2>1, EntryIs
  <2> QED BY <2>1, <2>2
<1> HIDE DEF g, N
<1>2. PICK f \in [0..N -> Nat] : f[0] = 0 /\ \A k \in 1..N : f[k] = f[k - 1] + g[k]
  BY <1>1, PartialSums
<1>3. f = Turn(f)
  <2>1. ASSUME NEW k \in 0..N
        PROVE  f[k] = IF k = 0 THEN 0 ELSE f[k - 1] + EntrySizeOf(list[k])
    <3>1. k # 0 => k \in 1..N
      BY <1>1
    <3> QED BY <1>1, <1>2, <3>1
  <2> QED BY <1>2, <2>1
<1>4. sum = Turn(sum)
  <2> HIDE DEF Turn
  <2> QED BY <1>3
<1>5. Ends(list) = sum
  BY DEF Ends, N
<1> HIDE DEF sum
<1>6. \A k \in 0..N : sum[k] = IF k = 0 THEN 0 ELSE sum[k - 1] + EntrySizeOf(list[k])
  BY <1>4
<1>7. \A k \in 1..N : sum[k] = sum[k - 1] + EntrySizeOf(list[k])
  <2>1. \A k \in 1..N : k \in 0..N /\ k # 0
    BY <1>1
  <2> QED BY <1>6, <2>1
<1>8. sum[0] = 0
  <2>1. 0 \in 0..N
    BY <1>1
  <2> QED BY <1>6, <2>1
<1> DEFINE T == {k \in 0..N : sum[k] \in Nat /\ sum[k] % 4 = 0}
<1>9. 0..N \subseteq T
  <2>1. 0 \in T
    BY <1>1, <1>8
  <2>2. ASSUME NEW k \in 0..N, k \in T, k < N
        PROVE  k + 1 \in T
    <3>1. k + 1 \in 1..N /\ k + 1 \in 0..N /\ (k + 1) - 1 = k /\ sum[k] \in Nat /\ sum[k] % 4 = 0
      BY <1>1, <2>2
    <3> DEFINE x == sum[k]
               y == sum[k + 1]
               z == g[k + 1]
    <3>2. y = x + z /\ x \in Nat /\ z \in Nat /\ x % 4 = 0 /\ z % 4 = 0
      BY <1>1, <1>7, <3>1
    <3> HIDE DEF x, y, z
    <3>3. y \in Nat /\ y % 4 = 0
      BY <3>2
    <3> QED BY <3>1, <3>3 DEF y
  <2> HIDE DEF T
  <2> QED BY <1>1, <2>1, <2>2, BoundedInduction
<1> QED BY <1>5, <1>7, <1>8, <1>9 DEF N

LEMMA EndsGrow ==
    ASSUME NEW list \in Seq(Attr), NEW i \in 0..Len(list), NEW j \in 0..Len(list), i <= j
    PROVE  Ends(list)[i] <= Ends(list)[j]
<1> DEFINE N == Len(list)
           e(k) == Ends(list)[k]
           T == {k \in 0..N : k < i \/ e(i) <= e(k)}
<1>0. N \in Nat /\ i \in Nat
  <2>1. N \in Nat
    BY CellsOf, Zenon
  <2> QED BY <2>1
<1>1. /\ \A k \in 0..N : e(k) \in Nat
      /\ \A k \in 0..N : k < N => e(k) <= e(k + 1)
  <2>1. \A k \in 0..N : e(k) \in Nat
    BY EndsAre, Zenon
  <2>2. ASSUME NEW k \in 0..N, k < N
        PROVE  e(k) <= e(k + 1)
    <3>1. k + 1 \in 1..N /\ (k + 1) - 1 = k /\ k + 1 \in 0..N
      BY <1>0, <2>2
    <3>2. e(k + 1) = e(k) + EntrySizeOf(list[k + 1])
      BY <3>1, EndsAre
    <3>3. list[k + 1] \in Attr
      BY <3>1, CellsOf, Zenon
    <3>4. EntrySizeOf(list[k + 1]) \in Nat
      BY <3>3, EntryIs, Zenon
    <3> HIDE DEF e
    <3> QED BY <2>1, <3>2, <3>4
  <2> QED BY <2>1, <2>2
<1> HIDE DEF e, N
<1>2. 0 \in T
  BY <1>0, <1>1 DEF N
<1>3. ASSUME NEW k \in 0..N, k \in T, k < N
      PROVE  k + 1 \in T
  <2>1. k + 1 \in 0..N /\ e(k) <= e(k + 1) /\ e(k) \in Nat /\ e(k + 1) \in Nat /\ e(i) \in Nat
    BY <1>0, <1>1, <1>3 DEF N
  <2> QED BY <1>0, <1>3, <2>1
<1>4. 0..N \subseteq T
  <2> HIDE DEF T
  <2> QED BY <1>0, <1>2, <1>3, BoundedInduction
<1>5. j \in T
  BY <1>4 DEF N
<1> QED BY <1>0, <1>5 DEF e, N

LEMMA EntriesAre ==
    ASSUME NEW list \in Seq(Attr)
    PROVE  /\ Entries(list) \in Seq(Nat) /\ Len(Entries(list)) = EntriesSize(list)
           /\ \A k \in 1..Len(list) : \A j \in 1..EntrySizeOf(list[k]) :
                /\ Ends(list)[k - 1] + j \in 1..EntriesSize(list)
                /\ Entries(list)[Ends(list)[k - 1] + j] = Entry(list[k])[j]
<1> DEFINE N == Len(list)
           seqs == [i \in DOMAIN list |-> Entry(list[i])]
           p == Ends(list)
<1>1. N \in Nat /\ DOMAIN list = 1..N /\ \A k \in 1..N : list[k] \in Attr
  BY CellsOf, Zenon
<1>2. Entries(list) = FlattenSeq(seqs) /\ EntriesSize(list) = p[N]
  BY DEF Entries, EntriesSize
<1>3. \A k \in 1..N : Entry(list[k]) \in Seq(Nat) /\ Len(Entry(list[k])) = EntrySizeOf(list[k])
  BY <1>1, EntryIs
<1>4. seqs \in Seq(Seq(Nat)) /\ Len(seqs) = N /\ \A k \in 1..N : seqs[k] = Entry(list[k])
  <2>1. seqs = [i \in 1..N |-> Entry(list[i])]
    BY <1>1
  <2> HIDE DEF N
  <2> QED BY <1>1, <1>3, <2>1
<1>5. p[0] = 0 /\ (\A k \in 0..N : p[k] \in Nat) /\ \A k \in 1..N : p[k] = p[k - 1] + Len(seqs[k])
  <2>1. p[0] = 0 /\ (\A k \in 0..N : p[k] \in Nat) /\ \A k \in 1..N : p[k] = p[k - 1] + EntrySizeOf(list[k])
    BY EndsAre, Zenon
  <2> HIDE DEF seqs, p, N
  <2> QED BY <1>3, <1>4, <2>1
<1>6. CASE N = 0
  <2>1. Len(seqs) = 0
    BY <1>4, <1>6
  <2> HIDE DEF seqs, p
  <2>2. FlattenSeq(seqs) = seqs /\ seqs = <<>>
    BY <1>4, <2>1 DEF FlattenSeq
  <2> QED BY <1>2, <1>5, <1>6, <2>2
<1>7. CASE N # 0
  <2> HIDE DEF seqs, p, N
  <2>1. EndsAt(p, N, Nat, seqs)
    BY <1>1, <1>4, <1>5, <1>7 DEF EndsAt
  <2>2. Joins(FlattenSeq(seqs), p, N, Nat, seqs)
    BY <2>1, FlattenCells
  <2>3. /\ FlattenSeq(seqs) \in Seq(Nat) /\ Len(FlattenSeq(seqs)) = p[N]
        /\ \A i \in 1..N : \A j \in 1..Len(seqs[i]) :
             p[i - 1] + j \in 1..p[N] /\ FlattenSeq(seqs)[p[i - 1] + j] = seqs[i][j]
    BY <2>2, Zenon DEF Joins
  <2>4. \A k \in 1..N : seqs[k] = Entry(list[k]) /\ Len(seqs[k]) = EntrySizeOf(list[k])
    BY <1>3, <1>4
  <2>5. \A k \in 1..N : \A j \in 1..EntrySizeOf(list[k]) :
          p[k - 1] + j \in 1..p[N] /\ FlattenSeq(seqs)[p[k - 1] + j] = Entry(list[k])[j]
    BY <2>3, <2>4, Zenon
  <2> USE DEF p
  <2> QED BY <1>2, <2>3, <2>5, Zenon DEF N
<1> QED BY <1>6, <1>7

(* The references of a list to its own entries.                            *)
LEMMA RefsAre ==
    ASSUME NEW list \in Seq(Attr)
    PROVE  /\ Refs(list) \in Seq(Nat) /\ Len(Refs(list)) = 4 * Len(list)
           /\ \A k \in 1..Len(list) :
                /\ Place(list, k) \in Nat /\ Place(list, k) % 4 = 0
                /\ \A j \in 1..4 : Refs(list)[4 * (k - 1) + j] = Ref(Place(list, k))[j]
<1> DEFINE N == Len(list)
           seqs == [i \in DOMAIN list |-> Ref(Place(list, i))]
           p == [k \in 0..N |-> 4 * k]
<1>1. N \in Nat /\ DOMAIN list = 1..N
  BY CellsOf, Zenon
<1>2. Refs(list) = FlattenSeq(seqs)
  BY DEF Refs
<1>3. ASSUME NEW k \in 1..N
      PROVE  /\ Place(list, k) \in Nat /\ Place(list, k) % 4 = 0
             /\ Ref(Place(list, k)) \in Seq(Nat) /\ Len(Ref(Place(list, k))) = 4
  <2>1. k - 1 \in 0..N
    BY <1>1
  <2> DEFINE o == Place(list, k)
             q == o \div 4
  <2>2. o \in Nat /\ o % 4 = 0
    BY <2>1, EndsAre DEF Place
  <2>3. Ref(o) = <<q % ByteWrap, q \div ByteWrap, 0, 0>>
    BY DEF Ref
  <2>4. q \in Nat
    BY <2>2
  <2> HIDE DEF o, q
  <2>5. q % ByteWrap \in Nat /\ q \div ByteWrap \in Nat
    <3>1. ByteWrap \in Nat \ {0}
      BY Bounds
    <3>2. q \div ByteWrap \in Nat /\ q % ByteWrap \in 0..(ByteWrap - 1)
      BY <2>4, <3>1, Division, Zenon
    <3> QED BY <3>1, <3>2
  <2>6. Ref(o) \in Seq(Nat) /\ Len(Ref(o)) = 4
    BY <2>3, <2>5
  <2> QED BY <2>2, <2>6 DEF o
<1>4. seqs \in Seq(Seq(Nat)) /\ Len(seqs) = N /\ \A k \in 1..N : seqs[k] = Ref(Place(list, k))
  <2>1. seqs = [i \in 1..N |-> Ref(Place(list, i))]
    BY <1>1
  <2> HIDE DEF N
  <2> QED BY <1>1, <1>3, <2>1
<1>5. p[0] = 0 /\ (\A k \in 0..N : p[k] \in Nat) /\ \A k \in 1..N : p[k] = p[k - 1] + Len(seqs[k])
  <2>1. \A k \in 1..N : Len(seqs[k]) = 4
    BY <1>3, <1>4
  <2>2. \A k \in 1..N : p[k] = 4 * k /\ p[k - 1] = 4 * (k - 1) /\ 4 * k = 4 * (k - 1) + 4
    BY <1>1
  <2>3. p[0] = 0 /\ \A k \in 0..N : p[k] \in Nat
    BY <1>1
  <2> HIDE DEF seqs, p, N
  <2> QED BY <2>1, <2>2, <2>3
<1>6. CASE N = 0
  <2>1. Len(seqs) = 0
    BY <1>4, <1>6
  <2> HIDE DEF seqs, p
  <2>2. FlattenSeq(seqs) = seqs /\ seqs = <<>>
    BY <1>4, <2>1 DEF FlattenSeq
  <2> QED BY <1>2, <1>6, <2>2
<1>7. CASE N # 0
  <2>0. \A k \in 1..N : p[N] = 4 * N /\ p[k - 1] = 4 * (k - 1)
    BY <1>1
  <2> HIDE DEF seqs, p, N
  <2>1. EndsAt(p, N, Nat, seqs)
    BY <1>1, <1>4, <1>5, <1>7 DEF EndsAt
  <2>2. Joins(FlattenSeq(seqs), p, N, Nat, seqs)
    BY <2>1, FlattenCells
  <2>3. /\ FlattenSeq(seqs) \in Seq(Nat) /\ Len(FlattenSeq(seqs)) = p[N]
        /\ \A i \in 1..N : \A j \in 1..Len(seqs[i]) :
             p[i - 1] + j \in 1..p[N] /\ FlattenSeq(seqs)[p[i - 1] + j] = seqs[i][j]
    BY <2>2, Zenon DEF Joins
  <2>4. \A k \in 1..N : seqs[k] = Ref(Place(list, k)) /\ Len(seqs[k]) = 4
    BY <1>3, <1>4
  <2>5. \A k \in 1..N : \A j \in 1..4 : FlattenSeq(seqs)[4 * (k - 1) + j] = Ref(Place(list, k))[j]
    <3> SUFFICES ASSUME NEW k \in 1..N, NEW j \in 1..4
                 PROVE  FlattenSeq(seqs)[4 * (k - 1) + j] = Ref(Place(list, k))[j]
      OBVIOUS
    <3>1. j \in 1..Len(seqs[k]) /\ p[k - 1] = 4 * (k - 1) /\ seqs[k] = Ref(Place(list, k))
      BY <2>0, <2>4
    <3>2. FlattenSeq(seqs)[p[k - 1] + j] = seqs[k][j]
      BY <2>3, <3>1
    <3> QED BY <3>1, <3>2
  <2>6. p[N] = 4 * N
    <3>1. N \in 1..N
      BY <1>1, <1>7
    <3> QED BY <2>0, <3>1
  <2> QED BY <1>2, <1>3, <2>3, <2>5, <2>6 DEF N
<1> QED BY <1>3, <1>6, <1>7

-----------------------------------------------------------------------------
(* The area of an inode with the attributes o that refers to the shared    *)
(* attributes s, and where its entries begin.                              *)
AreaOf(o, s) == Header(Len(s)) \o Refs(s) \o Entries(o)
EntryAt(o, s, k) == 12 + 4 * Len(s) + Ends(o)[k]
AreaLength(o, s) == 12 + 4 * Len(s) + EntriesSize(o)

LEMMA AreaIs ==
    ASSUME NEW o \in Seq(Attr), NEW s \in Seq(Attr)
    PROVE  /\ AreaOf(o, s) \in Seq(Nat) /\ Len(AreaOf(o, s)) = AreaLength(o, s)
           /\ AreaLength(o, s) \in Nat /\ AreaLength(o, s) % 4 = 0
           /\ AreaOf(o, s)[5] = Len(s)
           /\ \A k \in 1..Len(s) : \A j \in 1..4 :
                /\ 12 + 4 * (k - 1) + j \in 1..AreaLength(o, s)
                /\ AreaOf(o, s)[12 + 4 * (k - 1) + j] = Ref(Place(s, k))[j]
           /\ \A k \in 1..Len(o) : \A j \in 1..EntrySizeOf(o[k]) :
                /\ EntryAt(o, s, k - 1) + j \in 1..AreaLength(o, s)
                /\ AreaOf(o, s)[EntryAt(o, s, k - 1) + j] = Entry(o[k])[j]
<1> DEFINE h == Header(Len(s))
           r == Refs(s)
           e == Entries(o)
           hr == Concat(h, r)
           a == Concat(hr, e)
           ls == Len(s)
           total == EntriesSize(o)
<1>1. ls \in Nat /\ Len(o) \in Nat
  BY CellsOf, Zenon
<1>2. h \in Seq(Nat) /\ Len(h) = 12 /\ h[5] = ls
  BY <1>1, Bounds DEF Header
<1>3. r \in Seq(Nat) /\ Len(r) = 4 * ls
  BY RefsAre, Zenon
<1>4. e \in Seq(Nat) /\ Len(e) = total
  BY EntriesAre, Zenon
<1>5. total \in Nat /\ total % 4 = 0
  <2>1. Len(o) \in 0..Len(o)
    BY <1>1
  <2> QED BY <2>1, EndsAre DEF EntriesSize
<1>6. \A k \in 1..ls : \A j \in 1..4 : r[4 * (k - 1) + j] = Ref(Place(s, k))[j]
  BY RefsAre, Zenon
<1>7. \A k \in 1..Len(o) : \A j \in 1..EntrySizeOf(o[k]) :
         Ends(o)[k - 1] + j \in 1..total /\ e[Ends(o)[k - 1] + j] = Entry(o[k])[j]
  BY EntriesAre, Zenon
<1>8. AreaOf(o, s) = a
  BY DEF AreaOf, Concat
<1>9. AreaLength(o, s) = 12 + 4 * ls + total
  BY DEF AreaLength
<1> HIDE DEF h, r, e, ls, total
<1>10. /\ hr \in Seq(Nat) /\ Len(hr) = 12 + 4 * ls
       /\ \A i \in 1..12 : hr[i] = h[i]
       /\ \A j \in 1..(4 * ls) : hr[12 + j] = r[j]
  <2>1. /\ hr \in Seq(Nat) /\ Len(hr) = Len(h) + Len(r)
        /\ \A i \in 1..Len(h) : hr[i] = h[i]
        /\ \A j \in 1..Len(r) : hr[Len(h) + j] = r[j]
    BY <1>2, <1>3, BytesJoined
  <2> HIDE DEF hr
  <2> QED BY <1>2, <1>3, <2>1
<1> HIDE DEF hr
<1>11. /\ a \in Seq(Nat) /\ Len(a) = 12 + 4 * ls + total
       /\ \A i \in 1..(12 + 4 * ls) : a[i] = hr[i]
       /\ \A j \in 1..total : a[12 + 4 * ls + j] = e[j]
  <2>1. /\ a \in Seq(Nat) /\ Len(a) = Len(hr) + Len(e)
        /\ \A i \in 1..Len(hr) : a[i] = hr[i]
        /\ \A j \in 1..Len(e) : a[Len(hr) + j] = e[j]
    BY <1>4, <1>10, BytesJoined
  <2> HIDE DEF a
  <2> QED BY <1>4, <1>10, <2>1
<1> HIDE DEF a
<1>12. a[5] = ls
  <2>1. 5 \in 1..12 /\ 5 \in 1..(12 + 4 * ls)
    BY <1>1
  <2>2. a[5] = hr[5]
    BY <1>11, <2>1, Zenon
  <2>3. hr[5] = h[5]
    BY <1>10, <2>1, Zenon
  <2> QED BY <1>2, <2>2, <2>3, Zenon
<1>13. ASSUME NEW k \in 1..ls, NEW j \in 1..4
       PROVE  /\ 12 + 4 * (k - 1) + j \in 1..(12 + 4 * ls + total)
              /\ a[12 + 4 * (k - 1) + j] = Ref(Place(s, k))[j]
  <2> DEFINE x == 4 * (k - 1) + j
  <2>1. /\ x \in 1..(4 * ls) /\ 12 + x \in 1..(12 + 4 * ls) /\ 12 + x \in 1..(12 + 4 * ls + total)
        /\ 12 + x = 12 + 4 * (k - 1) + j
    BY <1>1, <1>5
  <2>2. r[x] = Ref(Place(s, k))[j]
    BY <1>6
  <2> HIDE DEF x
  <2>3. a[12 + x] = r[x]
    BY <1>10, <1>11, <2>1
  <2> QED BY <2>1, <2>2, <2>3
<1>14. ASSUME NEW k \in 1..Len(o), NEW j \in 1..EntrySizeOf(o[k])
       PROVE  /\ EntryAt(o, s, k - 1) + j \in 1..(12 + 4 * ls + total)
              /\ a[EntryAt(o, s, k - 1) + j] = Entry(o[k])[j]
  <2> DEFINE x == Ends(o)[k - 1] + j
             y == Ends(o)[k - 1]
  <2>1. x \in 1..total /\ e[x] = Entry(o[k])[j]
    BY <1>7
  <2>2. y \in Nat /\ j \in Int
    <3>1. k - 1 \in 0..Len(o)
      BY <1>1
    <3>2. y \in Nat
      BY <3>1, EndsAre, Zenon
    <3>3. j \in Int
      OBVIOUS
    <3> QED BY <3>2, <3>3
  <2>3. EntryAt(o, s, k - 1) = 12 + 4 * ls + y
    BY DEF EntryAt, ls
  <2>4. x = y + j
    OBVIOUS
  <2> HIDE DEF x, y
  <2>5. EntryAt(o, s, k - 1) + j = 12 + 4 * ls + x /\ 12 + 4 * ls + x \in 1..(12 + 4 * ls + total)
    BY <1>1, <1>5, <2>1, <2>2, <2>3, <2>4
  <2>6. a[12 + 4 * ls + x] = e[x]
    BY <1>11, <2>1
  <2> QED BY <2>1, <2>5, <2>6
<1>15. 12 + 4 * ls + total \in Nat /\ (12 + 4 * ls + total) % 4 = 0
  BY <1>1, <1>5
<1> QED BY <1>8, <1>9, <1>11, <1>12, <1>13, <1>14, <1>15 DEF ls

(* What is between two entries.                                            *)
LEMMA EntriesFollow ==
    ASSUME NEW o \in Seq(Attr), NEW s \in Seq(Attr)
    PROVE  /\ EntryAt(o, s, 0) = 12 + 4 * Len(s) /\ EntryAt(o, s, Len(o)) = AreaLength(o, s)
           /\ \A k \in 0..Len(o) : /\ EntryAt(o, s, k) \in Nat /\ EntryAt(o, s, k) % 4 = 0
                                   /\ EntryAt(o, s, k) >= 12 + 4 * Len(s)
                                   /\ EntryAt(o, s, k) <= AreaLength(o, s)
           /\ \A k \in 1..Len(o) : EntryAt(o, s, k) = EntryAt(o, s, k - 1) + EntrySizeOf(o[k])
<1> DEFINE e(k) == Ends(o)[k]
           ls == Len(s)
<1>1. /\ ls \in Nat /\ Len(o) \in Nat /\ e(0) = 0
      /\ \A k \in 0..Len(o) : e(k) \in Nat /\ e(k) % 4 = 0
      /\ \A k \in 1..Len(o) : e(k) = e(k - 1) + EntrySizeOf(o[k])
  <2>1. ls \in Nat /\ Len(o) \in Nat
    BY CellsOf, Zenon
  <2>2. /\ e(0) = 0 /\ \A k \in 0..Len(o) : e(k) \in Nat /\ e(k) % 4 = 0
        /\ \A k \in 1..Len(o) : e(k) = e(k - 1) + EntrySizeOf(o[k])
    BY EndsAre, Zenon
  <2> QED BY <2>1, <2>2
<1>2. /\ AreaLength(o, s) = 12 + 4 * ls + e(Len(o))
      /\ \A k \in 0..Len(o) : EntryAt(o, s, k) = 12 + 4 * ls + e(k)
  BY DEF EntryAt, AreaLength, EntriesSize
<1>3. \A k \in 0..Len(o) : e(k) <= e(Len(o))
  <2> SUFFICES ASSUME NEW k \in 0..Len(o)
               PROVE  e(k) <= e(Len(o))
    OBVIOUS
  <2>1. Len(o) \in 0..Len(o) /\ k <= Len(o)
    BY <1>1
  <2> QED BY <2>1, EndsGrow
<1> HIDE DEF e, ls
<1>4. 0 \in 0..Len(o) /\ Len(o) \in 0..Len(o)
  BY <1>1
<1>5. ASSUME NEW k \in 0..Len(o)
      PROVE  /\ EntryAt(o, s, k) \in Nat /\ EntryAt(o, s, k) % 4 = 0
             /\ EntryAt(o, s, k) >= 12 + 4 * ls
             /\ EntryAt(o, s, k) <= AreaLength(o, s)
  <2>1. e(k) \in Nat /\ e(k) % 4 = 0 /\ e(k) <= e(Len(o)) /\ e(Len(o)) \in Nat
    BY <1>1, <1>3, <1>4
  <2>2. EntryAt(o, s, k) = 12 + 4 * ls + e(k)
    BY <1>2
  <2> DEFINE x == EntryAt(o, s, k)
             l == AreaLength(o, s)
             u == e(k)
             v == e(Len(o))
  <2>3. x = 12 + 4 * ls + u /\ l = 12 + 4 * ls + v
    BY <1>2, <2>2, Zenon
  <2>4. u \in Nat /\ u % 4 = 0 /\ u <= v /\ v \in Nat
    BY <2>1
  <2> HIDE DEF x, l, u, v
  <2>5. x \in Nat /\ x % 4 = 0 /\ x >= 12 + 4 * ls /\ x <= l
    BY <1>1, <2>3, <2>4
  <2> QED BY <2>5 DEF x, l
<1>6. ASSUME NEW k \in 1..Len(o)
      PROVE  EntryAt(o, s, k) = EntryAt(o, s, k - 1) + EntrySizeOf(o[k])
  <2>1. k \in 0..Len(o) /\ k - 1 \in 0..Len(o)
    BY <1>1
  <2>2. e(k) = e(k - 1) + EntrySizeOf(o[k]) /\ e(k - 1) \in Nat
    BY <1>1, <2>1
  <2>3. o[k] \in Attr
    BY CellsOf, Zenon
  <2>4. EntrySizeOf(o[k]) \in Nat
    BY <2>3, EntryIs, Zenon
  <2> DEFINE x == EntryAt(o, s, k)
             y == EntryAt(o, s, k - 1)
             u == e(k)
             v == e(k - 1)
             w == EntrySizeOf(o[k])
  <2>5. x = 12 + 4 * ls + u /\ y = 12 + 4 * ls + v
    BY <1>2, <2>1, Zenon
  <2>6. u = v + w /\ v \in Nat /\ w \in Nat
    BY <2>2, <2>4, Zenon
  <2> HIDE DEF x, y, u, v, w
  <2>7. x = y + w
    BY <1>1, <2>5, <2>6
  <2> QED BY <2>7 DEF x, y, w
<1>7. EntryAt(o, s, 0) = 12 + 4 * ls /\ EntryAt(o, s, Len(o)) = AreaLength(o, s)
  BY <1>1, <1>2, <1>4
<1> QED BY <1>5, <1>6, <1>7 DEF ls

-----------------------------------------------------------------------------
(* xsize, which goes through the 16 bits of the inode.                     *)
CountOf(o, s) == IF s = <<>> /\ o = <<>> THEN 0
                 ELSE ((AreaLength(o, s) - 12) \div 4 + 1) % (ByteWrap * ByteWrap)
SizeOf(o, s) == IF CountOf(o, s) = 0 THEN 0 ELSE (CountOf(o, s) - 1) * 4 + 12

LEMMA SizeIs ==
    ASSUME NEW o \in Seq(Attr), NEW s \in Seq(Attr)
    PROVE  /\ SizeOf(o, s) \in Nat /\ SizeOf(o, s) % 4 = 0 /\ SizeOf(o, s) <= AreaLength(o, s)
           /\ SizeOf(o, s) = 0 \/ SizeOf(o, s) >= 12
           /\ o = <<>> /\ s = <<>> => SizeOf(o, s) = 0
           /\ CountHolds(o, s) /\ (o # <<>> \/ s # <<>>) => SizeOf(o, s) = AreaLength(o, s)
<1> DEFINE l == AreaLength(o, s)
           q == (l - 12) \div 4
           m == ByteWrap * ByteWrap
           c == (q + 1) % m
<1>1. l \in Nat /\ l % 4 = 0 /\ l >= 12 /\ l = 12 + (4 * Len(s) + EntriesSize(o))
  <2>1. Len(s) \in Nat /\ Len(o) \in Nat
    BY CellsOf, Zenon
  <2>2. EntriesSize(o) \in Nat
    <3>1. Len(o) \in 0..Len(o)
      BY <2>1
    <3> QED BY <3>1, EndsAre DEF EntriesSize
  <2>3. l \in Nat /\ l % 4 = 0
    BY AreaIs, Zenon
  <2> QED BY <2>1, <2>2, <2>3 DEF AreaLength
<1>2. CountHolds(o, s) => l - 12 < 4 * (m - 1)
  <2>1. CountHolds(o, s) => 4 * Len(s) + EntriesSize(o) < 4 * (m - 1)
    BY DEF CountHolds
  <2>2. Len(s) \in Nat
    BY CellsOf, Zenon
  <2>3. EntriesSize(o) \in Nat
    <3>1. Len(o) \in Nat
      BY CellsOf, Zenon
    <3>2. Len(o) \in 0..Len(o)
      BY <3>1
    <3> QED BY <3>2, EndsAre DEF EntriesSize
  <2> HIDE DEF l, m
  <2> QED BY <1>1, <2>1, <2>2, <2>3
<1>3. m \in Nat \ {0}
  BY Bounds
<1>4. q \in Nat /\ l = 12 + 4 * q
  <2> HIDE DEF l
  <2> QED BY <1>1
<1> HIDE DEF l, m, q
<1>5. c \in Nat /\ c <= q + 1 /\ (q + 1 < m => c = q + 1)
  <2>1. c \in 0..(m - 1)
    BY <1>3, <1>4
  <2>2. c <= q + 1
    <3> DEFINE x == q + 1
    <3>1. x \in Nat
      BY <1>4
    <3> HIDE DEF x
    <3>2. x = (x \div m) * m + (x % m) /\ x \div m \in Nat /\ x % m \in 0..(m - 1)
      BY <1>3, <3>1, Division
    <3> DEFINE y == (x \div m) * m
               z == x % m
    <3>3. y \in Nat /\ z \in Nat /\ x = y + z
      <4>1. x \div m \in Nat
        BY <3>2
      <4>2. y \in Nat
        <5> DEFINE d == x \div m
        <5>1. d \in Nat /\ y = d * m
          BY <4>1
        <5> HIDE DEF d, y
        <5> QED BY <1>3, <5>1
      <4> QED BY <1>3, <3>2, <4>2
    <3> HIDE DEF y, z
    <3>4. z <= x
      BY <3>3
    <3> QED BY <3>4 DEF z, x
  <2>3. q + 1 < m => c = q + 1
    <3> SUFFICES ASSUME q + 1 < m
                 PROVE  c = q + 1
      OBVIOUS
    <3> DEFINE x == q + 1
    <3>1. x \in Nat /\ x \in 0..(m - 1) /\ x = 0 * m + x
      BY <1>3, <1>4
    <3> HIDE DEF x
    <3>2. x % m = x
      BY <1>3, <3>1, DivisionUnique
    <3> QED BY <3>2 DEF x
  <2> QED BY <2>1, <2>2, <2>3
<1>6. CountOf(o, s) = IF s = <<>> /\ o = <<>> THEN 0 ELSE c
  BY DEF CountOf, c, q, l, m
<1> HIDE DEF c
<1>7. CASE s = <<>> /\ o = <<>>
  <2>1. SizeOf(o, s) = 0
    BY <1>6, <1>7 DEF SizeOf
  <2> QED BY <1>1, <1>7, <2>1 DEF l
<1>8. CASE ~(s = <<>> /\ o = <<>>)
  <2>1. SizeOf(o, s) = IF c = 0 THEN 0 ELSE (c - 1) * 4 + 12
    BY <1>6, <1>8 DEF SizeOf
  <2>2. /\ SizeOf(o, s) \in Nat /\ SizeOf(o, s) % 4 = 0 /\ SizeOf(o, s) <= l
        /\ SizeOf(o, s) = 0 \/ SizeOf(o, s) >= 12
    BY <1>4, <1>5, <2>1
  <2>3. CountHolds(o, s) => SizeOf(o, s) = l
    BY <1>2, <1>3, <1>4, <1>5, <2>1
  <2> QED BY <1>8, <2>2, <2>3 DEF l
<1> QED BY <1>7, <1>8

LEMMA SizeRead ==
    ASSUME own \in Seq(Attr), shared \in Seq(Attr)
    PROVE  xsize = SizeOf(own, shared) /\ Area = AreaOf(own, shared)
<1> DEFINE l == AreaLength(own, shared)
<1>1. l \in Nat /\ l >= 12
  <2>1. l \in Nat
    BY AreaIs, Zenon
  <2>2. EntryAt(own, shared, 0) <= l /\ EntryAt(own, shared, 0) >= 12 + 4 * Len(shared)
        /\ EntryAt(own, shared, 0) \in Nat
    <3>1. Len(own) \in Nat
      BY CellsOf, Zenon
    <3>2. 0 \in 0..Len(own)
      BY <3>1
    <3> QED BY <3>2, EntriesFollow, Zenon
  <2>3. Len(shared) \in Nat
    BY CellsOf, Zenon
  <2> HIDE DEF l
  <2> QED BY <2>1, <2>2, <2>3
<1>2. AreaSize = IF shared = <<>> /\ own = <<>> THEN 0 ELSE l
  BY Bounds DEF AreaSize, AreaLength
<1> HIDE DEF l
<1>3. XattrCount = CountOf(own, shared)
  BY <1>1, <1>2, Bounds DEF XattrCount, CountOf, l
<1>4. xsize = SizeOf(own, shared)
  BY <1>3, Bounds DEF xsize, SizeOf
<1> QED BY <1>4 DEF Area, AreaOf

-----------------------------------------------------------------------------
(* What Init takes and nothing changes.                                    *)
Images == own \in Inlines /\ shared \in Shareds /\ tail \in Tails /\ inMeta \in BOOLEAN

LEMMA ImagesAre ==
    ASSUME Images
    PROVE  /\ own \in Seq(Attr) /\ shared \in Seq(Attr) /\ tail \in Nat
           /\ Len(own) \in Nat /\ Len(shared) \in Nat
           /\ \A i \in 1..Len(own) : own[i] \in Attr /\ Len(own[i][2]) <= BlockSize
           /\ \A i \in 1..Len(shared) : shared[i] \in Attr
<1>1. own \in Inlines \cup Shareds /\ shared \in Inlines \cup Shareds /\ tail \in Nat
  BY AreaAssumption DEF Images
<1>2. /\ own \in Seq(Attr) /\ Len(own) \in Nat
      /\ \A i \in 1..Len(own) : own[i] \in Attr /\ Len(own[i][2]) <= BlockSize
  BY <1>1, AttributesAre, Zenon
<1>3. /\ shared \in Seq(Attr) /\ Len(shared) \in Nat
      /\ \A i \in 1..Len(shared) : shared[i] \in Attr
  BY <1>1, AttributesAre, Zenon
<1> QED BY <1>1, <1>2, <1>3

(* The sizes the steps of loadXattrs compare with.                         *)
LEMMA SizesAre ==
    ASSUME Images
    PROVE  /\ xsize \in Nat /\ xsize % 4 = 0 /\ xsize <= Len(Area) /\ Len(Area) \in Nat
           /\ xsize = 0 \/ xsize >= 12
           /\ Area \in Seq(Nat) /\ Area = AreaOf(own, shared)
           /\ Len(Area) = AreaLength(own, shared)
           /\ own = <<>> /\ shared = <<>> => xsize = 0
           /\ CountHolds(own, shared) /\ (own # <<>> \/ shared # <<>>) => xsize = Len(Area)
<1>1. own \in Seq(Attr) /\ shared \in Seq(Attr)
  BY ImagesAre, Zenon
<1>2. xsize = SizeOf(own, shared) /\ Area = AreaOf(own, shared)
  BY <1>1, SizeRead, Zenon
<1>3. /\ AreaOf(own, shared) \in Seq(Nat) /\ Len(AreaOf(own, shared)) = AreaLength(own, shared)
      /\ AreaLength(own, shared) \in Nat
  BY <1>1, AreaIs, Zenon
<1>4. /\ SizeOf(own, shared) \in Nat /\ SizeOf(own, shared) % 4 = 0
      /\ SizeOf(own, shared) <= AreaLength(own, shared)
      /\ SizeOf(own, shared) = 0 \/ SizeOf(own, shared) >= 12
      /\ own = <<>> /\ shared = <<>> => SizeOf(own, shared) = 0
      /\ CountHolds(own, shared) /\ (own # <<>> \/ shared # <<>>)
           => SizeOf(own, shared) = AreaLength(own, shared)
  BY <1>1, SizeIs, Zenon
<1> QED BY <1>2, <1>3, <1>4, Zenon

(* What is read behind the inode is the area, as far as it goes.           *)
LEMMA BehindIs ==
    ASSUME Images
    PROVE  /\ Byte(Behind, 4) = Len(shared)
           /\ \A p \in Nat, n \in Nat : p + n <= Len(Area) => Bytes(Behind, p, n) = Bytes(Area, p, n)
<1> DEFINE x == Area
           y == [i \in 1..BlockSize |-> 1]
           b == Concat(x, y)
<1>1. x \in Seq(Nat) /\ Len(x) \in Nat
  BY SizesAre, Zenon
<1>2. y \in Seq(Nat)
  BY Bounds
<1>3. Behind = b
  BY DEF Behind, Concat
<1>4. Len(x) >= 5 /\ x[5] = Len(shared)
  <2>1. own \in Seq(Attr) /\ shared \in Seq(Attr) /\ Len(shared) \in Nat /\ Len(own) \in Nat
    BY ImagesAre, Zenon
  <2>2. AreaOf(own, shared)[5] = Len(shared)
    BY <2>1, AreaIs, Zenon
  <2>3. x = AreaOf(own, shared) /\ Len(x) = AreaLength(own, shared)
    BY SizesAre, Zenon
  <2>4. 0 \in 0..Len(own)
    BY <2>1
  <2> DEFINE e == EntryAt(own, shared, 0)
             l == AreaLength(own, shared)
  <2>5. e \in Nat /\ e >= 12 + 4 * Len(shared) /\ e <= l
    BY <2>1, <2>4, EntriesFollow, Zenon
  <2> HIDE DEF x, e, l
  <2>6. Len(x) = l /\ x[5] = Len(shared)
    BY <2>2, <2>3, Zenon DEF l
  <2> QED BY <1>1, <2>1, <2>5, <2>6
<1> HIDE DEF x, y
<1>5. b \in Seq(Nat) /\ Len(b) = Len(x) + Len(y) /\ Len(y) \in Nat /\ \A i \in 1..Len(x) : b[i] = x[i]
  BY <1>1, <1>2, BytesJoined
<1> HIDE DEF b
<1>6. Byte(b, 4) = Len(shared)
  BY <1>1, <1>4, <1>5 DEF Byte
<1>7. ASSUME NEW p \in Nat, NEW n \in Nat, p + n <= Len(x)
      PROVE  Bytes(b, p, n) = Bytes(x, p, n)
  <2>1. p + n <= Len(b)
    BY <1>1, <1>5, <1>7
  <2>2. Bytes(b, p, n) = [i \in 1..n |-> b[p + i]]
    BY <1>5, <2>1, BytesAre
  <2>3. Bytes(x, p, n) = [i \in 1..n |-> x[p + i]]
    BY <1>1, <1>7, BytesAre
  <2>4. ASSUME NEW i \in 1..n
        PROVE  b[p + i] = x[p + i]
    <3>1. p + i \in 1..Len(x)
      BY <1>1, <1>7
    <3> QED BY <1>5, <3>1, Zenon
  <2>5. [i \in 1..n |-> b[p + i]] = [i \in 1..n |-> x[p + i]]
    BY <2>4
  <2> QED BY <2>2, <2>3, <2>5, Zenon
<1> QED BY <1>3, <1>6, <1>7 DEF x

-----------------------------------------------------------------------------
(* A window: what the area has at a position, up to its size.              *)
Window(p, w) ==
    w \in Seq(Nat) /\ p \in Nat /\ Len(w) \in Nat /\ p + Len(w) <= xsize /\ w = Bytes(Area, p, Len(w))

LEMMA LoadedIs ==
    ASSUME Images, NEW p \in Nat, p <= xsize
    PROVE  /\ Window(p, Loaded(p))
           /\ Len(Loaded(p)) = IF BlockSize <= xsize - p THEN BlockSize ELSE xsize - p
<1> DEFINE x == xsize
           a == Area
           n == IF BlockSize <= x - p THEN BlockSize ELSE x - p
<1>1. x \in Nat /\ x <= Len(a) /\ a \in Seq(Nat) /\ Len(a) \in Nat
  BY SizesAre, Zenon
<1>2. Loaded(p) = Bytes(Behind, p, Min({BlockSize, x - p}))
  BY DEF Loaded
<1> HIDE DEF x, a
<1>3. n \in Nat /\ p + n <= x /\ p + n <= Len(a)
  BY <1>1, Bounds DEF x
<1>4. Min({BlockSize, x - p}) = n
  BY <1>1, Bounds, LeastOfTwo
<1> HIDE DEF n
<1>5. Loaded(p) = Bytes(a, p, n)
  BY <1>2, <1>3, <1>4, BehindIs DEF a
<1>6. Bytes(a, p, n) \in Seq(Nat) /\ Len(Bytes(a, p, n)) = n
  BY <1>1, <1>3, BytesAre
<1> QED BY <1>3, <1>5, <1>6 DEF Window, n, x, a

LEMMA WindowMoves ==
    ASSUME Images, NEW p, NEW w, Window(p, w), NEW n \in 0..Len(w)
    PROVE  /\ Window(p + n, Bytes(w, n, Len(w) - n)) /\ Len(Bytes(w, n, Len(w) - n)) = Len(w) - n
           /\ Bytes(w, 0, n) = Bytes(Area, p, n) /\ Len(Bytes(w, 0, n)) = n
           /\ Bytes(w, 0, n) \in Seq(Nat) /\ n \in Nat
<1> DEFINE x == xsize
           a == Area
           l == Len(w)
<1>1. x \in Nat /\ x <= Len(a) /\ a \in Seq(Nat) /\ Len(a) \in Nat
  BY SizesAre, Zenon
<1>2. w \in Seq(Nat) /\ p \in Nat /\ l \in Nat /\ p + l <= x /\ w = Bytes(a, p, l) /\ n \in 0..l
  BY DEF Window
<1> HIDE DEF x, a, l
<1> DEFINE m == l - n
<1>3. m \in Nat /\ n \in Nat /\ n + m = l /\ n + m <= l /\ 0 + n <= l /\ 0 \in Nat
      /\ p + l <= Len(a) /\ p + n \in Nat /\ (p + n) + m <= Len(a) /\ (p + n) + m <= x
      /\ p + 0 = p
  BY <1>1, <1>2
<1> HIDE DEF m
<1>4. Bytes(w, n, m) = Bytes(a, p + n, m) /\ Bytes(w, 0, n) = Bytes(a, p, n)
  <2>1. Bytes(Bytes(a, p, l), n, m) = Bytes(a, p + n, m)
    BY <1>1, <1>2, <1>3, BytesOfBytes
  <2>2. Bytes(Bytes(a, p, l), 0, n) = Bytes(a, p + 0, n)
    BY <1>1, <1>2, <1>3, BytesOfBytes
  <2> QED BY <1>2, <1>3, <2>1, <2>2
<1>5. Bytes(w, n, m) \in Seq(Nat) /\ Len(Bytes(w, n, m)) = m
  BY <1>2, <1>3, BytesAre DEF l
<1>6. Bytes(w, 0, n) \in Seq(Nat) /\ Len(Bytes(w, 0, n)) = n
  BY <1>2, <1>3, BytesAre DEF l
<1>7. Window(p + n, Bytes(w, n, m))
  BY <1>3, <1>4, <1>5 DEF Window, x, a
<1> QED BY <1>3, <1>4, <1>5, <1>6, <1>7 DEF m, l, a

(* Windows may be empty at any position of the area.                       *)
LEMMA NoWindow ==
    ASSUME Images, NEW p \in Nat, p <= xsize
    PROVE  Window(p, <<>>)
<1>1. Area \in Seq(Nat) /\ xsize \in Nat
  BY SizesAre, Zenon
<1>2. Bytes(Area, p, 0) = <<>>
  BY <1>1, NoBytes, Zenon
<1> HIDE DEF xsize, Area
<1>3. Len(<<>>) = 0 /\ <<>> \in Seq(Nat) /\ p + 0 <= xsize
  BY <1>1
<1> QED BY <1>2, <1>3 DEF Window

-----------------------------------------------------------------------------
(* loadXattrs keeps to the area: its window is what the area has at pos,   *)
(* and the references end where the header says.                           *)
EntryType == [index : Nat, nlen : Nat, vlen : Nat, name : Seq(Nat), value : Seq(Nat)]
WindowInv ==
    /\ Images /\ refs \in 0..Len(shared)
    /\ state \in {"start", "refs", "entry", "name", "value", "done", "error"}
    /\ entry \in EntryType /\ Len(entry.value) <= entry.vlen
    /\ Window(pos, win)
    /\ state = "start" => pos = 0 /\ refs = 0
    /\ state = "refs" => pos = 12 + 4 * refs

LEMMA SameImage ==
    ASSUME UNCHANGED image
    PROVE  /\ own' = own /\ shared' = shared /\ tail' = tail /\ inMeta' = inMeta
           /\ xsize' = xsize /\ Area' = Area
           /\ Images => Images'
<1>1. own' = own /\ shared' = shared /\ tail' = tail /\ inMeta' = inMeta
  BY DEF image
<1>2. Area' = Area
  BY <1>1, Zenon DEF Area
<1>3. AreaSize' = AreaSize
  BY <1>1, Zenon DEF AreaSize
<1>4. XattrCount' = XattrCount
  BY <1>3, Zenon DEF XattrCount
<1>5. xsize' = xsize
  BY <1>4, Zenon DEF xsize
<1>6. Images => Images'
  BY <1>1, Zenon DEF Images
<1> QED BY <1>1, <1>2, <1>5, <1>6

LEMMA WindowThen ==
    ASSUME UNCHANGED image, NEW p, NEW w, Window(p, w), pos' = p, win' = w
    PROVE  Window(pos, win)'
<1>1. xsize' = xsize /\ Area' = Area
  BY SameImage, Zenon
<1> QED BY <1>1, Zenon DEF Window

LEMMA RecordIs ==
    ASSUME NEW b \in Seq(Nat), NEW p \in Nat, p + 4 <= Len(b)
    PROVE  /\ Record(b, p) \in EntryType /\ Record(b, p).value = <<>> /\ Record(b, p).name = <<>>
           /\ Record(b, p).index = b[p + 2] /\ Record(b, p).nlen = b[p + 1]
           /\ Record(b, p).vlen = b[p + 3] + ByteWrap * b[p + 4]
<1>1. p + 1 \in 1..Len(b) /\ p + 2 \in 1..Len(b) /\ p + 3 \in 1..Len(b) /\ p + 4 \in 1..Len(b)
  OBVIOUS
<1>2. b[p + 1] \in Nat /\ b[p + 2] \in Nat /\ b[p + 3] \in Nat /\ b[p + 4] \in Nat
  BY <1>1, CellsOf, Zenon
<1>3. /\ Byte(b, p) = b[p + 1] /\ Byte(b, p + 1) = b[p + 2] /\ Byte(b, p + 2) = b[p + 3]
      /\ Byte(b, p + 3) = b[p + 4]
  BY DEF Byte
<1> DEFINE v == b[p + 3] + ByteWrap * b[p + 4]
           x == b[p + 3]
           y == b[p + 4]
<1>4. v \in Nat
  <2>1. x \in Nat /\ y \in Nat /\ ByteWrap \in Nat
    BY <1>2, Bounds
  <2>2. v = x + ByteWrap * y
    OBVIOUS
  <2> HIDE DEF x, y, v
  <2>3. ByteWrap * y \in Nat
    BY <2>1
  <2> QED BY <2>1, <2>2, <2>3
<1>5. Record(b, p) = [index |-> b[p + 2], nlen |-> b[p + 1], vlen |-> v, name |-> <<>>, value |-> <<>>]
  BY <1>3, Zenon DEF Record
<1> HIDE DEF v
<1>6. <<>> \in Seq(Nat)
  OBVIOUS
<1> QED BY <1>2, <1>4, <1>5, <1>6 DEF EntryType, v

LEMMA WindowInit ==
    ASSUME AreaInit
    PROVE  WindowInv
<1>1. Images /\ state = "start" /\ pos = 0 /\ win = <<>> /\ refs = 0
  BY DEF AreaInit, Images
<1>2. xsize \in Nat
  BY <1>1, SizesAre, Zenon
<1>3. Window(0, <<>>)
  <2> HIDE DEF xsize
  <2>1. 0 \in Nat /\ 0 <= xsize
    BY <1>2
  <2> QED BY <1>1, <2>1, NoWindow, Zenon
<1>4. entry = [index |-> 0, nlen |-> 0, vlen |-> 0, name |-> <<>>, value |-> <<>>]
  BY DEF AreaInit
<1>5. entry \in EntryType /\ Len(entry.value) <= entry.vlen
  BY <1>4 DEF EntryType
<1>6. Len(shared) \in Nat
  BY <1>1, ImagesAre, Zenon
<1>7. refs \in 0..Len(shared)
  BY <1>1, <1>6
<1>8. Window(pos, win)
  BY <1>1, <1>3
<1> QED BY <1>1, <1>5, <1>7, <1>8, Zenon DEF WindowInv

(* A step that ends or goes on with another part and reads nothing.        *)
LEMMA StopKeepsWindow ==
    ASSUME WindowInv, NEW s \in {"entry", "done", "error"}, Stop(s)
    PROVE  WindowInv'
<1>1. /\ state' = s /\ UNCHANGED image /\ pos' = pos /\ win' = win /\ refs' = refs
      /\ entry' = entry
  BY DEF Stop
<1>2. Images' /\ shared' = shared
  BY <1>1, SameImage, Zenon DEF WindowInv
<1>3. Window(pos, win)'
  BY <1>1, WindowThen, Zenon DEF WindowInv
<1>4. refs' \in 0..Len(shared')
  BY <1>1, <1>2 DEF WindowInv
<1>5. entry' \in EntryType /\ Len(entry.value)' <= (entry.vlen)'
  BY <1>1 DEF WindowInv
<1> QED BY <1>1, <1>2, <1>3, <1>4, <1>5 DEF WindowInv

LEMMA StartKeepsWindow ==
    ASSUME WindowInv, Start
    PROVE  WindowInv'
<1>1. CASE xsize = 0
  <2>1. Stop("done")
    BY <1>1 DEF Start
  <2> QED BY <2>1, StopKeepsWindow
<1>2. CASE xsize # 0
  <2> DEFINE l == Loaded(0)
             w == Bytes(l, 12, Len(l) - 12)
  <2>1. /\ win' = w /\ pos' = 12 /\ state' = "refs" /\ UNCHANGED image /\ refs' = refs
        /\ entry' = entry /\ state = "start"
    BY <1>2, Bounds DEF Start
  <2>2. Images /\ refs = 0
    BY <2>1 DEF WindowInv
  <2>3. xsize \in Nat /\ xsize >= 12
    BY <1>2, <2>2, SizesAre, Zenon
  <2>4. Window(0, l) /\ Len(l) = IF BlockSize <= xsize - 0 THEN BlockSize ELSE xsize - 0
    <3> HIDE DEF xsize
    <3>1. 0 \in Nat /\ 0 <= xsize
      BY <2>3
    <3> QED BY <2>2, <3>1, LoadedIs, Zenon
  <2> HIDE DEF l, w, xsize
  <2>5. 12 \in 0..Len(l)
    BY <2>3, <2>4, Bounds
  <2>6. Window(0 + 12, Bytes(l, 12, Len(l) - 12))
    BY <2>2, <2>4, <2>5, WindowMoves, Zenon
  <2>7. Window(12, w)
    BY <2>6 DEF w
  <2>8. Window(pos, win)'
    BY <2>1, <2>7, WindowThen, Zenon
  <2>9. Images' /\ shared' = shared
    BY <2>1, <2>2, SameImage, Zenon
  <2>10. /\ refs' \in 0..Len(shared') /\ pos' = 12 + 4 * refs'
         /\ entry' \in EntryType /\ Len(entry'.value) <= entry'.vlen
    BY <2>1, <2>2, <2>9 DEF WindowInv
  <2> QED BY <2>1, <2>8, <2>9, <2>10 DEF WindowInv
<1> QED BY <1>1, <1>2

(* A reference lies in the area.                                           *)
LEMMA RefInArea ==
    ASSUME RefsCounted, Images, NEW r \in 0..Len(shared), r < Len(shared)
    PROVE  12 + 4 * r \in Nat /\ 12 + 4 * r + 4 <= xsize
<1>1. own \in Seq(Attr) /\ shared \in Seq(Attr) /\ Len(own) \in Nat /\ Len(shared) \in Nat
  BY ImagesAre, Zenon
<1>2. shared # <<>>
  BY <1>1
<1>3. CountHolds(own, shared)
  BY <1>2 DEF RefsCounted, Images
<1>4. xsize = AreaLength(own, shared)
  BY <1>2, <1>3, SizesAre, Zenon
<1> DEFINE x == xsize
           e == EntryAt(own, shared, 0)
<1>5. e \in Nat /\ e >= 12 + 4 * Len(shared) /\ e <= x
  <2>1. 0 \in 0..Len(own)
    BY <1>1
  <2> QED BY <1>1, <1>4, <2>1, EntriesFollow, Zenon
<1>6. x \in Nat
  BY SizesAre, Zenon
<1> HIDE DEF x, e
<1>7. 12 + 4 * r \in Nat /\ 12 + 4 * r + 4 <= x
  BY <1>1, <1>5, <1>6
<1> QED BY <1>7 DEF x

(* The window a step reads from: the one it has, or one loaded at pos.     *)
LEMMA WindowOr ==
    ASSUME Images, NEW p, NEW v, Window(p, v), NEW n \in Nat, NEW w,
           w = IF Len(v) < n THEN Loaded(p) ELSE v
    PROVE  /\ Window(p, w) /\ Len(w) \in Nat /\ p \in Nat /\ xsize \in Nat
           /\ n <= BlockSize /\ p + n <= xsize => n <= Len(w)
<1> DEFINE x == xsize
<1>1. p \in Nat /\ p + Len(v) <= x /\ Len(v) \in Nat
  BY DEF Window
<1>2. x \in Nat
  BY SizesAre, Zenon
<1> HIDE DEF x
<1>3. p <= x
  BY <1>1, <1>2
<1>4. /\ Window(p, Loaded(p))
      /\ Len(Loaded(p)) = IF BlockSize <= x - p THEN BlockSize ELSE x - p
  BY <1>1, <1>3, LoadedIs, Zenon DEF x
<1>5. CASE Len(v) < n
  <2>1. w = Loaded(p)
    BY <1>5
  <2>2. Len(w) \in Nat
    BY <1>1, <1>2, <1>3, <1>4, <2>1, Bounds
  <2>3. n <= BlockSize /\ p + n <= x => n <= Len(w)
    BY <1>1, <1>2, <1>3, <1>4, <2>1, Bounds
  <2> QED BY <1>1, <1>2, <1>4, <2>1, <2>2, <2>3, Zenon DEF x
<1>6. CASE ~(Len(v) < n)
  <2>1. w = v
    BY <1>6
  <2> QED BY <1>1, <1>2, <1>6, <2>1 DEF x
<1> QED BY <1>5, <1>6

(* A step that takes n bytes from the window w and goes on in state s.     *)
LEMMA TakeKeepsWindow ==
    ASSUME WindowInv, UNCHANGED image, NEW w, Window(pos, w), NEW n \in 0..Len(w),
           win' = Bytes(w, n, Len(w) - n), pos' = pos + n
    PROVE  Window(pos, win)' /\ Images' /\ shared' = shared
<1>1. Images
  BY DEF WindowInv
<1>2. Window(pos + n, Bytes(w, n, Len(w) - n))
  BY <1>1, WindowMoves, Zenon
<1>3. Window(pos, win)'
  BY <1>2, WindowThen, Zenon
<1> QED BY <1>1, <1>3, SameImage, Zenon

LEMMA FollowRefKeepsWindow ==
    ASSUME RefsCounted, WindowInv, FollowRef
    PROVE  WindowInv'
<1> DEFINE w == IF Len(win) < 4 THEN Loaded(pos) ELSE win
           off == RefAt(w, 0)
           b == Bytes(Blocks, off, BlockSize)
<1>1. state = "refs" /\ refs < Byte(Behind, 4)
  BY DEF FollowRef
<1>2. CASE Stop("error")
  BY <1>2, StopKeepsWindow
<1>3. CASE ~Stop("error")
  <2>1. /\ win' = Bytes(w, 4, Len(w) - 4) /\ pos' = pos + 4 /\ refs' = refs + 1
        /\ UNCHANGED image /\ state' = state /\ entry' = entry
    BY <1>3 DEF FollowRef
  <2>2. /\ Images /\ Window(pos, win) /\ refs \in 0..Len(shared) /\ pos = 12 + 4 * refs
        /\ entry \in EntryType /\ Len(entry.value) <= entry.vlen
    BY <1>1 DEF WindowInv
  <2>3. Byte(Behind, 4) = Len(shared)
    BY <2>2, BehindIs, Zenon
  <2>4. refs < Len(shared) /\ Len(shared) \in Nat
    <3>1. Len(shared) \in Nat
      BY <2>2, ImagesAre, Zenon
    <3> QED BY <1>1, <2>3, <3>1
  <2>5. pos \in Nat /\ pos + 4 <= xsize
    <3>1. 12 + 4 * refs \in Nat /\ 12 + 4 * refs + 4 <= xsize
      BY <2>2, <2>4, RefInArea, Zenon
    <3> QED BY <2>2, <3>1, Zenon
  <2>6. Window(pos, w) /\ Len(w) \in Nat /\ 4 <= Len(w)
    <3>1. 4 \in Nat /\ 4 <= BlockSize
      BY Bounds
    <3>2. Window(pos, w) /\ Len(w) \in Nat /\ (4 <= BlockSize /\ pos + 4 <= xsize => 4 <= Len(w))
      BY <2>2, <3>1, WindowOr, Zenon
    <3> QED BY <2>5, <3>1, <3>2, Zenon
  <2> HIDE DEF w
  <2>7. 4 \in 0..Len(w)
    BY <2>6
  <2>8. Window(pos, win)' /\ Images' /\ shared' = shared
    BY <2>1, <2>6, <2>7, TakeKeepsWindow, Zenon
  <2>9. refs' \in 0..Len(shared') /\ pos' = 12 + 4 * refs'
    BY <2>1, <2>2, <2>4, <2>8
  <2> QED BY <1>1, <2>1, <2>2, <2>8, <2>9 DEF WindowInv
<1> QED BY <1>2, <1>3

LEMMA NextEntryKeepsWindow ==
    ASSUME WindowInv, NextEntry
    PROVE  WindowInv'
<1> DEFINE w == IF Len(win) < 4 THEN Loaded(pos) ELSE win
<1>1. CASE Stop("error") \/ Stop("entry") \/ Stop("done")
  BY <1>1, StopKeepsWindow
<1>2. CASE ~(Stop("error") \/ Stop("entry") \/ Stop("done"))
  <2>1. /\ ~(Len(w) < 4)
        /\ entry' = Record(w, 0) /\ win' = Bytes(w, 4, Len(w) - 4) /\ pos' = pos + 4
        /\ state' = "name" /\ UNCHANGED image /\ refs' = refs
    BY <1>2, Bounds DEF NextEntry
  <2>2. Images /\ Window(pos, win) /\ refs \in 0..Len(shared)
    BY DEF WindowInv
  <2>3. Window(pos, w) /\ Len(w) \in Nat
    <3>1. 4 \in Nat
      OBVIOUS
    <3> QED BY <2>2, <3>1, WindowOr, Zenon
  <2> HIDE DEF w
  <2>4. 4 \in 0..Len(w) /\ 0 + 4 <= Len(w) /\ w \in Seq(Nat)
    BY <2>1, <2>3 DEF Window
  <2>5. Window(pos, win)' /\ Images' /\ shared' = shared
    BY <2>1, <2>3, <2>4, TakeKeepsWindow, Zenon
  <2>6. Record(w, 0) \in EntryType /\ Record(w, 0).value = <<>>
    BY <2>4, RecordIs
  <2>7. entry' \in EntryType /\ Len(entry'.value) <= entry'.vlen
    BY <2>1, <2>6 DEF EntryType
  <2> QED BY <2>1, <2>2, <2>5, <2>7 DEF WindowInv
<1> QED BY <1>1, <1>2

LEMMA ReadNameKeepsWindow ==
    ASSUME WindowInv, ReadName
    PROVE  WindowInv'
<1> DEFINE n == entry.nlen
           w == IF Len(win) < n THEN Loaded(pos) ELSE win
<1>1. CASE Stop("error")
  BY <1>1, StopKeepsWindow
<1>2. CASE ~Stop("error")
  <2>1. /\ ~(Len(w) < n)
        /\ entry' = [entry EXCEPT !.name = Bytes(w, 0, n)]
        /\ win' = Bytes(w, n, Len(w) - n) /\ pos' = pos + n
        /\ state' = "value" /\ UNCHANGED image /\ refs' = refs
    BY <1>2 DEF ReadName
  <2>2. /\ Images /\ Window(pos, win) /\ refs \in 0..Len(shared)
        /\ entry \in EntryType /\ Len(entry.value) <= entry.vlen
    BY DEF WindowInv
  <2>3. n \in Nat
    BY <2>2 DEF EntryType
  <2> HIDE DEF n
  <2>4. Window(pos, w) /\ Len(w) \in Nat
    BY <2>2, <2>3, WindowOr, Zenon
  <2> HIDE DEF w
  <2>5. n \in 0..Len(w)
    BY <2>1, <2>3, <2>4
  <2>6. Window(pos, win)' /\ Images' /\ shared' = shared
    BY <2>1, <2>4, <2>5, TakeKeepsWindow, Zenon
  <2>7. Bytes(w, 0, n) \in Seq(Nat)
    BY <2>2, <2>4, <2>5, WindowMoves, Zenon
  <2>8. entry' \in EntryType /\ Len(entry'.value) <= entry'.vlen
    BY <2>1, <2>2, <2>7 DEF EntryType
  <2> QED BY <2>1, <2>2, <2>6, <2>8 DEF WindowInv
<1> QED BY <1>1, <1>2

(* How much of the value is taken.                                         *)
LEMMA ValuePart ==
    ASSUME WindowInv, NEW w, w = IF win = <<>> THEN Loaded(pos) ELSE win,
           NEW n, n = Min({Len(w), entry.vlen - Len(entry.value)})
    PROVE  /\ Window(pos, w) /\ Len(w) \in Nat /\ n \in 0..Len(w)
           /\ Len(entry.value) \in Nat /\ n <= entry.vlen - Len(entry.value) /\ entry.vlen \in Nat
           /\ n = Len(w) \/ n = entry.vlen - Len(entry.value)
<1> DEFINE l == Len(entry.value)
           v == entry.vlen
<1>1. Images /\ Window(pos, win) /\ entry \in EntryType /\ l <= v
  BY DEF WindowInv
<1>2. v \in Nat /\ l \in Nat
  BY <1>1 DEF EntryType
<1>3. w = IF Len(win) < 1 THEN Loaded(pos) ELSE win
  <2>1. win \in Seq(Nat)
    BY <1>1 DEF Window
  <2>2. win = <<>> <=> Len(win) < 1
    BY <2>1
  <2> QED BY <2>2
<1> HIDE DEF l, v
<1>4. Window(pos, w) /\ Len(w) \in Nat
  <2>1. 1 \in Nat
    OBVIOUS
  <2> QED BY <1>1, <1>3, <2>1, WindowOr, Zenon
<1>5. n = IF Len(w) <= v - l THEN Len(w) ELSE v - l
  <2>1. n = Min({Len(w), v - l})
    BY DEF l, v
  <2> QED BY <1>2, <1>4, <2>1, LeastOfTwo
<1>6. n \in 0..Len(w) /\ n <= v - l /\ (n = Len(w) \/ n = v - l)
  <2> DEFINE lw == Len(w)
  <2>1. lw \in Nat /\ n = IF lw <= v - l THEN lw ELSE v - l
    BY <1>4, <1>5
  <2>2. v \in Nat /\ l \in Nat /\ l <= v
    BY <1>1, <1>2
  <2> HIDE DEF lw
  <2>3. n \in 0..lw /\ n <= v - l /\ (n = lw \/ n = v - l)
    BY <2>1, <2>2
  <2> QED BY <2>3 DEF lw
<1> QED BY <1>2, <1>4, <1>6 DEF l, v

LEMMA ReadValueKeepsWindow ==
    ASSUME WindowInv, ReadValue
    PROVE  WindowInv'
<1> DEFINE w == IF win = <<>> THEN Loaded(pos) ELSE win
           n == Min({Len(w), entry.vlen - Len(entry.value)})
<1>1. CASE Stop("error")
  BY <1>1, StopKeepsWindow
<1>2. CASE ~Stop("error")
  <2>1. /\ entry' = [entry EXCEPT !.value = @ \o Bytes(w, 0, n)]
        /\ win' = Bytes(w, n, Len(w) - n) /\ pos' = pos + n
        /\ state' = "value" /\ UNCHANGED image /\ refs' = refs
    BY <1>2 DEF ReadValue
  <2>2. Images /\ refs \in 0..Len(shared) /\ entry \in EntryType
    BY DEF WindowInv
  <2>3. /\ Window(pos, w) /\ Len(w) \in Nat /\ n \in 0..Len(w)
        /\ Len(entry.value) \in Nat /\ n <= entry.vlen - Len(entry.value) /\ entry.vlen \in Nat
    BY ValuePart, Zenon
  <2> HIDE DEF w, n
  <2>4. Window(pos, win)' /\ Images' /\ shared' = shared
    BY <2>1, <2>3, TakeKeepsWindow, Zenon
  <2>5. Bytes(w, 0, n) \in Seq(Nat) /\ Len(Bytes(w, 0, n)) = n
    BY <2>2, <2>3, WindowMoves, Zenon
  <2>6. entry' \in EntryType /\ Len(entry'.value) <= entry'.vlen
    <3> DEFINE t == Bytes(w, 0, n)
               u == entry.value
               c == Concat(u, t)
    <3>1. entry' = [entry EXCEPT !.value = c]
      BY <2>1 DEF Concat
    <3>2. u \in Seq(Nat)
      BY <2>2 DEF EntryType
    <3>3. c \in Seq(Nat) /\ Len(c) = Len(u) + Len(t)
      BY <2>5, <3>2, BytesJoined
    <3> HIDE DEF t, c
    <3>4. Len(c) = Len(u) + n
      BY <2>5, <3>3 DEF t
    <3> DEFINE lc == Len(c)
               lu == Len(u)
    <3>5. lc <= entry.vlen
      <4>1. lc = lu + n /\ lu \in Nat /\ n <= entry.vlen - lu /\ entry.vlen \in Nat /\ n \in Int
        BY <2>3, <3>4
      <4> HIDE DEF lc, lu
      <4> QED BY <4>1
    <3>6. entry'.value = c /\ entry'.vlen = entry.vlen /\ entry' \in EntryType
      BY <2>2, <3>1, <3>3 DEF EntryType
    <3> QED BY <3>5, <3>6
  <2> QED BY <2>1, <2>2, <2>4, <2>6 DEF WindowInv
<1> QED BY <1>1, <1>2

(* Skipping the padding keeps the position in the area.                    *)
LEMMA PadIs ==
    ASSUME WindowInv, NEW pad, pad = RoundUp4(pos) - pos
    PROVE  pad \in Nat /\ pos \in Nat /\ pos + pad <= xsize /\ pos + pad = RoundUp4(pos)
<1> DEFINE x == xsize
           r == RoundUp4(pos)
<1>1. Images /\ Window(pos, win)
  BY DEF WindowInv
<1>2. x \in Nat /\ x % 4 = 0
  BY <1>1, SizesAre, Zenon
<1>3. pos \in Nat /\ pos + Len(win) <= x /\ Len(win) \in Nat
  BY <1>1, Zenon DEF Window
<1> HIDE DEF x
<1>4. pos <= x
  BY <1>2, <1>3
<1>5. r \in Nat /\ pos <= r /\ r <= x
  BY <1>2, <1>3, <1>4, Rounded4
<1> HIDE DEF r
<1>6. pad = r - pos
  BY DEF r
<1>7. pad \in Nat /\ pos + pad = r /\ pos + pad <= x
  BY <1>3, <1>5, <1>6
<1> QED BY <1>3, <1>7 DEF x, r

LEMMA EntryDoneTracksWindow ==
    ASSUME WindowInv, EntryDone
    PROVE  WindowInv'
<1> DEFINE pad == RoundUp4(pos) - pos
<1>1. /\ win' = IF Len(win) < pad THEN <<>> ELSE Bytes(win, pad, Len(win) - pad)
      /\ pos' = pos + pad /\ state' = "entry" /\ UNCHANGED image /\ refs' = refs /\ entry' = entry
  BY DEF EntryDone
<1>2. /\ Images /\ refs \in 0..Len(shared) /\ Window(pos, win)
      /\ entry \in EntryType /\ Len(entry.value) <= entry.vlen
  BY DEF WindowInv
<1>3. pad \in Nat /\ pos \in Nat /\ pos + pad <= xsize
  BY PadIs, Zenon
<1> HIDE DEF pad
<1>4. Window(pos, win)' /\ Images' /\ shared' = shared
  <2>1. Images' /\ shared' = shared
    BY <1>1, <1>2, SameImage, Zenon
  <2>2. CASE Len(win) < pad
    <3>1. pos + pad \in Nat
      BY <1>3
    <3>2. Window(pos + pad, <<>>)
      BY <1>2, <1>3, <3>1, NoWindow, Zenon
    <3>3. win' = <<>>
      BY <1>1, <2>2
    <3>4. Window(pos, win)'
      BY <1>1, <3>2, <3>3, WindowThen, Zenon
    <3> QED BY <2>1, <3>4
  <2>3. CASE ~(Len(win) < pad)
    <3>1. pad \in 0..Len(win)
      <4>1. Len(win) \in Nat
        BY <1>2, Zenon DEF Window
      <4> QED BY <1>3, <2>3, <4>1
    <3>2. win' = Bytes(win, pad, Len(win) - pad)
      BY <1>1, <2>3
    <3> QED BY <1>1, <1>2, <3>1, <3>2, TakeKeepsWindow, Zenon
  <2> QED BY <2>2, <2>3
<1> QED BY <1>1, <1>2, <1>4 DEF WindowInv

LEMMA WindowStep ==
    ASSUME RefsCounted, WindowInv, [AreaNext]_areaVars
    PROVE  WindowInv'
<1>1. CASE Start
  BY <1>1, StartKeepsWindow
<1>2. CASE FollowRef
  BY <1>2, FollowRefKeepsWindow
<1>3. CASE NextEntry
  BY <1>3, NextEntryKeepsWindow
<1>4. CASE ReadName
  BY <1>4, ReadNameKeepsWindow
<1>5. CASE ReadValue
  BY <1>5, ReadValueKeepsWindow
<1>6. CASE EntryDone
  BY <1>6, EntryDoneTracksWindow
<1>7. CASE UNCHANGED areaVars
  <2>1. UNCHANGED image /\ UNCHANGED <<state, pos, win, refs, entry>>
    BY <1>7 DEF areaVars, image
  <2>2. Images' /\ shared' = shared /\ Window(pos, win)'
    BY <2>1, SameImage, WindowThen, Zenon DEF WindowInv
  <2> QED BY <2>1, <2>2 DEF WindowInv
<1> QED BY <1>1, <1>2, <1>3, <1>4, <1>5, <1>6, <1>7 DEF AreaNext

(* loadXattrs: its position never leaves the area, it follows no more      *)
(* references than the header has, and it never holds more of a value than *)
(* the record says.                                                        *)
THEOREM AreaTyped ==
    ASSUME RefsCounted
    PROVE  AreaSpec => []AreaTypeOK
<1>1. AreaInit => WindowInv
  BY WindowInit
<1>2. WindowInv /\ [AreaNext]_areaVars => WindowInv'
  BY WindowStep
<1>3. WindowInv => AreaTypeOK
  <2> SUFFICES ASSUME WindowInv
               PROVE  AreaTypeOK
    OBVIOUS
  <2> DEFINE x == xsize
  <2>1. Window(pos, win) /\ Images
    BY DEF WindowInv
  <2>2. win \in Seq(Nat) /\ pos \in Nat /\ pos + Len(win) <= x /\ Len(win) \in Nat
    BY <2>1, Zenon DEF Window
  <2>3. x \in Nat
    BY <2>1, SizesAre, Zenon
  <2> HIDE DEF x
  <2>4. pos \in 0..x
    BY <2>2, <2>3
  <2> QED BY <2>2, <2>4 DEF AreaTypeOK, WindowInv, x
<1> QED BY <1>1, <1>2, <1>3, PTL DEF AreaSpec

(* loadXattrs: after any number of reloads, references, names, parts of    *)
(* values and skipped padding, xb is what the area has at pos.             *)
THEOREM XattrWindow ==
    ASSUME RefsCounted
    PROVE  AreaSpec => []WindowTracks
<1>1. AreaInit => WindowInv
  BY WindowInit
<1>2. WindowInv /\ [AreaNext]_areaVars => WindowInv'
  BY WindowStep
<1>3. WindowInv => WindowTracks
  BY DEF WindowInv, Window, WindowTracks
<1> QED BY <1>1, <1>2, <1>3, PTL DEF AreaSpec

-----------------------------------------------------------------------------
(* Setting attributes in order.  The function exists, so each of its       *)
(* values is made from the one before.                                     *)
LEMMA SetUpToIs ==
    ASSUME NEW f, NEW list, Len(list) \in Nat
    PROVE  /\ SetUpTo(f, list)[0] = f
           /\ \A k \in 1..Len(list) :
                SetUpTo(f, list)[k] = Set(SetUpTo(f, list)[k - 1], Name(list[k]), list[k][3])
<1> DEFINE N == Len(list)
           Grown(h, k) == Set(h[k - 1], Name(list[k]), list[k][3])
           Turn(n, h) == [k \in 0..n |-> IF k = 0 THEN f ELSE Grown(h, k)]
           T == {n \in 0..N : \E h : h = Turn(n, h)}
<1>1. 0 \in T
  <2> DEFINE z == [k \in 0..0 |-> f]
  <2>1. z = Turn(0, z)
    <3>1. \A k \in 0..0 : k = 0
      OBVIOUS
    <3> HIDE DEF Grown
    <3> QED BY <3>1
  <2> HIDE DEF z, Turn
  <2> QED BY <2>1
<1>2. ASSUME NEW n \in 0..N, n \in T, n < N
      PROVE  n + 1 \in T
  <2>1. PICK h : h = Turn(n, h)
    BY <1>2
  <2> DEFINE e == [k \in 0..(n + 1) |-> IF k <= n THEN h[k] ELSE Grown(h, k)]
  <2>2. ASSUME NEW k \in 0..n
        PROVE  e[k] = h[k]
    <3>1. k \in 0..(n + 1) /\ k <= n
      OBVIOUS
    <3> HIDE DEF Grown, Turn
    <3> QED BY <3>1
  <2>3. ASSUME NEW k \in 0..(n + 1)
        PROVE  e[k] = IF k = 0 THEN f ELSE Grown(e, k)
    <3>1. CASE k = 0
      <4>1. 0 \in 0..n
        OBVIOUS
      <4>2. h[0] = f
        <5> HIDE DEF Grown
        <5> QED BY <2>1, <4>1
      <4> HIDE DEF e, Grown
      <4> QED BY <2>2, <3>1, <4>1, <4>2
    <3>2. CASE k # 0
      <4>1. k - 1 \in 0..n /\ e[k - 1] = h[k - 1]
        <5>1. k - 1 \in 0..n
          BY <3>2
        <5> HIDE DEF e
        <5> QED BY <2>2, <5>1
      <4>2. Grown(e, k) = Grown(h, k)
        <5> HIDE DEF e
        <5> QED BY <4>1
      <4>3. e[k] = Grown(h, k)
        <5>1. CASE k <= n
          <6>1. k \in 0..n
            BY <5>1
          <6>2. h[k] = Grown(h, k)
            <7> HIDE DEF Grown
            <7> QED BY <2>1, <3>2, <6>1
          <6> HIDE DEF e, Grown
          <6> QED BY <2>2, <6>1, <6>2
        <5>2. CASE ~(k <= n)
          <6> HIDE DEF Grown
          <6> QED BY <5>2
        <5> QED BY <5>1, <5>2
      <4> HIDE DEF e, Grown
      <4> QED BY <3>2, <4>2, <4>3
    <3> QED BY <3>1, <3>2
  <2>4. e = Turn(n + 1, e)
    <3>1. e = [k \in 0..(n + 1) |-> e[k]]
      OBVIOUS
    <3> HIDE DEF e, Grown
    <3> QED BY <2>3, <3>1
  <2> HIDE DEF e, Turn
  <2>5. n + 1 \in 0..N
    BY <1>2
  <2> QED BY <2>4, <2>5
<1>3. PICK h : h = Turn(N, h)
  <2>1. 0..N \subseteq T
    <3> HIDE DEF T, N
    <3> QED BY <1>1, <1>2, BoundedInduction DEF N
  <2>2. N \in 0..N
    OBVIOUS
  <2> HIDE DEF Turn
  <2> QED BY <2>1, <2>2
<1> DEFINE s == CHOOSE g : g = Turn(N, g)
<1>4. s = Turn(N, s)
  <2> HIDE DEF Turn
  <2> QED BY <1>3
<1>5. SetUpTo(f, list) = s
  BY DEF SetUpTo
<1> HIDE DEF s
<1>6. \A k \in 0..N : s[k] = IF k = 0 THEN f ELSE Grown(s, k)
  <2> HIDE DEF Grown
  <2> QED BY <1>4
<1>7. s[0] = f
  <2>1. 0 \in 0..N
    OBVIOUS
  <2> QED BY <1>6, <2>1
<1>8. ASSUME NEW k \in 1..N
      PROVE  s[k] = Grown(s, k)
  <2>1. k \in 0..N /\ k # 0
    OBVIOUS
  <2> HIDE DEF Grown
  <2> QED BY <1>6, <2>1
<1> QED BY <1>5, <1>7, <1>8

-----------------------------------------------------------------------------
(* Reading an entry back.                                                  *)
FieldsFit(a) == Len(a[2]) < ByteWrap /\ Len(a[3]) < ByteWrap * ByteWrap

LEMMA AttrParts ==
    ASSUME NEW a \in Attr
    PROVE  /\ a[1] \in Nat /\ a[2] \in Seq(Nat) /\ a[3] \in Seq(Nat)
           /\ Len(a[2]) \in Nat /\ Len(a[3]) \in Nat /\ a = <<a[1], a[2], a[3]>>
<1>1. a[1] \in Nat /\ a[2] \in Seq(Nat) /\ a[3] \in Seq(Nat) /\ a = <<a[1], a[2], a[3]>>
  BY DEF Attr
<1> QED BY <1>1, CellsOf, Zenon

LEMMA TwoBytes ==
    ASSUME NEW n \in Nat
    PROVE  /\ (n % ByteWrap) + ByteWrap * (n \div ByteWrap) = n
           /\ n \div ByteWrap \in Nat /\ n % ByteWrap \in Nat
           /\ n < ByteWrap => n % ByteWrap = n
           /\ n < ByteWrap * ByteWrap => (n \div ByteWrap) % ByteWrap = n \div ByteWrap
<1> DEFINE q == n \div ByteWrap
           r == n % ByteWrap
<1>1. ByteWrap \in Nat \ {0}
  BY Bounds
<1>2. n = q * ByteWrap + r /\ q \in Nat /\ r \in 0..(ByteWrap - 1)
  BY <1>1, Division, Zenon
<1>3. ASSUME NEW m \in Nat, m < ByteWrap
      PROVE  m % ByteWrap = m
  <2>1. m \in 0..(ByteWrap - 1) /\ m = 0 * ByteWrap + m
    BY <1>1, <1>3
  <2> QED BY <1>1, <2>1, DivisionUnique
<1> HIDE DEF q, r
<1>4. q * ByteWrap \in Nat /\ ByteWrap * q = q * ByteWrap
  BY <1>1, <1>2
<1>5. r + ByteWrap * q = n /\ r \in Nat
  <2> DEFINE x == q * ByteWrap
             y == ByteWrap * q
  <2>1. n = x + r /\ x \in Nat /\ y = x /\ r \in Nat
    BY <1>1, <1>2, <1>4
  <2> HIDE DEF x, y
  <2>2. r + y = n
    BY <2>1
  <2> QED BY <2>1, <2>2 DEF y
<1>6. n < ByteWrap * ByteWrap => q < ByteWrap
  <2> SUFFICES ASSUME n < ByteWrap * ByteWrap, q >= ByteWrap
               PROVE  FALSE
    BY <1>1, <1>2
  <2>1. q * ByteWrap >= ByteWrap * ByteWrap
    BY <1>1, <1>2
  <2> QED BY <1>1, <1>2, <1>4, <2>1
<1> QED BY <1>2, <1>3, <1>5, <1>6 DEF q, r

LEMMA RecordRead ==
    ASSUME NEW a \in Attr, FieldsFit(a), NEW b \in Seq(Nat), NEW p \in Nat, p + 4 <= Len(b),
           \A j \in 1..4 : b[p + j] = Entry(a)[j]
    PROVE  /\ Record(b, p) = [index |-> a[1], nlen |-> Len(a[2]), vlen |-> Len(a[3]),
                              name |-> <<>>, value |-> <<>>]
           /\ Record(b, p).nlen = Len(a[2]) /\ Record(b, p).vlen = Len(a[3])
           /\ Record(b, p).index = a[1]
<1> DEFINE n == Len(a[2])
           v == Len(a[3])
           r == EntryRecord(a)
<1>1. n \in Nat /\ v \in Nat
  BY AttrParts, Zenon
<1>2. n < ByteWrap /\ v < ByteWrap * ByteWrap
  BY DEF FieldsFit
<1>3. r = <<n % ByteWrap, a[1], v % ByteWrap, (v \div ByteWrap) % ByteWrap>>
  BY DEF EntryRecord
<1>4. \A j \in 1..4 : Entry(a)[j] = r[j]
  BY EntryIs, Zenon
<1> HIDE DEF n, v, r
<1>5. n % ByteWrap = n
  BY <1>1, <1>2, TwoBytes
<1>6. (v \div ByteWrap) % ByteWrap = v \div ByteWrap /\ (v % ByteWrap) + ByteWrap * (v \div ByteWrap) = v
  BY <1>1, <1>2, TwoBytes
<1>7. r = <<n, a[1], v % ByteWrap, v \div ByteWrap>>
  BY <1>3, <1>5, <1>6, Zenon
<1> DEFINE lo == v % ByteWrap
           hi == v \div ByteWrap
<1>8. lo + ByteWrap * hi = v
  BY <1>6
<1>9. r[1] = n /\ r[2] = a[1] /\ r[3] = lo /\ r[4] = hi
  <2>1. r = <<n, a[1], lo, hi>>
    BY <1>7
  <2> HIDE DEF lo, hi
  <2> QED BY <2>1
<1> HIDE DEF lo, hi
<1>10. b[p + 1] = n /\ b[p + 2] = a[1] /\ b[p + 3] = lo /\ b[p + 4] = hi
  <2>1. 1 \in 1..4 /\ 2 \in 1..4 /\ 3 \in 1..4 /\ 4 \in 1..4
    OBVIOUS
  <2> QED BY <1>4, <1>9, <2>1, Zenon
<1>11. /\ Byte(b, p) = n /\ Byte(b, p + 1) = a[1] /\ Byte(b, p + 2) = lo
       /\ Byte(b, p + 3) = hi
  <2>1. (p + 1) + 1 = p + 2 /\ (p + 2) + 1 = p + 3 /\ (p + 3) + 1 = p + 4
    OBVIOUS
  <2> QED BY <1>10, <2>1 DEF Byte
<1>12. Record(b, p) = [index |-> a[1], nlen |-> n, vlen |-> v, name |-> <<>>, value |-> <<>>]
  BY <1>8, <1>11, Zenon DEF Record
<1> QED BY <1>12 DEF n, v

(* An entry fits exactly if its bytes do, and is then read as it was set.  *)
LEMMA FitsIs ==
    ASSUME NEW a \in Attr, FieldsFit(a), NEW b \in Seq(Nat), NEW p \in Nat,
           \A j \in 1..LengthOf(a) : p + j <= Len(b) => b[p + j] = Entry(a)[j]
    PROVE  Fits(b, p) <=> p + LengthOf(a) <= Len(b)
<1> DEFINE n == Len(a[2])
           v == Len(a[3])
           l == LengthOf(a)
           lb == Len(b)
<1>1. n \in Nat /\ v \in Nat /\ lb \in Nat /\ l \in Nat /\ l >= 4
  <2>1. n \in Nat /\ v \in Nat
    BY AttrParts, Zenon
  <2>2. lb \in Nat
    OBVIOUS
  <2> QED BY <2>1, <2>2, EntryIs, Zenon
<1>2. l = 4 + n + v
  BY Bounds DEF LengthOf
<1>3. Fits(b, p) <=> p + 4 <= lb /\ p + 4 + Record(b, p).nlen + Record(b, p).vlen <= lb
  BY Bounds DEF Fits
<1>4. CASE p + 4 <= lb
  <2>1. \A j \in 1..4 : b[p + j] = Entry(a)[j]
    <3> HIDE DEF l
    <3>1. \A j \in 1..4 : j \in 1..l /\ p + j <= lb
      BY <1>1, <1>4
    <3> QED BY <3>1 DEF l
  <2>2. Record(b, p).nlen = n /\ Record(b, p).vlen = v
    BY <1>4, <2>1, RecordRead
  <2> HIDE DEF n, v, l, lb
  <2>3. Fits(b, p) <=> p + 4 + n + v <= lb
    BY <1>3, <1>4, <2>2, Zenon
  <2>4. p + l = p + 4 + n + v
    BY <1>1, <1>2
  <2>5. Fits(b, p) <=> p + l <= lb
    BY <2>3, <2>4
  <2> QED BY <2>5 DEF l, lb
<1>5. CASE ~(p + 4 <= lb)
  <2>1. ~Fits(b, p)
    BY <1>3, <1>5
  <2> HIDE DEF n, v, l, lb
  <2>2. ~(p + l <= lb)
    BY <1>1, <1>5
  <2> QED BY <2>1, <2>2 DEF l, lb
<1> QED BY <1>4, <1>5

LEMMA EntryRead ==
    ASSUME NEW a \in Attr, FieldsFit(a), NEW b \in Seq(Nat), NEW p \in Nat,
           p + LengthOf(a) <= Len(b),
           \A j \in 1..LengthOf(a) : b[p + j] = Entry(a)[j]
    PROVE  Decoded(b, p) = a /\ After(b, p) = RoundUp4(p + LengthOf(a))
<1> DEFINE x == a[2]
           y == a[3]
           n == Len(a[2])
           v == Len(a[3])
           l == LengthOf(a)
           lb == Len(b)
<1>1. n \in Nat /\ v \in Nat /\ lb \in Nat /\ l \in Nat /\ l >= 4 /\ x \in Seq(Nat) /\ y \in Seq(Nat)
  <2>1. n \in Nat /\ v \in Nat /\ x \in Seq(Nat) /\ y \in Seq(Nat)
    BY AttrParts, Zenon
  <2>2. lb \in Nat
    OBVIOUS
  <2> QED BY <2>1, <2>2, EntryIs, Zenon
<1>2. l = 4 + n + v
  BY Bounds DEF LengthOf
<1>3. p + l <= lb /\ \A j \in 1..l : b[p + j] = Entry(a)[j]
  OBVIOUS
<1>4. /\ \A j \in 1..n : Entry(a)[4 + j] = x[j]
      /\ \A j \in 1..v : Entry(a)[4 + n + j] = y[j]
  BY EntryIs, Zenon
<1>5. n = Len(x) /\ v = Len(y)
  OBVIOUS
<1>6. Record(b, p).nlen = n /\ Record(b, p).vlen = v /\ Record(b, p).index = a[1]
  <2>1. p + 4 <= Len(b) /\ \A j \in 1..4 : j \in 1..l
    <3> HIDE DEF l, lb
    <3> QED BY <1>1, <1>3 DEF lb
  <2>2. \A j \in 1..4 : b[p + j] = Entry(a)[j]
    <3> HIDE DEF l
    <3> QED BY <1>3, <2>1, Zenon
  <2> QED BY <2>1, <2>2, RecordRead, Zenon
<1> HIDE DEF n, v, l, lb, x, y
<1>7. Bytes(b, p + 4, n) = x
  <2>1. p + 4 \in Nat /\ (p + 4) + n <= lb
    BY <1>1, <1>2, <1>3
  <2>2. /\ Bytes(b, p + 4, n) \in Seq(Nat) /\ Len(Bytes(b, p + 4, n)) = n
        /\ \A i \in 1..n : Bytes(b, p + 4, n)[i] = b[(p + 4) + i]
    BY <1>1, <2>1, BytesAre DEF lb
  <2>3. ASSUME NEW i \in 1..n
        PROVE  b[(p + 4) + i] = x[i]
    <3>1. 4 + i \in 1..l /\ p + (4 + i) = (p + 4) + i
      BY <1>1, <1>2
    <3> QED BY <1>3, <1>4, <3>1
  <2>4. \A i \in 1..n : Bytes(b, p + 4, n)[i] = x[i]
    BY <2>2, <2>3
  <2> QED BY <1>1, <1>5, <2>2, <2>4, SameBytes
<1>8. Bytes(b, p + 4 + n, v) = y
  <2> DEFINE q == p + 4 + n
  <2>1. q \in Nat /\ q + v <= lb
    BY <1>1, <1>2, <1>3
  <2>2. \A i \in 1..v : 4 + n + i \in 1..l /\ p + (4 + n + i) = q + i
    BY <1>1, <1>2
  <2> HIDE DEF q
  <2>3. /\ Bytes(b, q, v) \in Seq(Nat) /\ Len(Bytes(b, q, v)) = v
        /\ \A i \in 1..v : Bytes(b, q, v)[i] = b[q + i]
    BY <1>1, <2>1, BytesAre DEF lb
  <2>4. ASSUME NEW i \in 1..v
        PROVE  b[q + i] = y[i]
    BY <1>3, <1>4, <2>2
  <2>5. \A i \in 1..v : Bytes(b, q, v)[i] = y[i]
    BY <2>3, <2>4
  <2>6. Bytes(b, q, v) = y
    BY <1>1, <1>5, <2>3, <2>5, SameBytes
  <2> QED BY <2>6 DEF q
<1>9. Decoded(b, p) = <<a[1], x, y>>
  <2>1. Decoded(b, p) = <<Record(b, p).index, Bytes(b, p + 4, Record(b, p).nlen),
                          Bytes(b, p + 4 + Record(b, p).nlen, Record(b, p).vlen)>>
    BY Bounds DEF Decoded
  <2> QED BY <1>6, <1>7, <1>8, <2>1, Zenon
<1>10. a = <<a[1], x, y>>
  BY AttrParts, Zenon DEF x, y
<1>11. After(b, p) = RoundUp4(p + l)
  <2>1. After(b, p) = RoundUp4(p + 4 + Record(b, p).nlen + Record(b, p).vlen)
    BY Bounds DEF After
  <2>2. p + 4 + n + v = p + l
    BY <1>1, <1>2
  <2> QED BY <1>6, <2>1, <2>2, Zenon
<1> QED BY <1>9, <1>10, <1>11, Zenon DEF l

(* A reference is read as the place it stands for.                         *)
LEMMA RefRead ==
    ASSUME NEW o \in Nat, o % 4 = 0, NEW b \in Seq(Nat), NEW p \in Nat,
           \A j \in 1..4 : b[p + j] = Ref(o)[j]
    PROVE  RefAt(b, p) = o
<1> DEFINE q == o \div 4
<1>1. q \in Nat /\ 4 * q = o
  OBVIOUS
<1>2. Ref(o) = <<q % ByteWrap, q \div ByteWrap, 0, 0>>
  BY DEF Ref
<1> HIDE DEF q
<1> DEFINE lo == q % ByteWrap
           hi == q \div ByteWrap
<1>3. lo + ByteWrap * hi = q
  BY <1>1, TwoBytes
<1>4. b[p + 1] = lo /\ b[p + 2] = hi
  <2>1. Ref(o) = <<lo, hi, 0, 0>>
    BY <1>2
  <2> HIDE DEF lo, hi
  <2>2. 1 \in 1..4 /\ 2 \in 1..4 /\ Ref(o)[1] = lo /\ Ref(o)[2] = hi
    BY <2>1
  <2> QED BY <2>2, Zenon
<1> HIDE DEF lo, hi
<1>5. RefAt(b, p) = 4 * (b[p + 1] + ByteWrap * b[(p + 1) + 1])
  BY DEF RefAt, Byte
<1>6. (p + 1) + 1 = p + 2
  OBVIOUS
<1>7. RefAt(b, p) = 4 * (lo + ByteWrap * hi)
  BY <1>4, <1>5, <1>6, Zenon
<1> QED BY <1>1, <1>3, <1>7

-----------------------------------------------------------------------------
(* What the fields hold of the inode at hand.                              *)
LEMMA FieldsAre ==
    ASSUME FieldsHold, Images
    PROVE  /\ CountHolds(own, shared)
           /\ \A i \in 1..Len(own) : FieldsFit(own[i])
           /\ \A i \in 1..Len(shared) : FieldsFit(shared[i])
           /\ \A i, j \in 1..Len(shared) : Name(shared[i]) = Name(shared[j]) => i = j
<1>1. own \in Inlines /\ shared \in Shareds
  BY DEF Images
<1>2. DOMAIN own = 1..Len(own) /\ DOMAIN shared = 1..Len(shared)
  <2>1. own \in Seq(Attr) /\ shared \in Seq(Attr)
    BY ImagesAre, Zenon
  <2> QED BY <2>1, CellsOf, Zenon
<1>3. CountHolds(own, shared)
  BY <1>1, Zenon DEF FieldsHold
<1>4. \A i \in DOMAIN own : Len(own[i][2]) < ByteWrap /\ Len(own[i][3]) < ByteWrap * ByteWrap
  <2>1. own \in Inlines \cup Shareds
    BY <1>1
  <2> QED BY <2>1, Zenon DEF FieldsHold
<1>5. \A i \in DOMAIN shared : Len(shared[i][2]) < ByteWrap /\ Len(shared[i][3]) < ByteWrap * ByteWrap
  <2>1. shared \in Inlines \cup Shareds
    BY <1>1
  <2> QED BY <2>1, Zenon DEF FieldsHold
<1>6. \A i, j \in DOMAIN shared : Name(shared[i]) = Name(shared[j]) => i = j
  BY <1>1, Zenon DEF FieldsHold
<1> QED BY <1>2, <1>3, <1>4, <1>5, <1>6, Zenon DEF FieldsFit

LEMMA FieldsCount ==
    ASSUME FieldsHold
    PROVE  RefsCounted
  BY DEF FieldsHold, RefsCounted

(* Where an entry of the inode is, and its bytes.                          *)
LEMMA OwnEntry ==
    ASSUME FieldsHold, Images, NEW k \in 1..Len(own)
    PROVE  /\ own[k] \in Attr /\ FieldsFit(own[k]) /\ Len(own[k][2]) <= BlockSize
           /\ EntryAt(own, shared, k - 1) \in Nat /\ EntryAt(own, shared, k - 1) % 4 = 0
           /\ LengthOf(own[k]) \in Nat /\ LengthOf(own[k]) >= 4
           /\ LengthOf(own[k]) = 4 + Len(own[k][2]) + Len(own[k][3])
           /\ EntryAt(own, shared, k - 1) + LengthOf(own[k]) <= EntryAt(own, shared, k)
           /\ EntryAt(own, shared, k) = RoundUp4(EntryAt(own, shared, k - 1) + LengthOf(own[k]))
           /\ EntryAt(own, shared, k) \in Nat /\ EntryAt(own, shared, k) <= xsize
           /\ xsize \in Nat /\ xsize = Len(Area)
           /\ \A j \in 1..LengthOf(own[k]) :
                Area[EntryAt(own, shared, k - 1) + j] = Entry(own[k])[j]
<1> DEFINE a == own[k]
           e == EntryAt(own, shared, k - 1)
           f == EntryAt(own, shared, k)
           l == LengthOf(a)
           z == EntrySizeOf(a)
           x == xsize
<1>1. own \in Seq(Attr) /\ shared \in Seq(Attr) /\ Len(own) \in Nat /\ a \in Attr /\ Len(a[2]) <= BlockSize
  BY ImagesAre, Zenon
<1>2. FieldsFit(a) /\ CountHolds(own, shared)
  BY FieldsAre, Zenon
<1>3. k \in 0..Len(own) /\ k - 1 \in 0..Len(own)
  BY <1>1
<1>4. e \in Nat /\ e % 4 = 0 /\ f \in Nat /\ f <= AreaLength(own, shared)
  BY <1>1, <1>3, EntriesFollow, Zenon
<1>5. f = e + z
  BY <1>1, EntriesFollow, Zenon
<1>6. /\ l \in Nat /\ l >= 4 /\ z = RoundUp4(l) /\ z \in Nat /\ z >= l
  BY <1>1, EntryIs, Zenon
<1>7. own # <<>>
  BY <1>1
<1>8. x = Len(Area) /\ x = AreaLength(own, shared) /\ x \in Nat
  BY <1>2, <1>7, SizesAre, Zenon
<1>9. \A j \in 1..z : Area[e + j] = Entry(a)[j]
  <2>1. Area = AreaOf(own, shared)
    BY SizesAre, Zenon
  <2> QED BY <1>1, <2>1, AreaIs, Zenon
<1>10. l = 4 + Len(a[2]) + Len(a[3])
  BY Bounds DEF LengthOf
<1> HIDE DEF a, e, f, l, z, x
<1>11. f = RoundUp4(e + l) /\ e + l <= f
  <2>1. RoundUp4(e + l) = e + RoundUp4(l)
    BY <1>4, <1>6, Rounded4
  <2> QED BY <1>4, <1>5, <1>6, <2>1
<1>12. \A j \in 1..l : Area[e + j] = Entry(a)[j]
  <2>1. \A j \in 1..l : j \in 1..z
    BY <1>6
  <2> QED BY <1>9, <2>1, Zenon
<1>13. f <= x
  BY <1>4, <1>8
<1> QED BY <1>1, <1>2, <1>4, <1>6, <1>8, <1>10, <1>11, <1>12, <1>13, Zenon DEF a, e, f, l, x

(* The cells of a window.                                                  *)
LEMMA WindowCells ==
    ASSUME Images, NEW p, NEW w, Window(p, w)
    PROVE  \A j \in 1..Len(w) : w[j] = Area[p + j]
<1>1. w \in Seq(Nat) /\ p \in Nat /\ Len(w) \in Nat /\ p + Len(w) <= xsize /\ w = Bytes(Area, p, Len(w))
  BY Zenon DEF Window
<1>2. Area \in Seq(Nat) /\ xsize \in Nat /\ xsize <= Len(Area) /\ Len(Area) \in Nat
  BY SizesAre, Zenon
<1> HIDE DEF xsize, Area
<1>3. p + Len(w) <= Len(Area)
  BY <1>1, <1>2
<1>4. \A i \in 1..Len(w) : Bytes(Area, p, Len(w))[i] = Area[p + i]
  BY <1>1, <1>2, <1>3, BytesAre
<1> QED BY <1>1, <1>4, Zenon

LEMMA AllBytes ==
    ASSUME NEW b \in Seq(Nat)
    PROVE  Bytes(b, 0, Len(b)) = b
<1>1. Len(b) \in Nat /\ 0 \in Nat /\ 0 + Len(b) <= Len(b)
  OBVIOUS
<1>2. /\ Bytes(b, 0, Len(b)) \in Seq(Nat) /\ Len(Bytes(b, 0, Len(b))) = Len(b)
      /\ \A i \in 1..Len(b) : Bytes(b, 0, Len(b))[i] = b[0 + i]
  BY <1>1, BytesAre
<1>3. \A i \in 1..Len(b) : Bytes(b, 0, Len(b))[i] = b[i]
  BY <1>1, <1>2
<1> QED BY <1>1, <1>2, <1>3, SameBytes

(* The first l bytes and n more.                                           *)
LEMMA MoreBytes ==
    ASSUME NEW b \in Seq(Nat), NEW l \in Nat, NEW n \in Nat, l + n <= Len(b),
           NEW t \in Seq(Nat), Len(t) = n, \A i \in 1..n : t[i] = b[l + i]
    PROVE  Concat(Bytes(b, 0, l), t) = Bytes(b, 0, l + n)
<1> DEFINE u == Bytes(b, 0, l)
           c == Concat(u, t)
           m == l + n
           d == Bytes(b, 0, m)
<1>1. m \in Nat /\ 0 \in Nat /\ 0 + l <= Len(b) /\ 0 + m <= Len(b)
  OBVIOUS
<1> HIDE DEF m
<1>2. u \in Seq(Nat) /\ Len(u) = l /\ \A i \in 1..l : u[i] = b[0 + i]
  BY <1>1, BytesAre
<1>3. d \in Seq(Nat) /\ Len(d) = m /\ \A i \in 1..m : d[i] = b[0 + i]
  BY <1>1, BytesAre
<1> HIDE DEF u, d
<1>4. /\ c \in Seq(Nat) /\ Len(c) = Len(u) + Len(t)
      /\ \A i \in 1..Len(u) : c[i] = u[i]
      /\ \A j \in 1..Len(t) : c[Len(u) + j] = t[j]
  BY <1>2, BytesJoined
<1> HIDE DEF c
<1>5. /\ Len(c) = m
      /\ \A i \in 1..l : c[i] = u[i]
      /\ \A j \in 1..n : c[l + j] = t[j]
  BY <1>2, <1>4 DEF m
<1>6. ASSUME NEW i \in 1..m
      PROVE  c[i] = d[i]
  <2>0. 0 + i = i
    BY <1>1
  <2>1. d[i] = b[i]
    BY <1>3, <2>0, Zenon
  <2>2. CASE i <= l
    <3>1. i \in 1..l
      BY <1>1, <2>2
    <3> QED BY <1>2, <1>5, <2>0, <2>1, <3>1, Zenon
  <2>3. CASE ~(i <= l)
    <3>1. i - l \in 1..n /\ l + (i - l) = i
      BY <2>3 DEF m
    <3>2. c[l + (i - l)] = t[i - l] /\ t[i - l] = b[l + (i - l)]
      BY <1>5, <3>1, Zenon
    <3> QED BY <2>1, <3>1, <3>2
  <2> QED BY <2>2, <2>3
<1>7. c = d
  BY <1>1, <1>3, <1>4, <1>5, <1>6, SameBytes
<1> QED BY <1>7 DEF c, d, u, m

-----------------------------------------------------------------------------
(* The shared attributes in their blocks.                                  *)
LEMMA BlocksAre ==
    ASSUME Images
    PROVE  /\ Blocks \in Seq(Nat) /\ Len(Blocks) \in Nat
           /\ \A k \in 1..Len(shared) :
                /\ Place(shared, k) \in Nat /\ Place(shared, k) % 4 = 0
                /\ LengthOf(shared[k]) \in Nat
                /\ Place(shared, k) + LengthOf(shared[k]) <= Len(Blocks)
                /\ \A j \in 1..LengthOf(shared[k]) :
                     Blocks[Place(shared, k) + j] = Entry(shared[k])[j]
<1> DEFINE x == Entries(shared)
           y == Zeros(tail)
           b == Concat(x, y)
           total == EntriesSize(shared)
<1>1. /\ shared \in Seq(Attr) /\ Len(shared) \in Nat /\ tail \in Nat
      /\ \A i \in 1..Len(shared) : shared[i] \in Attr
  BY ImagesAre, Zenon
<1>2. /\ x \in Seq(Nat) /\ Len(x) = total
      /\ \A k \in 1..Len(shared) : \A j \in 1..EntrySizeOf(shared[k]) :
            /\ Ends(shared)[k - 1] + j \in 1..total
            /\ x[Ends(shared)[k - 1] + j] = Entry(shared[k])[j]
  BY <1>1, EntriesAre, Zenon
<1>3. y \in Seq(Nat) /\ Len(y) = tail
  BY <1>1 DEF Zeros
<1>4. Blocks = b
  BY DEF Blocks, Concat
<1>5. total \in Nat
  <2>1. Len(shared) \in 0..Len(shared)
    BY <1>1
  <2> QED BY <1>1, <2>1, EndsAre DEF EntriesSize
<1> HIDE DEF x, y, total
<1>6. b \in Seq(Nat) /\ Len(b) = Len(x) + Len(y) /\ \A i \in 1..Len(x) : b[i] = x[i]
  BY <1>2, <1>3, BytesJoined
<1> HIDE DEF b
<1>7. Len(b) = total + tail /\ Len(b) \in Nat /\ \A i \in 1..total : b[i] = x[i]
  BY <1>1, <1>2, <1>3, <1>5, <1>6
<1>8. ASSUME NEW k \in 1..Len(shared)
      PROVE  /\ Place(shared, k) \in Nat /\ Place(shared, k) % 4 = 0
             /\ LengthOf(shared[k]) \in Nat
             /\ Place(shared, k) + LengthOf(shared[k]) <= Len(b)
             /\ \A j \in 1..LengthOf(shared[k]) : b[Place(shared, k) + j] = Entry(shared[k])[j]
  <2> DEFINE o == Place(shared, k)
             a == shared[k]
             l == LengthOf(a)
             z == EntrySizeOf(a)
  <2>1. a \in Attr
    BY <1>1, Zenon
  <2>2. o \in Nat /\ o % 4 = 0
    BY <1>1, RefsAre, Zenon
  <2>3. l \in Nat /\ l >= 4 /\ z \in Nat /\ z >= l
    BY <2>1, EntryIs, Zenon
  <2>4. \A j \in 1..z : o + j \in 1..total /\ x[o + j] = Entry(a)[j]
    BY <1>2, Zenon DEF Place
  <2> HIDE DEF o, a, l, z
  <2>5. \A j \in 1..l : j \in 1..z
    BY <2>3
  <2>6. o + l <= total
    <3>1. l \in 1..z
      BY <2>3
    <3>2. o + l \in 1..total
      BY <2>4, <3>1, Zenon
    <3> QED BY <2>2, <2>3, <1>5, <3>2
  <2>7. o + l <= Len(b)
    BY <1>1, <1>5, <1>7, <2>2, <2>3, <2>6
  <2>8. \A j \in 1..l : b[o + j] = Entry(a)[j]
    BY <1>7, <2>4, <2>5, Zenon
  <2> QED BY <2>2, <2>3, <2>7, <2>8, Zenon DEF o, a, l
<1> QED BY <1>4, <1>6, <1>7, <1>8, Zenon

(* An entry from the n bytes at hand behind a reference.                   *)
LEMMA SharedRead ==
    ASSUME FieldsHold, Images, NEW k \in 1..Len(shared), NEW n \in Nat,
           Place(shared, k) + n <= Len(Blocks), NEW f
    PROVE  LET b == Bytes(Blocks, Place(shared, k), n)
           IN  /\ Fits(b, 0) <=> LengthOf(shared[k]) <= n
               /\ WithEntry(f, b) = IF LengthOf(shared[k]) <= n
                                    THEN Set(f, Name(shared[k]), shared[k][3]) ELSE f
<1> DEFINE o == Place(shared, k)
           a == shared[k]
           l == LengthOf(a)
           b == Bytes(Blocks, o, n)
<1>1. a \in Attr /\ FieldsFit(a)
  BY ImagesAre, FieldsAre, Zenon
<1>2. /\ Blocks \in Seq(Nat) /\ Len(Blocks) \in Nat /\ o \in Nat /\ l \in Nat
      /\ o + l <= Len(Blocks) /\ \A j \in 1..l : Blocks[o + j] = Entry(a)[j]
  BY BlocksAre, Zenon
<1>3. b \in Seq(Nat) /\ Len(b) = n /\ \A i \in 1..n : b[i] = Blocks[o + i]
  <2> HIDE DEF o
  <2>1. o + n <= Len(Blocks)
    BY DEF o
  <2> QED BY <1>2, <2>1, BytesAre
<1> HIDE DEF o, a, l, b
<1>4. \A j \in 1..l : 0 + j <= Len(b) => b[0 + j] = Entry(a)[j]
  <2> SUFFICES ASSUME NEW j \in 1..l, 0 + j <= Len(b)
               PROVE  b[0 + j] = Entry(a)[j]
    OBVIOUS
  <2>1. 0 + j = j /\ j \in 1..n
    BY <1>2, <1>3
  <2> QED BY <1>2, <1>3, <2>1
<1>5. Fits(b, 0) <=> l <= n
  <2>1. 0 \in Nat /\ 0 + l = l
    BY <1>2
  <2>2. Fits(b, 0) <=> 0 + l <= Len(b)
    BY <1>1, <1>3, <1>4, <2>1, FitsIs DEF l
  <2> QED BY <1>3, <2>1, <2>2
<1>6. ASSUME l <= n
      PROVE  WithEntry(f, b) = Set(f, Name(a), a[3])
  <2>1. 0 \in Nat /\ 0 + l <= Len(b) /\ \A j \in 1..l : 0 + j <= Len(b)
    BY <1>2, <1>3, <1>6
  <2>2. \A j \in 1..l : b[0 + j] = Entry(a)[j]
    BY <1>4, <2>1, Zenon
  <2>3. Decoded(b, 0) = a
    BY <1>1, <1>3, <2>1, <2>2, EntryRead, Zenon DEF l
  <2> QED BY <1>5, <1>6, <2>3, Zenon DEF WithEntry
<1>7. ASSUME ~(l <= n)
      PROVE  WithEntry(f, b) = f
  BY <1>5, <1>7, Zenon DEF WithEntry
<1> QED BY <1>5, <1>6, <1>7 DEF o, a, l, b

-----------------------------------------------------------------------------
(* What loadXattrs has decoded: k attributes of the inode after the shared *)
(* ones, where its position is, and what it holds of the next one.         *)
Pre(k) == SetUpTo(SetAll(<<>>, shared), own)[k]
At4(k) == EntryAt(own, shared, k)
Half(k, name, value) ==
    [index |-> own[k][1], nlen |-> Len(own[k][2]), vlen |-> Len(own[k][3]),
     name |-> name, value |-> value]
Between(k) == pos = At4(k) /\ found = Pre(k)
AtName(k) == pos = At4(k - 1) + 4 /\ found = Pre(k - 1) /\ entry = Half(k, <<>>, <<>>)
InValue(k) ==
    /\ pos = At4(k - 1) + 4 + Len(own[k][2]) + Len(entry.value) /\ found = Pre(k - 1)
    /\ entry = Half(k, own[k][2], Bytes(own[k][3], 0, Len(entry.value)))
DecodeInv ==
    /\ WindowInv
    /\ state = "start" => found = <<>>
    /\ state = "refs" => found = SetUpTo(<<>>, shared)[refs]
    /\ state = "entry" => \E k \in 0..Len(own) : Between(k)
    /\ state = "name" => \E k \in 1..Len(own) : AtName(k)
    /\ state = "value" => \E k \in 1..Len(own) : InValue(k)
    /\ state = "done" => found = Written
    /\ state = "error" => \E i \in DOMAIN shared : Unreadable(i)

LEMMA SameDecoding ==
    ASSUME UNCHANGED image
    PROVE  /\ own' = own /\ shared' = shared /\ Written' = Written
           /\ \A k : Pre(k)' = Pre(k) /\ At4(k)' = At4(k)
           /\ \A k, name, value : Half(k, name, value)' = Half(k, name, value)
           /\ \A i : Unreadable(i)' = Unreadable(i)
<1>1. own' = own /\ shared' = shared /\ tail' = tail
  BY DEF image
<1>2. Blocks' = Blocks
  BY <1>1, Zenon DEF Blocks
<1> QED BY <1>1, <1>2, Zenon DEF Written, Pre, At4, Half, Unreadable

LEMMA PreAre ==
    ASSUME Images
    PROVE  /\ Pre(0) = SetAll(<<>>, shared) /\ Pre(Len(own)) = Written
           /\ \A k \in 1..Len(own) : Pre(k) = Set(Pre(k - 1), Name(own[k]), own[k][3])
           /\ SetUpTo(<<>>, shared)[0] = <<>>
           /\ SetUpTo(<<>>, shared)[Len(shared)] = SetAll(<<>>, shared)
           /\ \A k \in 1..Len(shared) :
                SetUpTo(<<>>, shared)[k]
                  = Set(SetUpTo(<<>>, shared)[k - 1], Name(shared[k]), shared[k][3])
<1>1. Len(own) \in Nat /\ Len(shared) \in Nat
  BY ImagesAre, Zenon
<1> DEFINE z == <<>>
           s == SetAll(z, shared)
<1>2. /\ SetUpTo(s, own)[0] = s
      /\ \A k \in 1..Len(own) :
           SetUpTo(s, own)[k] = Set(SetUpTo(s, own)[k - 1], Name(own[k]), own[k][3])
  <2> HIDE DEF s
  <2> QED BY <1>1, SetUpToIs
<1>3. /\ SetUpTo(z, shared)[0] = z
      /\ \A k \in 1..Len(shared) :
           SetUpTo(z, shared)[k]
             = Set(SetUpTo(z, shared)[k - 1], Name(shared[k]), shared[k][3])
  <2> HIDE DEF z, s
  <2> QED BY <1>1, SetUpToIs
<1> QED BY <1>2, <1>3, Zenon DEF Pre, Written, SetAll

LEMMA DecodeInit ==
    ASSUME AreaInit
    PROVE  DecodeInv
<1>1. WindowInv
  BY WindowInit
<1>2. state = "start" /\ found = <<>>
  BY DEF AreaInit
<1> QED BY <1>1, <1>2 DEF DecodeInv

(* Nothing was to be read.                                                 *)
LEMMA NothingToRead ==
    ASSUME FieldsHold, Images, xsize < 12
    PROVE  Written = <<>>
<1>1. xsize \in Nat /\ (xsize = 0 \/ xsize >= 12) /\ Len(Area) = AreaLength(own, shared)
  BY SizesAre, Zenon
<1>2. own = <<>> /\ shared = <<>>
  <2> SUFFICES ASSUME own # <<>> \/ shared # <<>>
               PROVE  FALSE
    OBVIOUS
  <2>1. xsize = AreaLength(own, shared)
    BY <1>1, FieldsAre, SizesAre, Zenon
  <2> DEFINE x == xsize
             e == EntryAt(own, shared, 0)
  <2>2. /\ own \in Seq(Attr) /\ shared \in Seq(Attr) /\ Len(own) \in Nat /\ Len(shared) \in Nat
    BY ImagesAre, Zenon
  <2>3. 0 \in 0..Len(own)
    BY <2>2
  <2>4. e \in Nat /\ e >= 12 + 4 * Len(shared) /\ e <= x
    BY <2>1, <2>2, <2>3, EntriesFollow, Zenon
  <2>5. x \in Nat /\ x < 12
    BY <1>1
  <2> HIDE DEF x, e
  <2> QED BY <2>2, <2>4, <2>5
<1>3. Written = Pre(0) /\ Pre(0) = SetUpTo(<<>>, shared)[0]
  <2>1. Len(own) = 0 /\ Len(shared) = 0
    BY <1>2
  <2> QED BY <2>1, PreAre, Zenon
<1> QED BY <1>3, PreAre, Zenon

LEMMA StartDecodes ==
    ASSUME FieldsHold, DecodeInv, Start
    PROVE  DecodeInv'
<1>1. WindowInv /\ Images /\ state = "start" /\ found = <<>> /\ refs = 0
  BY DEF DecodeInv, WindowInv, Start
<1>2. WindowInv'
  BY <1>1, StartKeepsWindow
<1>3. CASE xsize = 0
  <2>1. state' = "done" /\ found' = found /\ UNCHANGED image
    BY <1>3 DEF Start, Stop
  <2>2. Written = <<>>
    <3>1. xsize < 12
      BY <1>3
    <3> QED BY <1>1, <3>1, NothingToRead, Zenon
  <2>3. Written' = Written
    BY <2>1, SameDecoding, Zenon
  <2> QED BY <1>1, <1>2, <2>1, <2>2, <2>3 DEF DecodeInv
<1>4. CASE xsize # 0
  <2>1. state' = "refs" /\ found' = found /\ refs' = refs /\ UNCHANGED image
    BY <1>4 DEF Start
  <2>2. found' = SetUpTo(<<>>, shared)[refs]
    BY <1>1, <2>1, PreAre, Zenon
  <2>3. found' = SetUpTo(<<>>, shared')[refs']
    BY <2>1, <2>2, SameDecoding, Zenon
  <2> QED BY <1>2, <2>1, <2>3 DEF DecodeInv
<1> QED BY <1>3, <1>4

(* Following a reference: its block is the one of the next shared          *)
(* attribute, and only what Unreadable names is in the way.                *)
LEMMA FollowRefDecodes ==
    ASSUME FieldsHold, DecodeInv, FollowRef
    PROVE  DecodeInv'
<1> DEFINE w == IF Len(win) < 4 THEN Loaded(pos) ELSE win
           off == RefAt(w, 0)
           b == Bytes(Blocks, off, BlockSize)
           k == refs + 1
<1>1. WindowInv /\ state = "refs" /\ refs < Byte(Behind, 4)
  BY DEF DecodeInv, FollowRef
<1>2. WindowInv'
  BY <1>1, FieldsCount, FollowRefKeepsWindow
<1>3. /\ Images /\ refs \in 0..Len(shared) /\ pos = 12 + 4 * refs /\ Window(pos, win)
      /\ found = SetUpTo(<<>>, shared)[refs]
  BY <1>1, Zenon DEF DecodeInv, WindowInv
<1>4. Len(shared) \in Nat /\ shared \in Seq(Attr) /\ own \in Seq(Attr)
  BY <1>3, ImagesAre, Zenon
<1>5. refs < Len(shared) /\ k \in 1..Len(shared) /\ k - 1 = refs
  <2>1. Byte(Behind, 4) = Len(shared)
    BY <1>3, BehindIs, Zenon
  <2> QED BY <1>1, <1>3, <1>4, <2>1
<1>6. Window(pos, w) /\ Len(w) \in Nat /\ 4 <= Len(w)
  <2>1. 12 + 4 * refs + 4 <= xsize
    BY <1>3, <1>5, FieldsCount, RefInArea, Zenon
  <2>2. 4 \in Nat /\ 4 <= BlockSize
    BY Bounds
  <2>3. pos + 4 <= xsize
    BY <1>3, <2>1, Zenon
  <2> QED BY <1>3, <2>2, <2>3, WindowOr, Zenon
<1> HIDE DEF w
<1>7. off = Place(shared, k)
  <2>1. Place(shared, k) \in Nat /\ Place(shared, k) % 4 = 0
    BY <1>3, <1>5, BlocksAre, Zenon
  <2>2. \A j \in 1..4 : Area[12 + 4 * (k - 1) + j] = Ref(Place(shared, k))[j]
    <3>1. Area = AreaOf(own, shared)
      BY <1>3, SizesAre, Zenon
    <3> HIDE DEF k
    <3> QED BY <1>4, <1>5, <3>1, AreaIs, Zenon
  <2>3. \A j \in 1..Len(w) : w[j] = Area[pos + j]
    BY <1>3, <1>6, WindowCells, Zenon
  <2>4. ASSUME NEW j \in 1..4
        PROVE  w[0 + j] = Ref(Place(shared, k))[j]
    <3>1. j \in 1..Len(w) /\ 0 + j = j
      BY <1>6
    <3>2. 12 + 4 * (k - 1) + j = pos + j
      BY <1>3, <1>5
    <3> HIDE DEF k
    <3> QED BY <2>2, <2>3, <3>1, <3>2, Zenon
  <2>5. 0 \in Nat /\ w \in Seq(Nat)
    BY <1>6, Zenon DEF Window
  <2> HIDE DEF k
  <2> QED BY <2>1, <2>4, <2>5, RefRead, Zenon
<1> HIDE DEF off, b, k
<1>8. CASE off + BlockSize > Len(Blocks) \/ ~Fits(b, 0)
  <2>1. state' = "error" /\ UNCHANGED image
    BY <1>8 DEF FollowRef, Stop, w, off, b
  <2>2. Unreadable(k)
    <3>1. CASE off + BlockSize > Len(Blocks)
      BY <1>7, <3>1 DEF Unreadable
    <3>2. CASE ~(off + BlockSize > Len(Blocks))
      <4>1. Len(Blocks) \in Nat /\ LengthOf(shared[k]) \in Nat /\ Place(shared, k) \in Nat
        BY <1>3, <1>5, BlocksAre, Zenon
      <4>2. BlockSize \in Nat /\ Place(shared, k) + BlockSize <= Len(Blocks)
        BY <1>7, <3>2, <4>1, Bounds
      <4>3. ~(LengthOf(shared[k]) <= BlockSize)
        <5>1. b = Bytes(Blocks, Place(shared, k), BlockSize)
          BY <1>7 DEF b
        <5> QED BY <1>3, <1>5, <1>8, <3>2, <4>2, <5>1, SharedRead, Zenon
      <4>4. LengthOf(shared[k]) > BlockSize
        BY <4>1, <4>2, <4>3
      <4> QED BY <4>4 DEF Unreadable, LengthOf
    <3> QED BY <3>1, <3>2
  <2>3. k \in DOMAIN shared
    BY <1>4, <1>5, CellsOf, Zenon
  <2>4. \E i \in DOMAIN shared' : Unreadable(i)'
    BY <2>1, <2>2, <2>3, SameDecoding, Zenon
  <2> QED BY <1>2, <2>1, <2>4 DEF DecodeInv
<1>9. CASE ~(off + BlockSize > Len(Blocks) \/ ~Fits(b, 0))
  <2>1. found' = WithEntry(found, b) /\ refs' = k /\ UNCHANGED image /\ state' = state
    BY <1>9 DEF FollowRef, w, off, b, k
  <2>2. found' = Set(found, Name(shared[k]), shared[k][3])
    <3>1. Len(Blocks) \in Nat /\ Place(shared, k) \in Nat
      BY <1>3, <1>5, BlocksAre, Zenon
    <3>2. BlockSize \in Nat /\ Place(shared, k) + BlockSize <= Len(Blocks)
      BY <1>7, <1>9, <3>1, Bounds
    <3>3. b = Bytes(Blocks, Place(shared, k), BlockSize) /\ Fits(b, 0)
      BY <1>7, <1>9 DEF b
    <3>4. LengthOf(shared[k]) <= BlockSize
      BY <1>3, <1>5, <3>2, <3>3, SharedRead, Zenon
    <3>5. WithEntry(found, b) = Set(found, Name(shared[k]), shared[k][3])
      BY <1>3, <1>5, <3>2, <3>3, <3>4, SharedRead, Zenon
    <3> QED BY <2>1, <3>5
  <2>3. found' = SetUpTo(<<>>, shared)[k]
    BY <1>3, <1>5, <2>2, PreAre, Zenon
  <2>4. found' = SetUpTo(<<>>, shared')[refs']
    BY <2>1, <2>3, SameDecoding, Zenon
  <2> QED BY <1>1, <1>2, <2>1, <2>4 DEF DecodeInv
<1> QED BY <1>8, <1>9

(* Between two entries there is another one exactly if the area goes on.   *)
LEMMA AnotherEntry ==
    ASSUME FieldsHold, WindowInv, NEW k \in 0..Len(own), pos = At4(k)
    PROVE  /\ pos < xsize => k + 1 \in 1..Len(own) /\ (k + 1) - 1 = k
           /\ ~(pos < xsize) => k = Len(own)
<1> DEFINE x == xsize
           e == At4(k)
<1>1. Images /\ Window(pos, win)
  BY DEF WindowInv
<1>2. own \in Seq(Attr) /\ shared \in Seq(Attr) /\ Len(own) \in Nat /\ Len(shared) \in Nat
  BY <1>1, ImagesAre, Zenon
<1>3. x \in Nat /\ x <= Len(Area) /\ Len(Area) = AreaLength(own, shared)
  BY <1>1, SizesAre, Zenon
<1>4. e \in Nat /\ e <= AreaLength(own, shared) /\ EntryAt(own, shared, Len(own)) = AreaLength(own, shared)
  BY <1>2, EntriesFollow, Zenon DEF At4
<1>5. k + 1 \in 1..Len(own) => e + 4 <= x
  <2> SUFFICES ASSUME k + 1 \in 1..Len(own)
               PROVE  e + 4 <= x
    OBVIOUS
  <2> DEFINE m == k + 1
             l == LengthOf(own[m])
             f == EntryAt(own, shared, m)
  <2>1. m - 1 = k /\ m \in 1..Len(own)
    BY <1>2
  <2> HIDE DEF m
  <2>2. /\ l \in Nat /\ l >= 4 /\ EntryAt(own, shared, m - 1) + l <= f /\ f \in Nat /\ f <= x
    BY <1>1, <2>1, OwnEntry, Zenon
  <2>3. EntryAt(own, shared, m - 1) = e
    BY <2>1 DEF At4
  <2> HIDE DEF l, f, e, x
  <2> QED BY <1>3, <1>4, <2>2, <2>3
<1> HIDE DEF e, x
<1>6. pos = e
  BY DEF e
<1>7. ASSUME pos < x
      PROVE  k + 1 \in 1..Len(own) /\ (k + 1) - 1 = k
  <2>1. k # Len(own)
    <3> SUFFICES ASSUME k = Len(own)
                 PROVE  FALSE
      OBVIOUS
    <3>1. e = AreaLength(own, shared)
      BY <1>4 DEF e, At4
    <3> QED BY <1>3, <1>4, <1>6, <1>7, <3>1
  <2> QED BY <1>2, <2>1
<1>8. ASSUME ~(pos < x)
      PROVE  k = Len(own)
  <2>1. ~(e + 4 <= x)
    BY <1>3, <1>4, <1>6, <1>8
  <2> QED BY <1>2, <1>5, <2>1
<1> QED BY <1>7, <1>8 DEF x

LEMMA NextEntryDecodes ==
    ASSUME FieldsHold, DecodeInv, NextEntry
    PROVE  DecodeInv'
<1>1. WindowInv
  BY DEF DecodeInv
<1>2. WindowInv'
  BY <1>1, NextEntryKeepsWindow
<1>3. /\ Images /\ refs \in 0..Len(shared) /\ Window(pos, win)
      /\ state = "refs" => pos = 12 + 4 * refs
  BY <1>1 DEF WindowInv
<1>4. own \in Seq(Attr) /\ shared \in Seq(Attr) /\ Len(own) \in Nat /\ Len(shared) \in Nat
  BY <1>3, ImagesAre, Zenon
<1>5. CASE state = "refs" /\ refs = Byte(Behind, 4) /\ Stop("entry")
  <2>1. state' = "entry" /\ UNCHANGED image /\ pos' = pos /\ found' = found
    BY <1>5 DEF Stop
  <2>2. refs = Len(shared)
    BY <1>3, <1>5, BehindIs, Zenon
  <2>3. pos = At4(0)
    BY <1>3, <1>4, <1>5, <2>2, EntriesFollow, Zenon DEF At4
  <2>4. found = Pre(0)
    BY <1>3, <1>5, <2>2, PreAre, Zenon DEF DecodeInv
  <2>5. 0 \in 0..Len(own)
    BY <1>4
  <2>6. 0 \in 0..Len(own') /\ Between(0)'
    BY <2>1, <2>3, <2>4, <2>5, SameDecoding, Zenon DEF Between
  <2> QED BY <1>2, <2>1, <2>6 DEF DecodeInv
<1>6. ASSUME state = "entry"
      PROVE  \E k \in 0..Len(own) : Between(k)
  BY <1>6 DEF DecodeInv
<1>7. CASE state = "entry" /\ pos >= xsize /\ Stop("done")
  <2>1. state' = "done" /\ UNCHANGED image /\ found' = found
    BY <1>7 DEF Stop
  <2>2. PICK k \in 0..Len(own) : Between(k)
    BY <1>6, <1>7
  <2>3. ~(pos < xsize)
    <3>1. xsize \in Nat /\ pos \in Nat
      BY <1>3, SizesAre, Zenon DEF Window
    <3> HIDE DEF xsize
    <3> QED BY <1>7, <3>1
  <2>4. k = Len(own)
    BY <1>1, <2>2, <2>3, AnotherEntry, Zenon DEF Between
  <2>5. found' = Written'
    BY <1>3, <2>1, <2>2, <2>4, PreAre, SameDecoding, Zenon DEF Between
  <2> QED BY <1>2, <2>1, <2>5 DEF DecodeInv
<1>8. CASE ~(state = "refs") /\ ~(state = "entry" /\ pos >= xsize)
  <2> DEFINE w == IF Len(win) < 4 THEN Loaded(pos) ELSE win
  <2>1. state = "entry" /\ pos < xsize
    BY <1>8 DEF NextEntry
  <2>2. PICK h \in 0..Len(own) : Between(h)
    BY <1>6, <2>1
  <2> DEFINE k == h + 1
  <2>3. k \in 1..Len(own) /\ k - 1 = h
    BY <1>1, <2>1, <2>2, AnotherEntry, Zenon DEF Between
  <2> HIDE DEF k
  <2>4. pos = At4(k - 1) /\ found = Pre(k - 1)
    BY <2>2, <2>3, Zenon DEF Between
  <2> DEFINE a == own[k]
             l == LengthOf(a)
             x == xsize
  <2>5. /\ a \in Attr /\ FieldsFit(a) /\ l \in Nat /\ l >= 4 /\ x \in Nat
        /\ pos + l <= EntryAt(own, shared, k) /\ EntryAt(own, shared, k) \in Nat
        /\ EntryAt(own, shared, k) <= x
        /\ \A j \in 1..l : Area[pos + j] = Entry(a)[j]
    BY <1>3, <2>3, <2>4, OwnEntry, Zenon DEF At4
  <2>6. pos \in Nat
    BY <1>3, Zenon DEF Window
  <2> HIDE DEF a, l, x
  <2>7. Window(pos, w) /\ Len(w) \in Nat /\ 4 <= Len(w)
    <3>1. 4 \in Nat /\ 4 <= BlockSize
      BY Bounds
    <3>2. pos + 4 <= x
      BY <2>5, <2>6
    <3> QED BY <1>3, <3>1, <3>2, WindowOr, Zenon DEF x
  <2>8. ~(Len(w) < 4)
    BY <2>7
  <2>9. entry' = Record(w, 0) /\ pos' = pos + 4 /\ state' = "name" /\ UNCHANGED image /\ found' = found
    BY <1>8, <2>8, Bounds DEF NextEntry
  <2> HIDE DEF w
  <2>10. \A j \in 1..4 : w[0 + j] = Entry(a)[j]
    <3>1. \A j \in 1..Len(w) : w[j] = Area[pos + j]
      BY <1>3, <2>7, WindowCells, Zenon
    <3>2. \A j \in 1..4 : 0 + j = j /\ j \in 1..Len(w) /\ j \in 1..l
      BY <2>5, <2>7
    <3> QED BY <2>5, <3>1, <3>2, Zenon
  <2>11. Record(w, 0) = Half(k, <<>>, <<>>)
    <3>1. w \in Seq(Nat) /\ 0 \in Nat /\ 0 + 4 <= Len(w)
      BY <2>7 DEF Window
    <3> QED BY <2>5, <2>10, <3>1, RecordRead, Zenon DEF Half, a
  <2>12. k \in 1..Len(own') /\ AtName(k)'
    BY <2>3, <2>4, <2>9, <2>11, SameDecoding, Zenon DEF AtName
  <2> QED BY <1>2, <2>9, <2>12 DEF DecodeInv
<1>9. state = "refs" \/ state = "entry"
  BY DEF NextEntry
<1>10. \/ state = "refs" /\ refs = Byte(Behind, 4) /\ Stop("entry")
       \/ state = "entry" /\ pos >= xsize /\ Stop("done")
       \/ ~(state = "refs") /\ ~(state = "entry" /\ pos >= xsize)
  <2>1. state = "entry" => (pos >= xsize <=> ~(pos < xsize))
    <3>1. xsize \in Nat /\ pos \in Nat
      BY <1>3, SizesAre, Zenon DEF Window
    <3> HIDE DEF xsize
    <3> QED BY <3>1
  <2> QED BY <2>1 DEF NextEntry
<1> QED BY <1>5, <1>7, <1>8, <1>10

LEMMA ReadNameDecodes ==
    ASSUME FieldsHold, DecodeInv, ReadName
    PROVE  DecodeInv'
<1> DEFINE w == IF Len(win) < entry.nlen THEN Loaded(pos) ELSE win
<1>1. WindowInv /\ state = "name"
  BY DEF DecodeInv, ReadName
<1>2. WindowInv'
  BY <1>1, ReadNameKeepsWindow
<1>3. Images /\ Window(pos, win)
  BY <1>1 DEF WindowInv
<1>4. PICK k \in 1..Len(own) : AtName(k)
  BY <1>1 DEF DecodeInv
<1> DEFINE a == own[k]
           e == At4(k - 1)
           l == LengthOf(a)
           x == xsize
           n == Len(a[2])
           v == Len(a[3])
<1>5. /\ a \in Attr /\ FieldsFit(a) /\ e \in Nat /\ l \in Nat /\ x \in Nat
      /\ e + l <= EntryAt(own, shared, k) /\ EntryAt(own, shared, k) \in Nat
      /\ EntryAt(own, shared, k) <= x /\ l = 4 + n + v /\ n <= BlockSize
      /\ \A j \in 1..l : Area[e + j] = Entry(a)[j]
  BY <1>3, OwnEntry, Zenon DEF At4
<1>6. a[2] \in Seq(Nat) /\ n \in Nat /\ v \in Nat
  BY <1>5, AttrParts, Zenon
<1>7. /\ pos = e + 4 /\ found = Pre(k - 1) /\ entry = Half(k, <<>>, <<>>)
      /\ entry.nlen = n
  BY <1>4 DEF AtName, Half
<1> HIDE DEF a, e, l, x, n, v
<1>8. Window(pos, w) /\ Len(w) \in Nat /\ n <= Len(w)
  <2>1. pos + n <= x
    BY <1>5, <1>6, <1>7
  <2>2. n <= BlockSize
    BY <1>5
  <2>3. w = IF Len(win) < n THEN Loaded(pos) ELSE win
    BY <1>7
  <2> HIDE DEF w
  <2> QED BY <1>3, <1>6, <2>1, <2>2, <2>3, WindowOr, Zenon DEF x
<1>9. ~(Len(w) < entry.nlen)
  <2> HIDE DEF w
  <2> QED BY <1>6, <1>7, <1>8
<1>10. /\ entry' = [entry EXCEPT !.name = Bytes(w, 0, n)] /\ pos' = pos + n
       /\ state' = "value" /\ UNCHANGED image /\ found' = found
  BY <1>7, <1>9 DEF ReadName
<1> HIDE DEF w
<1>11. Bytes(w, 0, n) = a[2]
  <2>1. /\ Bytes(w, 0, n) \in Seq(Nat) /\ Len(Bytes(w, 0, n)) = n
        /\ \A i \in 1..n : Bytes(w, 0, n)[i] = w[0 + i]
    <3>1. w \in Seq(Nat) /\ 0 \in Nat /\ 0 + n <= Len(w)
      BY <1>6, <1>8 DEF Window
    <3> QED BY <1>6, <3>1, BytesAre
  <2>2. \A j \in 1..Len(w) : w[j] = Area[pos + j]
    BY <1>3, <1>8, WindowCells, Zenon
  <2>3. \A j \in 1..n : Entry(a)[4 + j] = a[2][j]
    BY <1>5, EntryIs, Zenon DEF n
  <2>4. ASSUME NEW i \in 1..n
        PROVE  Bytes(w, 0, n)[i] = a[2][i]
    <3>1. i \in 1..Len(w) /\ 0 + i = i /\ 4 + i \in 1..l /\ pos + i = e + (4 + i)
      BY <1>5, <1>6, <1>7, <1>8
    <3>2. Bytes(w, 0, n)[i] = Area[pos + i]
      BY <2>1, <2>2, <3>1, Zenon
    <3>3. Area[e + (4 + i)] = Entry(a)[4 + i]
      BY <1>5, <3>1, Zenon
    <3> QED BY <2>3, <3>1, <3>2, <3>3, Zenon
  <2> QED BY <1>6, <2>1, <2>4, SameBytes DEF n
<1>12. entry' = Half(k, a[2], <<>>)
  BY <1>7, <1>10, <1>11 DEF Half, a
<1>13. /\ Len(entry'.value) = 0
       /\ Bytes(a[3], 0, Len(entry'.value)) = <<>>
  <2>1. entry'.value = <<>>
    BY <1>12 DEF Half
  <2>2. Len(entry'.value) = 0
    BY <2>1
  <2>3. Bytes(a[3], 0, 0) = <<>>
    <3>1. a[3] \in Seq(Nat) /\ 0 \in Nat
      BY <1>5, AttrParts, Zenon
    <3> QED BY <3>1, NoBytes, Zenon
  <2> QED BY <2>2, <2>3
<1>14. pos' = e + 4 + n + 0
  BY <1>5, <1>6, <1>7, <1>10
<1>15. /\ pos' = At4(k - 1) + 4 + Len(own[k][2]) + Len(entry'.value)
       /\ entry' = Half(k, own[k][2], Bytes(own[k][3], 0, Len(entry'.value)))
       /\ found' = Pre(k - 1)
  <2> DEFINE c == Len(entry'.value)
  <2>1. c = 0 /\ Bytes(a[3], 0, c) = <<>>
    BY <1>13
  <2> HIDE DEF c
  <2>2. pos' = e + 4 + n + c
    BY <1>14, <2>1, Zenon
  <2>3. entry' = Half(k, a[2], Bytes(a[3], 0, c))
    BY <1>12, <2>1, Zenon
  <2> QED BY <1>7, <1>10, <2>2, <2>3, Zenon DEF a, e, n, c
<1>16. k \in 1..Len(own') /\ InValue(k)'
  <2>1. own' = own /\ At4(k - 1)' = At4(k - 1) /\ Pre(k - 1)' = Pre(k - 1)
    BY <1>10, SameDecoding, Zenon
  <2> QED BY <1>15, <2>1, Zenon DEF InValue, Half
<1> QED BY <1>2, <1>10, <1>16 DEF DecodeInv

(* The value read so far is the beginning of the attribute's, and ends     *)
(* where the position is.                                                  *)
LEMMA ValueSoFar ==
    ASSUME FieldsHold, WindowInv, NEW k \in 1..Len(own), InValue(k)
    PROVE  /\ own[k] \in Attr /\ own[k][3] \in Seq(Nat) /\ Len(own[k][3]) \in Nat
           /\ At4(k - 1) \in Nat /\ At4(k - 1) % 4 = 0 /\ LengthOf(own[k]) \in Nat
           /\ LengthOf(own[k]) = 4 + Len(own[k][2]) + Len(own[k][3])
           /\ Len(own[k][2]) \in Nat /\ Len(entry.value) \in Nat
           /\ entry.vlen = Len(own[k][3]) /\ Len(entry.value) <= Len(own[k][3])
           /\ entry.value = Bytes(own[k][3], 0, Len(entry.value))
           /\ At4(k - 1) + LengthOf(own[k]) <= xsize /\ xsize \in Nat
           /\ At4(k) = RoundUp4(At4(k - 1) + LengthOf(own[k]))
           /\ \A i \in 1..(Len(own[k][3]) - Len(entry.value)) :
                Area[pos + i] = own[k][3][Len(entry.value) + i]
<1> DEFINE a == own[k]
           e == At4(k - 1)
           f == EntryAt(own, shared, k)
           l == LengthOf(a)
           x == xsize
           n == Len(a[2])
           v == Len(a[3])
           c == Len(entry.value)
<1>1. Images /\ entry \in EntryType /\ c <= entry.vlen
  BY DEF WindowInv
<1>2. /\ a \in Attr /\ e \in Nat /\ e % 4 = 0 /\ l \in Nat /\ x \in Nat
      /\ e + l <= f /\ f \in Nat /\ f <= x /\ l = 4 + n + v
      /\ f = RoundUp4(e + l)
      /\ \A j \in 1..l : Area[e + j] = Entry(a)[j]
  BY <1>1, OwnEntry, Zenon DEF At4
<1>3. a[3] \in Seq(Nat) /\ n \in Nat /\ v \in Nat
  BY <1>2, AttrParts, Zenon
<1>4. pos = e + 4 + n + c /\ entry = Half(k, a[2], Bytes(a[3], 0, c))
  BY Zenon DEF InValue
<1>5. entry.vlen = v /\ entry.value = Bytes(a[3], 0, c)
  BY <1>4 DEF Half
<1>6. c \in Nat /\ c <= v
  <2>1. entry.value \in Seq(Nat)
    BY <1>1 DEF EntryType
  <2>2. c \in Nat
    BY <2>1, CellsOf, Zenon
  <2> QED BY <1>1, <1>5, <2>2
<1>7. \A j \in 1..v : Entry(a)[4 + n + j] = a[3][j]
  BY <1>2, EntryIs, Zenon
<1>8. f = At4(k)
  BY DEF At4
<1> HIDE DEF a, e, f, l, x, n, v, c
<1>9. ASSUME NEW i \in 1..(v - c)
      PROVE  Area[pos + i] = a[3][c + i]
  <2>1. c + i \in 1..v /\ 4 + n + (c + i) \in 1..l /\ pos + i = e + (4 + n + (c + i))
    BY <1>2, <1>3, <1>4, <1>6
  <2>2. Area[e + (4 + n + (c + i))] = Entry(a)[4 + n + (c + i)]
    BY <1>2, <2>1, Zenon
  <2>3. Entry(a)[4 + n + (c + i)] = a[3][c + i]
    BY <1>7, <2>1, Zenon
  <2> QED BY <2>1, <2>2, <2>3, Zenon
<1>10. e + l <= x
  BY <1>2
<1> QED BY <1>2, <1>3, <1>5, <1>6, <1>8, <1>9, <1>10, Zenon DEF a, e, l, x, n, v, c

LEMMA ReadValueDecodes ==
    ASSUME FieldsHold, DecodeInv, ReadValue
    PROVE  DecodeInv'
<1> DEFINE w == IF win = <<>> THEN Loaded(pos) ELSE win
           n == Min({Len(w), entry.vlen - Len(entry.value)})
<1>1. WindowInv /\ state = "value" /\ Len(entry.value) < entry.vlen
  BY DEF DecodeInv, ReadValue
<1>2. WindowInv'
  BY <1>1, ReadValueKeepsWindow
<1>3. Images /\ Window(pos, win)
  BY <1>1 DEF WindowInv
<1>4. PICK k \in 1..Len(own) : InValue(k)
  BY <1>1 DEF DecodeInv
<1> DEFINE a == own[k]
           y == a[3]
           e == At4(k - 1)
           l == LengthOf(a)
           x == xsize
           m == Len(a[2])
           v == Len(y)
           c == Len(entry.value)
<1>5. /\ y \in Seq(Nat) /\ v \in Nat /\ e \in Nat /\ l \in Nat /\ l = 4 + m + v /\ m \in Nat
      /\ c \in Nat /\ entry.vlen = v /\ c <= v /\ entry.value = Bytes(y, 0, c)
      /\ e + l <= x /\ x \in Nat
      /\ \A i \in 1..(v - c) : Area[pos + i] = y[c + i]
  BY <1>1, <1>4, ValueSoFar, Zenon
<1>6. /\ pos = e + 4 + m + c /\ found = Pre(k - 1)
      /\ entry = Half(k, a[2], Bytes(y, 0, c))
  BY <1>4, Zenon DEF InValue
<1>7. /\ Window(pos, w) /\ Len(w) \in Nat /\ n \in 0..Len(w)
      /\ n <= v - c /\ (n = Len(w) \/ n = v - c)
  BY <1>1, <1>5, ValuePart, Zenon
<1> HIDE DEF a, y, e, l, x, m, v, c
<1>8. c < v
  BY <1>1, <1>5 DEF c
<1>9. 1 <= Len(w)
  <2>1. 1 \in Nat /\ 1 <= BlockSize
    BY Bounds
  <2>2. pos + 1 <= x
    BY <1>5, <1>6, <1>8
  <2>3. w = IF Len(win) < 1 THEN Loaded(pos) ELSE win
    <3>1. win \in Seq(Nat)
      BY <1>3 DEF Window
    <3>2. win = <<>> <=> Len(win) < 1
      BY <3>1
    <3> QED BY <3>2
  <2> HIDE DEF w, n
  <2> QED BY <1>3, <2>1, <2>2, <2>3, WindowOr, Zenon DEF x
<1>10. n # 0
  <2> HIDE DEF w, n
  <2> QED BY <1>5, <1>7, <1>8, <1>9
<1>11. /\ entry' = [entry EXCEPT !.value = @ \o Bytes(w, 0, n)] /\ pos' = pos + n
       /\ state' = state /\ UNCHANGED image /\ found' = found
  BY <1>10 DEF ReadValue
<1> HIDE DEF w, n
<1> DEFINE t == Bytes(w, 0, n)
<1>12. /\ t \in Seq(Nat) /\ Len(t) = n /\ n \in Nat
       /\ \A i \in 1..n : t[i] = w[0 + i]
  <2>1. w \in Seq(Nat) /\ 0 \in Nat /\ 0 + n <= Len(w) /\ n \in Nat
    BY <1>7 DEF Window
  <2> QED BY <2>1, BytesAre
<1> HIDE DEF t
<1>13. \A i \in 1..n : t[i] = y[c + i]
  <2>1. \A j \in 1..Len(w) : w[j] = Area[pos + j]
    BY <1>3, <1>7, WindowCells, Zenon
  <2>2. \A i \in 1..n : 0 + i = i /\ i \in 1..Len(w) /\ i \in 1..(v - c)
    BY <1>5, <1>7, <1>12
  <2> QED BY <1>5, <1>12, <2>1, <2>2, Zenon
<1> DEFINE d == c + n
<1>14. d \in Nat /\ d <= Len(y) /\ c + n <= Len(y)
  <2>1. d \in Nat /\ d <= v
    BY <1>5, <1>7, <1>12
  <2> QED BY <2>1 DEF v
<1>15. Concat(Bytes(y, 0, c), t) = Bytes(y, 0, d)
  <2>1. y \in Seq(Nat) /\ c \in Nat
    BY <1>5, Zenon
  <2>2. n \in Nat /\ t \in Seq(Nat) /\ Len(t) = n /\ \A i \in 1..n : t[i] = y[c + i]
    BY <1>12, <1>13, Zenon
  <2>3. c + n <= Len(y)
    BY <1>14, Zenon
  <2>4. Concat(Bytes(y, 0, c), t) = Bytes(y, 0, c + n)
    BY <2>1, <2>2, <2>3, MoreBytes, Zenon
  <2> QED BY <2>4
<1>16. Len(Bytes(y, 0, d)) = d
  <2>1. 0 \in Nat /\ 0 + d <= Len(y)
    BY <1>14
  <2> HIDE DEF d
  <2> QED BY <1>5, <1>14, <2>1, BytesAre
<1>17. entry' = Half(k, a[2], Bytes(y, 0, d))
  <2>1. entry'  = [entry EXCEPT !.value = Concat(Bytes(y, 0, c), t)]
    BY <1>5, <1>11 DEF Concat, t
  <2>2. entry' = [entry EXCEPT !.value = Bytes(y, 0, d)]
    BY <1>15, <2>1, Zenon
  <2> HIDE DEF d
  <2> QED BY <1>6, <2>2 DEF Half
<1>18. Len(entry'.value) = d
  <2>1. entry'.value = Bytes(y, 0, d)
    BY <1>17 DEF Half
  <2> QED BY <1>16, <2>1, Zenon
<1>19. pos' = e + 4 + m + d
  BY <1>5, <1>6, <1>11, <1>12
<1>20. /\ pos' = e + 4 + m + Len(entry'.value)
       /\ entry' = Half(k, a[2], Bytes(y, 0, Len(entry'.value)))
       /\ found' = Pre(k - 1)
  <2> HIDE DEF d
  <2>1. pos' = e + 4 + m + Len(entry'.value)
    BY <1>18, <1>19, Zenon
  <2>2. entry' = Half(k, a[2], Bytes(y, 0, Len(entry'.value)))
    BY <1>17, <1>18, Zenon
  <2> QED BY <1>6, <1>11, <2>1, <2>2, Zenon
<1>21. k \in 1..Len(own') /\ InValue(k)'
  <2>1. own' = own /\ At4(k - 1)' = At4(k - 1) /\ Pre(k - 1)' = Pre(k - 1)
    BY <1>11, SameDecoding, Zenon
  <2> QED BY <1>20, <2>1, Zenon DEF InValue, Half, a, y, e, m
<1> QED BY <1>1, <1>2, <1>11, <1>21 DEF DecodeInv

LEMMA EntryDoneDecodes ==
    ASSUME FieldsHold, DecodeInv, EntryDone
    PROVE  DecodeInv'
<1>1. WindowInv /\ state = "value" /\ Len(entry.value) = entry.vlen
  BY DEF DecodeInv, EntryDone
<1>2. WindowInv'
  BY <1>1, EntryDoneTracksWindow
<1>3. Images
  BY <1>1 DEF WindowInv
<1>4. PICK k \in 1..Len(own) : InValue(k)
  BY <1>1 DEF DecodeInv
<1>5. /\ found' = Set(found, <<entry.index, entry.name>>, entry.value)
      /\ pos' = pos + (RoundUp4(pos) - pos) /\ state' = "entry" /\ UNCHANGED image
  BY DEF EntryDone
<1> DEFINE a == own[k]
           y == a[3]
           e == At4(k - 1)
           l == LengthOf(a)
           m == Len(a[2])
           v == Len(y)
           c == Len(entry.value)
<1>6. /\ a \in Attr /\ y \in Seq(Nat) /\ v \in Nat /\ e \in Nat /\ l \in Nat /\ l = 4 + m + v /\ m \in Nat
      /\ entry.vlen = v /\ entry.value = Bytes(y, 0, c) /\ At4(k) = RoundUp4(e + l)
  BY <1>1, <1>4, ValueSoFar, Zenon
<1>7. /\ pos = e + 4 + m + c /\ found = Pre(k - 1)
      /\ entry = Half(k, a[2], Bytes(y, 0, c))
  BY <1>4, Zenon DEF InValue
<1>8. c = v
  BY <1>1, <1>6, Zenon
<1>9. entry.value = y /\ entry.index = a[1] /\ entry.name = a[2]
  <2>1. Bytes(y, 0, v) = y
    BY <1>6, AllBytes, Zenon
  <2>2. entry.value = y
    BY <1>6, <1>8, <2>1, Zenon
  <2>3. entry.index = a[1] /\ entry.name = a[2]
    BY <1>7 DEF Half
  <2> QED BY <2>2, <2>3
<1>10. pos' = At4(k)
  <2>1. pos' = RoundUp4(pos)
    <3>1. pos + (RoundUp4(pos) - pos) = RoundUp4(pos)
      BY <1>1, PadIs, Zenon
    <3> QED BY <1>5, <3>1, Zenon
  <2> HIDE DEF a, y, e, l, m, v, c
  <2>2. pos = e + l
    BY <1>6, <1>7, <1>8
  <2> QED BY <1>6, <2>1, <2>2, Zenon
<1>11. found' = Pre(k)
  <2>1. Name(a) = <<a[1], a[2]>>
    BY DEF Name
  <2>2. found' = Set(Pre(k - 1), Name(a), a[3])
    BY <1>5, <1>7, <1>9, <2>1, Zenon
  <2> QED BY <1>3, <2>2, PreAre, Zenon
<1>12. k \in 0..Len(own') /\ Between(k)'
  <2>1. k \in 0..Len(own)
    <3>1. Len(own) \in Nat
      BY <1>3, ImagesAre, Zenon
    <3> QED BY <3>1
  <2> QED BY <1>5, <1>10, <1>11, <2>1, SameDecoding, Zenon DEF Between
<1> QED BY <1>2, <1>5, <1>12 DEF DecodeInv

LEMMA DecodeStep ==
    ASSUME FieldsHold, DecodeInv, [AreaNext]_areaVars
    PROVE  DecodeInv'
<1>1. CASE Start
  BY <1>1, StartDecodes
<1>2. CASE FollowRef
  BY <1>2, FollowRefDecodes
<1>3. CASE NextEntry
  BY <1>3, NextEntryDecodes
<1>4. CASE ReadName
  BY <1>4, ReadNameDecodes
<1>5. CASE ReadValue
  BY <1>5, ReadValueDecodes
<1>6. CASE EntryDone
  BY <1>6, EntryDoneDecodes
<1>7. CASE UNCHANGED areaVars
  <2>1. UNCHANGED image /\ UNCHANGED <<state, pos, win, refs, entry, found>>
    BY <1>7 DEF areaVars, image
  <2>2. WindowInv'
    <3>1. WindowInv
      BY DEF DecodeInv
    <3> QED BY <1>7, <3>1, FieldsCount, WindowStep
  <2>3. own' = own /\ shared' = shared
    BY <2>1, SameDecoding, Zenon
  <2>4. \A k : /\ Between(k) => Between(k)'
               /\ AtName(k) => AtName(k)'
               /\ InValue(k) => InValue(k)'
    BY <2>1, <2>3, Zenon DEF Between, AtName, InValue, Half, At4, Pre
  <2>5. Written' = Written /\ \A i : Unreadable(i)' = Unreadable(i)
    BY <2>1, SameDecoding, Zenon
  <2>6. /\ state' = "start" => found' = <<>>
        /\ state' = "refs" => found' = SetUpTo(<<>>, shared')[refs']
        /\ state' = "done" => found' = Written'
    BY <2>1, <2>3, <2>5, Zenon DEF DecodeInv
  <2>7. /\ state' = "entry" => \E k \in 0..Len(own') : Between(k)'
        /\ state' = "name" => \E k \in 1..Len(own') : AtName(k)'
        /\ state' = "value" => \E k \in 1..Len(own') : InValue(k)'
        /\ state' = "error" => \E i \in DOMAIN shared' : Unreadable(i)'
    BY <2>1, <2>3, <2>4, <2>5, Zenon DEF DecodeInv
  <2> QED BY <2>2, <2>6, <2>7, Zenon DEF DecodeInv
<1> QED BY <1>1, <1>2, <1>3, <1>4, <1>5, <1>6, <1>7 DEF AreaNext

(* writeXattrs and loadXattrs: every attribute set on an inode is read as  *)
(* it was set, wherever the blocks cut its entry; reading fails only where *)
(* a shared entry cannot be loaded with its block.                         *)
THEOREM XattrsRead ==
    ASSUME FieldsHold
    PROVE  AreaSpec => []DecodedAsSet
<1>1. AreaInit => DecodeInv
  BY DecodeInit
<1>2. DecodeInv /\ [AreaNext]_areaVars => DecodeInv'
  BY DecodeStep
<1>3. DecodeInv => DecodedAsSet
  BY DEF DecodeInv, DecodedAsSet
<1> QED BY <1>1, <1>2, <1>3, PTL DEF AreaSpec

-----------------------------------------------------------------------------
(* The decoder that has the whole area.  Where an entry fits, it is one,   *)
(* and the next is behind it.                                              *)
LEMMA EntryAhead ==
    ASSUME NEW b \in Seq(Nat), NEW p \in Nat, Fits(b, p)
    PROVE  /\ Decoded(b, p) \in Attr /\ After(b, p) \in Nat
           /\ p < After(b, p) /\ After(b, p) <= Len(b) + 3
<1> DEFINE L == Len(b)
           r == Record(b, p)
           n == r.nlen
           v == r.vlen
           e == p + 4 + n + v
<1>1. L \in Nat /\ DOMAIN b = 1..L /\ \A i \in 1..L : b[i] \in Nat
  BY CellsOf, Zenon
<1>2. p + 4 <= L /\ e <= L
  BY Bounds DEF Fits
<1>3. ASSUME NEW j \in 0..3
      PROVE  Byte(b, p + j) \in Nat
  <2>1. (p + j) + 1 \in 1..L
    BY <1>1, <1>2
  <2> QED BY <1>1, <2>1 DEF Byte
<1>4. /\ r.index = Byte(b, p + 1) /\ n = Byte(b, p)
      /\ v = Byte(b, p + 2) + ByteWrap * Byte(b, p + 3)
  BY DEF Record
<1>5. r.index \in Nat /\ n \in Nat /\ v \in Nat
  <2>1. p + 0 = p /\ 0 \in 0..3 /\ 1 \in 0..3 /\ 2 \in 0..3 /\ 3 \in 0..3
    OBVIOUS
  <2>2. Byte(b, p) \in Nat /\ Byte(b, p + 1) \in Nat /\ Byte(b, p + 2) \in Nat /\ Byte(b, p + 3) \in Nat
    BY <1>3, <2>1
  <2> HIDE DEF n, v
  <2> QED BY <1>4, <2>2, Bounds
<1>6. /\ Decoded(b, p) = <<r.index, Bytes(b, p + 4, n), Bytes(b, p + 4 + n, v)>>
      /\ After(b, p) = RoundUp4(e)
  BY Bounds DEF Decoded, After
<1> HIDE DEF r, n, v
<1>7. Bytes(b, p + 4, n) \in Seq(Nat)
  <2>1. p + 4 \in Nat /\ (p + 4) + n <= Len(b)
    BY <1>2, <1>5
  <2> QED BY <1>5, <2>1, BytesAre
<1>8. Bytes(b, p + 4 + n, v) \in Seq(Nat)
  <2>1. p + 4 + n \in Nat /\ (p + 4 + n) + v <= Len(b)
    BY <1>2, <1>5
  <2> QED BY <1>5, <2>1, BytesAre
<1>9. e \in Nat /\ p < e
  BY <1>5
<1> HIDE DEF e
<1>10. RoundUp4(e) \in Nat /\ e <= RoundUp4(e) /\ RoundUp4(e) < e + 4
  BY <1>9, Rounded4
<1>11. RoundUp4(e) <= L + 3 /\ p < RoundUp4(e)
  BY <1>1, <1>2, <1>9, <1>10
<1> QED BY <1>5, <1>6, <1>7, <1>8, <1>10, <1>11 DEF Attr, L

LEMMA ParsedFromIs ==
    ASSUME NEW b \in Seq(Nat)
    PROVE  \A p \in 0..(Len(b) + 3) :
             ParsedFrom(b)[p] = IF Fits(b, p) THEN <<Decoded(b, p)>> \o ParsedFrom(b)[After(b, p)]
                                ELSE <<>>
<1> DEFINE D == 0..(Len(b) + 3)
           V == Seq(Attr)
           M == Len(b) + 3
           m == [p \in D |-> M - p]
           leaf == {p \in D : ~Fits(b, p)}
           v == [p \in D |-> <<>>]
           nx == [p \in D |-> IF Fits(b, p) THEN After(b, p) ELSE 0]
           g == [x \in D \X V |-> IF Fits(b, x[1]) THEN <<Decoded(b, x[1])>> \o x[2] ELSE <<>>]
           Turn(f) == [p \in D |-> IF Fits(b, p) THEN <<Decoded(b, p)>> \o f[After(b, p)] ELSE <<>>]
<1>1. M \in Nat /\ 0 \in D
  BY CellsOf
<1>2. ASSUME NEW p \in D, Fits(b, p)
      PROVE  Decoded(b, p) \in Attr /\ After(b, p) \in D /\ p < After(b, p)
  <2>1. p \in Nat
    OBVIOUS
  <2>2. /\ Decoded(b, p) \in Attr /\ After(b, p) \in Nat
        /\ p < After(b, p) /\ After(b, p) <= Len(b) + 3
    BY <1>2, <2>1, EntryAhead, Zenon
  <2> QED BY <2>2
<1> HIDE DEF V
<1>3. Recursive(D, V, M, m, leaf, v, nx, g)
  <2>1. m \in [D -> 0..M]
    BY <1>1
  <2>2. v \in [D -> V]
    <3>1. <<>> \in V
      BY DEF V
    <3> QED BY <3>1
  <2>3. nx \in [D -> D]
    <3>1. \A p \in D : (IF Fits(b, p) THEN After(b, p) ELSE 0) \in D
      BY <1>1, <1>2
    <3> HIDE DEF D
    <3> QED BY <3>1
  <2>4. g \in [D \X V -> V]
    <3>1. \A p \in D, s \in V : (IF Fits(b, p) THEN <<Decoded(b, p)>> \o s ELSE <<>>) \in V
      <4> SUFFICES ASSUME NEW p \in D, NEW s \in V
                   PROVE  (IF Fits(b, p) THEN <<Decoded(b, p)>> \o s ELSE <<>>) \in V
        OBVIOUS
      <4>1. CASE Fits(b, p)
        <5> DEFINE a == Decoded(b, p)
        <5>1. a \in Attr
          BY <1>2, <4>1
        <5> HIDE DEF a
        <5>2. <<a>> \o s \in V
          BY <5>1 DEF V
        <5> QED BY <4>1, <5>2 DEF a
      <4>2. CASE ~Fits(b, p)
        BY <4>2 DEF V
      <4> QED BY <4>1, <4>2
    <3> HIDE DEF D
    <3>2. \A x \in D \X V : (IF Fits(b, x[1]) THEN <<Decoded(b, x[1])>> \o x[2] ELSE <<>>) \in V
      <4> SUFFICES ASSUME NEW x \in D \X V
                   PROVE  (IF Fits(b, x[1]) THEN <<Decoded(b, x[1])>> \o x[2] ELSE <<>>) \in V
        OBVIOUS
      <4>1. x[1] \in D /\ x[2] \in V
        OBVIOUS
      <4> QED BY <3>1, <4>1, Zenon
    <3> QED BY <3>2
  <2>5. \A p \in D : p \notin leaf => m[nx[p]] < m[p]
    <3> SUFFICES ASSUME NEW p \in D, Fits(b, p)
                 PROVE  m[nx[p]] < m[p]
      OBVIOUS
    <3>1. After(b, p) \in D /\ p < After(b, p)
      BY <1>2
    <3>2. nx[p] = After(b, p)
      OBVIOUS
    <3> HIDE DEF nx
    <3> QED BY <1>1, <3>1, <3>2
  <2> HIDE DEF D, M, m, leaf, v, nx, g
  <2> QED BY <1>1, <2>1, <2>2, <2>3, <2>4, <2>5 DEF Recursive
<1>4. PICK f : Solves(f, D, V, leaf, v, nx, g)
  <2> HIDE DEF D, M, m, leaf, v, nx, g
  <2> QED BY <1>3, Recursion
<1>5. f \in [D -> V] /\ \A p \in D : f[p] = IF p \in leaf THEN v[p] ELSE g[<<p, f[nx[p]]>>]
  <2> HIDE DEF D, V, leaf, v, nx, g
  <2> QED BY <1>4 DEF Solves
<1>6. ASSUME NEW p \in D
      PROVE  f[p] = IF Fits(b, p) THEN <<Decoded(b, p)>> \o f[After(b, p)] ELSE <<>>
  <2>1. CASE Fits(b, p)
    <3>1. After(b, p) \in D
      BY <1>2, <2>1
    <3>2. p \notin leaf /\ nx[p] = After(b, p)
      BY <2>1
    <3>3. f[After(b, p)] \in V
      <4> HIDE DEF D
      <4> QED BY <1>5, <3>1
    <3>4. f[p] = g[<<p, f[After(b, p)]>>]
      <4> HIDE DEF leaf, nx, g, D
      <4> QED BY <1>5, <3>2
    <3> DEFINE s == f[After(b, p)]
    <3> HIDE DEF s
    <3>5. g[<<p, s>>] = <<Decoded(b, p)>> \o s
      <4>1. <<p, s>> \in D \X V
        <5> HIDE DEF D
        <5> QED BY <3>3 DEF s
      <4> HIDE DEF D
      <4> QED BY <2>1, <4>1
    <3> HIDE DEF g
    <3> QED BY <2>1, <3>4, <3>5 DEF s
  <2>2. CASE ~Fits(b, p)
    <3>1. p \in leaf /\ v[p] = <<>>
      BY <2>2
    <3> HIDE DEF leaf, v, nx, g, D
    <3> QED BY <1>5, <2>2, <3>1
  <2> QED BY <2>1, <2>2
<1> HIDE DEF D
<1>7. f = Turn(f)
  <2>1. f = [p \in D |-> f[p]]
    BY <1>5
  <2> QED BY <1>6, <2>1
<1> DEFINE h == CHOOSE k : k = Turn(k)
<1>8. h = Turn(h)
  <2> HIDE DEF Turn
  <2> QED BY <1>7
<1>9. ParsedFrom(b) = h
  BY DEF ParsedFrom, D
<1> HIDE DEF h
<1>10. \A p \in D : h[p] = IF Fits(b, p) THEN <<Decoded(b, p)>> \o h[After(b, p)] ELSE <<>>
  BY <1>8
<1> QED BY <1>9, <1>10 DEF D

LEMMA SameCells ==
    ASSUME NEW S, NEW n \in Nat, NEW s \in Seq(S), NEW t \in Seq(S), Len(s) = n, Len(t) = n,
           \A i \in 1..n : s[i] = t[i]
    PROVE  s = t
  OBVIOUS

LEMMA OneMore ==
    ASSUME NEW S, NEW l \in Seq(S), NEW k \in 0..(Len(l) - 1)
    PROVE  <<l[k + 1]>> \o [i \in 1..(Len(l) - (k + 1)) |-> l[(k + 1) + i]]
             = [i \in 1..(Len(l) - k) |-> l[k + i]]
<1> DEFINE n == Len(l) - (k + 1)
           m == Len(l) - k
           a == <<l[k + 1]>>
           b == [i \in 1..n |-> l[(k + 1) + i]]
           c == [i \in 1..m |-> l[k + i]]
<1>1. n \in Nat /\ m \in Nat /\ m = 1 + n /\ k + 1 \in 1..Len(l)
  OBVIOUS
<1>2. \A i \in 1..n : (k + 1) + i \in 1..Len(l)
  OBVIOUS
<1>3. \A i \in 1..m : k + i \in 1..Len(l)
  OBVIOUS
<1>4. \A j \in 1..Len(l) : l[j] \in S
  OBVIOUS
<1> HIDE DEF n, m
<1>5. a \in Seq(S) /\ Len(a) = 1 /\ a[1] = l[k + 1]
  BY <1>1, <1>4
<1>6. b \in Seq(S) /\ Len(b) = n /\ \A i \in 1..n : b[i] = l[(k + 1) + i]
  BY <1>1, <1>2, <1>4
<1>7. c \in Seq(S) /\ Len(c) = m /\ \A i \in 1..m : c[i] = l[k + i]
  BY <1>1, <1>3, <1>4
<1> HIDE DEF a, b, c
<1> DEFINE ab == a \o b
<1>8. /\ ab \in Seq(S) /\ Len(ab) = m
      /\ \A i \in 1..m : ab[i] = IF i <= 1 THEN a[i] ELSE b[i - 1]
  <2>1. /\ ab \in Seq(S) /\ Len(ab) = Len(a) + Len(b)
        /\ \A i \in 1..(Len(a) + Len(b)) : ab[i] = IF i <= Len(a) THEN a[i] ELSE b[i - Len(a)]
    BY <1>5, <1>6, Joined, Zenon
  <2> HIDE DEF ab
  <2> QED BY <1>1, <1>5, <1>6, <2>1
<1> HIDE DEF ab
<1>9. ASSUME NEW i \in 1..m
      PROVE  ab[i] = c[i]
  <2>1. CASE i = 1
    BY <1>5, <1>7, <1>8, <2>1
  <2>2. CASE i # 1
    <3>1. i - 1 \in 1..n /\ ~(i <= 1) /\ (k + 1) + (i - 1) = k + i
      BY <1>1, <2>2
    <3>2. ab[i] = b[i - 1] /\ b[i - 1] = l[(k + 1) + (i - 1)]
      BY <1>6, <1>8, <3>1
    <3> QED BY <1>7, <3>1, <3>2
  <2> QED BY <2>1, <2>2
<1>10. ab = c
  BY <1>1, <1>7, <1>8, <1>9, SameCells, Zenon
<1> QED BY <1>10 DEF ab, a, b, c, n, m

(* What it takes from the entries of the inode, counted from the end.      *)
LEMMA OwnParsed ==
    ASSUME FieldsHold, Images, xsize # 0
    PROVE  /\ xsize = Len(Area) /\ ParsedFrom(Area)[At4(0)] = own
           /\ At4(0) = 12 + 4 * Len(shared) /\ At4(0) <= Len(Area)
<1> DEFINE N == Len(own)
           L == Len(Area)
           Rest(k) == [i \in 1..(N - k) |-> own[k + i]]
           T == {n \in 0..N : ParsedFrom(Area)[At4(N - n)] = Rest(N - n)}
<1>1. /\ own \in Seq(Attr) /\ shared \in Seq(Attr) /\ N \in Nat /\ Area \in Seq(Nat) /\ L \in Nat
      /\ L = AreaLength(own, shared)
  BY ImagesAre, SizesAre, Zenon
<1>2. xsize = L
  <2>1. own # <<>> \/ shared # <<>>
    BY SizesAre, Zenon
  <2> QED BY <2>1, FieldsAre, SizesAre, Zenon
<1>3. \A k \in 0..N : At4(k) \in 0..(L + 3) /\ At4(k) <= L /\ At4(k) \in Nat
  <2> SUFFICES ASSUME NEW k \in 0..N
               PROVE  At4(k) \in 0..(L + 3) /\ At4(k) <= L /\ At4(k) \in Nat
    OBVIOUS
  <2>1. At4(k) \in Nat /\ At4(k) <= L
    BY <1>1, EntriesFollow, Zenon DEF At4
  <2> HIDE DEF L
  <2> QED BY <1>1, <2>1
<1>4. At4(N) = L /\ At4(0) = 12 + 4 * Len(shared)
  BY <1>1, EntriesFollow, Zenon DEF At4
<1>5. \A p \in 0..(L + 3) :
        ParsedFrom(Area)[p] = IF Fits(Area, p)
                              THEN <<Decoded(Area, p)>> \o ParsedFrom(Area)[After(Area, p)]
                              ELSE <<>>
  BY <1>1, ParsedFromIs, Zenon
<1> HIDE DEF L
<1>6. 0 \in T
  <2>1. 0 \in 0..N /\ N - 0 = N /\ N \in 0..N
    BY <1>1
  <2>2. ~Fits(Area, At4(N))
    <3>1. ~(At4(N) + 4 <= Len(Area))
      BY <1>1, <1>4 DEF L
    <3> QED BY <3>1, Bounds DEF Fits
  <2>3. ParsedFrom(Area)[At4(N)] = <<>>
    BY <1>3, <1>5, <2>1, <2>2
  <2>4. Rest(N) = <<>>
    BY <1>1
  <2> HIDE DEF Rest
  <2> QED BY <2>1, <2>3, <2>4
<1>7. ASSUME NEW n \in 0..N, n \in T, n < N
      PROVE  n + 1 \in T
  <2> DEFINE k == N - (n + 1)
  <2>1. k \in 0..(N - 1) /\ k + 1 = N - n /\ k \in 0..N /\ k + 1 \in 1..N /\ (k + 1) - 1 = k
        /\ n + 1 \in 0..N
    BY <1>1, <1>7
  <2>2. ParsedFrom(Area)[At4(k + 1)] = Rest(k + 1)
    <3>1. ParsedFrom(Area)[At4(N - n)] = Rest(N - n)
      BY <1>7
    <3> HIDE DEF k, Rest
    <3> QED BY <2>1, <3>1
  <2> HIDE DEF k
  <2> DEFINE a == own[k + 1]
             p == At4(k)
             l == LengthOf(a)
  <2>3. /\ a \in Attr /\ FieldsFit(a) /\ l \in Nat /\ p \in Nat
        /\ p + l <= At4(k + 1) /\ At4(k + 1) = RoundUp4(p + l)
        /\ \A j \in 1..l : Area[p + j] = Entry(a)[j]
    <3>1. /\ a \in Attr /\ FieldsFit(a) /\ l \in Nat
          /\ EntryAt(own, shared, (k + 1) - 1) \in Nat
          /\ EntryAt(own, shared, (k + 1) - 1) + l <= EntryAt(own, shared, k + 1)
          /\ EntryAt(own, shared, k + 1) = RoundUp4(EntryAt(own, shared, (k + 1) - 1) + l)
          /\ \A j \in 1..l : Area[EntryAt(own, shared, (k + 1) - 1) + j] = Entry(a)[j]
      BY <2>1, OwnEntry, Zenon
    <3> HIDE DEF a, l
    <3> QED BY <2>1, <3>1, Zenon DEF At4
  <2> HIDE DEF a, p, l
  <2>4. p + l <= Len(Area)
    <3>1. k + 1 \in 0..N
      BY <2>1
    <3>2. At4(k + 1) <= L /\ At4(k + 1) \in Nat
      BY <1>3, <3>1
    <3> QED BY <1>1, <2>3, <3>2 DEF L
  <2>5. Decoded(Area, p) = a /\ After(Area, p) = At4(k + 1)
    BY <1>1, <2>3, <2>4, EntryRead, Zenon DEF l
  <2>6. Fits(Area, p)
    <3>1. \A j \in 1..l : p + j <= Len(Area) => Area[p + j] = Entry(a)[j]
      BY <2>3
    <3> QED BY <1>1, <2>3, <2>4, <3>1, FitsIs, Zenon DEF l
  <2>7. ParsedFrom(Area)[p] = <<a>> \o Rest(k + 1)
    <3>1. p \in 0..(L + 3)
      BY <1>3, <2>1 DEF p
    <3> HIDE DEF Rest
    <3> QED BY <1>5, <2>2, <2>5, <2>6, <3>1
  <2>8. <<a>> \o Rest(k + 1) = Rest(k)
    <3>1. k \in 0..(Len(own) - 1)
      BY <2>1
    <3> QED BY <1>1, <3>1, OneMore, Zenon DEF a
  <2>9. ParsedFrom(Area)[At4(k)] = Rest(k)
    BY <2>7, <2>8, Zenon DEF p
  <2>10. ParsedFrom(Area)[At4(N - (n + 1))] = Rest(N - (n + 1))
    BY <2>9, Zenon DEF k
  <2> HIDE DEF Rest
  <2> QED BY <2>1, <2>10
<1>8. N \in T
  <2> HIDE DEF T
  <2>1. 0..N \subseteq T
    <3> HIDE DEF N
    <3> QED BY <1>1, <1>6, <1>7, BoundedInduction
  <2> QED BY <1>1, <2>1
<1>9. ParsedFrom(Area)[At4(0)] = Rest(0)
  <2>1. N - N = 0
    BY <1>1
  <2>2. ParsedFrom(Area)[At4(N - N)] = Rest(N - N)
    BY <1>8
  <2> HIDE DEF N, Rest
  <2> QED BY <2>1, <2>2
<1>10. Rest(0) = own
  <2>1. own = [i \in 1..N |-> own[i]]
    BY <1>1
  <2>2. Rest(0) = [i \in 1..N |-> own[i]]
    BY <1>1
  <2> QED BY <2>1, <2>2
<1>11. At4(0) <= L
  <2>1. 0 \in 0..N
    BY <1>1
  <2> QED BY <1>3, <2>1
<1> QED BY <1>2, <1>4, <1>9, <1>10, <1>11, Zenon DEF L

-----------------------------------------------------------------------------
(* Following the references, as ParsedShared does.                         *)
LEMMA SharedUpTo ==
    ASSUME NEW buf, SharedRefs(buf) \in Nat
    PROVE  \E u : /\ u[0] = <<>> /\ u[SharedRefs(buf)] = ParsedShared(buf)
                  /\ \A k \in 1..SharedRefs(buf) :
                       u[k] = WithEntry(u[k - 1], At(RefAt(buf, HeaderSize + 4 * (k - 1))))
<1> DEFINE N == SharedRefs(buf)
           Grown(h, k) == WithEntry(h[k - 1], At(RefAt(buf, HeaderSize + 4 * (k - 1))))
           Turn(n, h) == [k \in 0..n |-> IF k = 0 THEN <<>> ELSE Grown(h, k)]
           T == {n \in 0..N : \E h : h = Turn(n, h)}
<1>1. 0 \in T
  <2> DEFINE z == [k \in 0..0 |-> <<>>]
  <2>1. z = Turn(0, z)
    <3>1. \A k \in 0..0 : k = 0
      OBVIOUS
    <3> HIDE DEF Grown
    <3> QED BY <3>1
  <2> HIDE DEF z, Turn
  <2> QED BY <2>1
<1>2. ASSUME NEW n \in 0..N, n \in T, n < N
      PROVE  n + 1 \in T
  <2>1. PICK h : h = Turn(n, h)
    BY <1>2
  <2> DEFINE e == [k \in 0..(n + 1) |-> IF k <= n THEN h[k] ELSE Grown(h, k)]
  <2>2. ASSUME NEW k \in 0..n
        PROVE  e[k] = h[k]
    <3>1. k \in 0..(n + 1) /\ k <= n
      OBVIOUS
    <3> HIDE DEF Grown, Turn
    <3> QED BY <3>1
  <2>3. ASSUME NEW k \in 0..(n + 1)
        PROVE  e[k] = IF k = 0 THEN <<>> ELSE Grown(e, k)
    <3>1. CASE k = 0
      <4>1. 0 \in 0..n
        OBVIOUS
      <4>2. h[0] = <<>>
        <5> HIDE DEF Grown
        <5> QED BY <2>1, <4>1
      <4> HIDE DEF e, Grown
      <4> QED BY <2>2, <3>1, <4>1, <4>2
    <3>2. CASE k # 0
      <4>1. k - 1 \in 0..n /\ e[k - 1] = h[k - 1]
        <5>1. k - 1 \in 0..n
          BY <3>2
        <5> HIDE DEF e
        <5> QED BY <2>2, <5>1
      <4>2. Grown(e, k) = Grown(h, k)
        <5> HIDE DEF e
        <5> QED BY <4>1
      <4>3. e[k] = Grown(h, k)
        <5>1. CASE k <= n
          <6>1. k \in 0..n
            BY <5>1
          <6>2. h[k] = Grown(h, k)
            <7> HIDE DEF Grown
            <7> QED BY <2>1, <3>2, <6>1
          <6> HIDE DEF e, Grown
          <6> QED BY <2>2, <6>1, <6>2
        <5>2. CASE ~(k <= n)
          <6> HIDE DEF Grown
          <6> QED BY <5>2
        <5> QED BY <5>1, <5>2
      <4> HIDE DEF e, Grown
      <4> QED BY <3>2, <4>2, <4>3
    <3> QED BY <3>1, <3>2
  <2>4. e = Turn(n + 1, e)
    <3>1. e = [k \in 0..(n + 1) |-> e[k]]
      OBVIOUS
    <3> HIDE DEF e, Grown
    <3> QED BY <2>3, <3>1
  <2> HIDE DEF e, Turn
  <2>5. n + 1 \in 0..N
    BY <1>2
  <2> QED BY <2>4, <2>5
<1>3. PICK h : h = Turn(N, h)
  <2>1. 0..N \subseteq T
    <3> HIDE DEF T, N
    <3> QED BY <1>1, <1>2, BoundedInduction DEF N
  <2>2. N \in 0..N
    OBVIOUS
  <2> HIDE DEF Turn
  <2> QED BY <2>1, <2>2
<1> DEFINE s == CHOOSE g : g = Turn(N, g)
<1>4. s = Turn(N, s)
  <2> HIDE DEF Turn
  <2> QED BY <1>3
<1>5. ParsedShared(buf) = s[N]
  BY DEF ParsedShared
<1> HIDE DEF s
<1>6. \A k \in 0..N : s[k] = IF k = 0 THEN <<>> ELSE Grown(s, k)
  <2> HIDE DEF Grown
  <2> QED BY <1>4
<1>7. s[0] = <<>>
  <2>1. 0 \in 0..N
    OBVIOUS
  <2> QED BY <1>6, <2>1
<1>8. ASSUME NEW k \in 1..N
      PROVE  s[k] = Grown(s, k)
  <2>1. k \in 0..N /\ k # 0
    OBVIOUS
  <2> HIDE DEF Grown
  <2> QED BY <1>6, <2>1
<1> QED BY <1>5, <1>7, <1>8

(* What f has, g has too.                                                  *)
PartOf(f, g) == \A n \in DOMAIN f : n \in DOMAIN g /\ f[n] = g[n]

LEMMA SetIs ==
    ASSUME NEW f, NEW n, NEW v
    PROVE  /\ \A m : m \in DOMAIN Set(f, n, v) <=> m = n \/ m \in DOMAIN f
           /\ Set(f, n, v)[n] = v
           /\ \A m \in DOMAIN f : m # n => Set(f, n, v)[m] = f[m]
  BY DEF Set

LEMMA SetBoth ==
    ASSUME NEW f, NEW g, NEW n, NEW v, PartOf(f, g)
    PROVE  PartOf(Set(f, n, v), Set(g, n, v))
<1> DEFINE x == Set(f, n, v)
           y == Set(g, n, v)
<1>1. (\A m : m \in DOMAIN x <=> m = n \/ m \in DOMAIN f) /\ x[n] = v /\ \A m \in DOMAIN f : m # n => x[m] = f[m]
  BY SetIs
<1>2. (\A m : m \in DOMAIN y <=> m = n \/ m \in DOMAIN g) /\ y[n] = v /\ \A m \in DOMAIN g : m # n => y[m] = g[m]
  BY SetIs
<1> HIDE DEF x, y
<1>3. PartOf(x, y)
  BY <1>1, <1>2 DEF PartOf
<1> QED BY <1>3 DEF x, y

LEMMA SetAllBoth ==
    ASSUME NEW f, NEW g, PartOf(f, g), NEW list, Len(list) \in Nat
    PROVE  PartOf(SetAll(f, list), SetAll(g, list))
<1> DEFINE N == Len(list)
           s == SetUpTo(f, list)
           t == SetUpTo(g, list)
           T == {k \in 0..N : PartOf(s[k], t[k])}
<1>1. /\ s[0] = f /\ \A k \in 1..N : s[k] = Set(s[k - 1], Name(list[k]), list[k][3])
      /\ t[0] = g /\ \A k \in 1..N : t[k] = Set(t[k - 1], Name(list[k]), list[k][3])
  <2>1. s[0] = f /\ \A k \in 1..N : s[k] = Set(s[k - 1], Name(list[k]), list[k][3])
    BY SetUpToIs
  <2>2. t[0] = g /\ \A k \in 1..N : t[k] = Set(t[k - 1], Name(list[k]), list[k][3])
    BY SetUpToIs
  <2> QED BY <2>1, <2>2, Zenon
<1>2. SetAll(f, list) = s[N] /\ SetAll(g, list) = t[N]
  BY DEF SetAll
<1> HIDE DEF s, t
<1>3. 0 \in T
  BY <1>1
<1>4. ASSUME NEW k \in 0..N, k \in T, k < N
      PROVE  k + 1 \in T
  <2>1. k + 1 \in 1..N /\ (k + 1) - 1 = k /\ k + 1 \in 0..N
    BY <1>4
  <2>2. PartOf(s[k], t[k])
    BY <1>4
  <2>3. /\ s[k + 1] = Set(s[k], Name(list[k + 1]), list[k + 1][3])
        /\ t[k + 1] = Set(t[k], Name(list[k + 1]), list[k + 1][3])
    BY <1>1, <2>1
  <2>4. PartOf(s[k + 1], t[k + 1])
    BY <2>2, <2>3, SetBoth, Zenon
  <2> QED BY <2>1, <2>4
<1>5. N \in T
  <2>1. 0..N \subseteq T
    <3> HIDE DEF T, N
    <3> QED BY <1>3, <1>4, BoundedInduction DEF N
  <2> QED BY <2>1
<1> QED BY <1>2, <1>5

(* The names set by the first k shared ones.                               *)
LEMMA NamesSet ==
    ASSUME Images, NEW k \in 0..Len(shared)
    PROVE  \A n \in DOMAIN SetUpTo(<<>>, shared)[k] : \E i \in 1..k : n = Name(shared[i])
<1> DEFINE N == Len(shared)
           s == SetUpTo(<<>>, shared)
           Named(j) == \A n \in DOMAIN s[j] : \E i \in 1..j : n = Name(shared[i])
           T == {j \in 0..N : Named(j)}
<1>1. N \in Nat /\ s[0] = <<>> /\ \A j \in 1..N : s[j] = Set(s[j - 1], Name(shared[j]), shared[j][3])
  BY ImagesAre, PreAre, Zenon
<1> HIDE DEF s
<1>2. 0 \in T
  BY <1>1
<1>3. ASSUME NEW j \in 0..N, j \in T, j < N
      PROVE  j + 1 \in T
  <2>1. j + 1 \in 1..N /\ (j + 1) - 1 = j /\ j + 1 \in 0..N /\ j + 1 \in 1..(j + 1)
        /\ \A i \in 1..j : i \in 1..(j + 1)
    BY <1>1, <1>3
  <2>2. s[j + 1] = Set(s[j], Name(shared[j + 1]), shared[j + 1][3])
    BY <1>1, <2>1
  <2>3. \A n : n \in DOMAIN s[j + 1] <=> n = Name(shared[j + 1]) \/ n \in DOMAIN s[j]
    BY <2>2, SetIs
  <2>4. Named(j)
    BY <1>3
  <2>5. Named(j + 1)
    BY <2>1, <2>3, <2>4, Zenon
  <2> HIDE DEF Named
  <2> QED BY <2>1, <2>5
<1>4. 0..N \subseteq T
  <2> HIDE DEF T, N
  <2> QED BY <1>1, <1>2, <1>3, BoundedInduction
<1>5. Named(k)
  <2> HIDE DEF Named
  <2> QED BY <1>4
<1> QED BY <1>5 DEF s

(* What a shared entry is parsed from.                                     *)
LEMMA AtIs ==
    ASSUME Images, NEW k \in 1..Len(shared)
    PROVE  \E n \in Nat : /\ Place(shared, k) + n <= Len(Blocks)
                          /\ At(Place(shared, k)) = Bytes(Blocks, Place(shared, k), n)
                          /\ inMeta => LengthOf(shared[k]) <= n
<1> DEFINE o == Place(shared, k)
           L == Len(Blocks)
           l == LengthOf(shared[k])
           B == BlockSize
           e == (o \div B + 1) * B
           m == Min({L, e})
<1>1. L \in Nat /\ o \in Nat /\ l \in Nat /\ o + l <= L
  BY BlocksAre, Zenon
<1>2. B \in Nat /\ B > 0 /\ B \in Nat \ {0}
  BY Bounds
<1>3. At(o) = IF inMeta THEN Bytes(Blocks, o, L - o) ELSE Bytes(Blocks, o, m - o)
  BY DEF At
<1> HIDE DEF o, l, L, B
<1>4. e \in Nat /\ o <= e
  <2> DEFINE q == o \div B
  <2>1. q \in Nat /\ q * B <= o /\ o < q * B + B
    BY <1>1, <1>2, Division
  <2> HIDE DEF q
  <2>2. (q + 1) * B = q * B + B /\ q * B \in Nat
    BY <1>2, <2>1
  <2>3. (q + 1) * B \in Nat /\ o <= (q + 1) * B
    BY <1>1, <1>2, <2>1, <2>2
  <2> QED BY <2>3 DEF q
<1> HIDE DEF e
<1>5. m = IF L <= e THEN L ELSE e
  BY <1>1, <1>4, LeastOfTwo
<1> HIDE DEF m
<1>6. CASE inMeta
  <2>1. L - o \in Nat /\ o + (L - o) <= L /\ l <= L - o
    BY <1>1
  <2>2. At(o) = Bytes(Blocks, o, L - o)
    BY <1>3, <1>6
  <2> QED BY <2>1, <2>2 DEF o, L, l
<1>7. CASE ~inMeta
  <2>1. m - o \in Nat /\ o + (m - o) <= L
    BY <1>1, <1>4, <1>5
  <2>2. At(o) = Bytes(Blocks, o, m - o)
    BY <1>3, <1>7
  <2> QED BY <1>7, <2>1, <2>2 DEF o, L, l
<1> QED BY <1>6, <1>7

(* The shared ones: all of them out of the metadata, else some.            *)
LEMMA SharedParsed ==
    ASSUME FieldsHold, Images, xsize # 0
    PROVE  /\ SharedRefs(Area) = Len(shared)
           /\ PartOf(ParsedShared(Area), SetAll(<<>>, shared))
           /\ inMeta => ParsedShared(Area) = SetAll(<<>>, shared)
<1> DEFINE N == Len(shared)
           L == Len(Area)
           s == SetUpTo(<<>>, shared)
           q == (L - HeaderSize) \div 4
<1>1. /\ N \in Nat /\ L \in Nat /\ shared \in Seq(Attr) /\ own \in Seq(Attr)
      /\ Area \in Seq(Nat) /\ Area = AreaOf(own, shared)
  BY ImagesAre, SizesAre, Zenon
<1>2. SharedRefs(Area) = N
  <2>1. 12 + 4 * N <= L
    BY OwnParsed, Zenon
  <2>2. Byte(Area, 4) = N
    <3>1. AreaOf(own, shared)[5] = N
      BY <1>1, AreaIs, Zenon
    <3> HIDE DEF N
    <3>2. Byte(Area, 4) = Area[5]
      BY DEF Byte
    <3> QED BY <1>1, <3>1, <3>2, Zenon
  <2>3. SharedRefs(Area) = Min({N, q})
    BY <2>2 DEF SharedRefs
  <2>4. q \in Int /\ N <= q
    <3> HIDE DEF N, L
    <3> QED BY <1>1, <2>1, Bounds
  <2> HIDE DEF q
  <2> QED BY <1>1, <2>3, <2>4, LeastOfTwo
<1>3. PICK u : /\ u[0] = <<>> /\ u[N] = ParsedShared(Area)
               /\ \A k \in 1..N :
                    u[k] = WithEntry(u[k - 1], At(RefAt(Area, HeaderSize + 4 * (k - 1))))
  <2>1. SharedRefs(Area) \in Nat
    BY <1>1, <1>2
  <2>2. \E h : /\ h[0] = <<>> /\ h[SharedRefs(Area)] = ParsedShared(Area)
               /\ \A k \in 1..SharedRefs(Area) :
                    h[k] = WithEntry(h[k - 1], At(RefAt(Area, HeaderSize + 4 * (k - 1))))
    BY <2>1, SharedUpTo, Zenon
  <2> QED BY <1>2, <2>2, Zenon
<1>4. /\ s[0] = <<>> /\ s[N] = SetAll(<<>>, shared)
      /\ \A k \in 1..N : s[k] = Set(s[k - 1], Name(shared[k]), shared[k][3])
  BY PreAre, Zenon
<1>5. \A i, j \in 1..N : Name(shared[i]) = Name(shared[j]) => i = j
  BY FieldsAre, Zenon
<1>6. ASSUME NEW k \in 1..N
      PROVE  RefAt(Area, HeaderSize + 4 * (k - 1)) = Place(shared, k)
  <2> DEFINE p == HeaderSize + 4 * (k - 1)
  <2>1. p = 12 + 4 * (k - 1) /\ p \in Nat
    <3> HIDE DEF N
    <3> QED BY <1>1, Bounds
  <2>2. Place(shared, k) \in Nat /\ Place(shared, k) % 4 = 0
    BY BlocksAre, Zenon
  <2>3. \A j \in 1..4 : AreaOf(own, shared)[12 + 4 * (k - 1) + j] = Ref(Place(shared, k))[j]
    BY <1>1, AreaIs, Zenon
  <2> HIDE DEF p
  <2>4. \A j \in 1..4 : Area[p + j] = Ref(Place(shared, k))[j]
    BY <1>1, <2>1, <2>3, Zenon
  <2>5. RefAt(Area, p) = Place(shared, k)
    BY <1>1, <2>1, <2>2, <2>4, RefRead, Zenon
  <2> QED BY <2>5 DEF p
<1> HIDE DEF s
<1> DEFINE Good(k) == PartOf(u[k], s[k]) /\ (inMeta => u[k] = s[k])
           T == {k \in 0..N : Good(k)}
<1>7. 0 \in T
  BY <1>1, <1>3, <1>4 DEF PartOf
<1>8. ASSUME NEW k \in 0..N, k \in T, k < N
      PROVE  k + 1 \in T
  <2>1. k + 1 \in 1..N /\ (k + 1) - 1 = k /\ k + 1 \in 0..N
    BY <1>1, <1>8
  <2> DEFINE a == shared[k + 1]
             o == Place(shared, k + 1)
  <2>2. PICK n \in Nat : /\ o + n <= Len(Blocks) /\ At(o) = Bytes(Blocks, o, n)
                         /\ inMeta => LengthOf(a) <= n
    BY <2>1, AtIs, Zenon
  <2>3. u[k + 1] = WithEntry(u[k], At(o))
    BY <1>3, <1>6, <2>1
  <2>4. WithEntry(u[k], At(o)) = IF LengthOf(a) <= n THEN Set(u[k], Name(a), a[3]) ELSE u[k]
    BY <2>1, <2>2, SharedRead, Zenon
  <2>5. s[k + 1] = Set(s[k], Name(a), a[3])
    BY <1>4, <2>1
  <2>6. PartOf(u[k], s[k]) /\ (inMeta => u[k] = s[k])
    BY <1>8
  <2>7. CASE LengthOf(a) <= n
    <3>1. u[k + 1] = Set(u[k], Name(a), a[3])
      BY <2>3, <2>4, <2>7
    <3>2. PartOf(u[k + 1], s[k + 1])
      BY <2>5, <2>6, <3>1, SetBoth, Zenon
    <3>3. inMeta => u[k + 1] = s[k + 1]
      BY <2>5, <2>6, <3>1, Zenon
    <3> QED BY <2>1, <3>2, <3>3
  <2>8. CASE ~(LengthOf(a) <= n)
    <3>1. u[k + 1] = u[k] /\ ~inMeta
      BY <2>2, <2>3, <2>4, <2>8, Zenon
    <3>2. Name(a) \notin DOMAIN s[k]
      <4> SUFFICES ASSUME Name(a) \in DOMAIN s[k]
                   PROVE  FALSE
        OBVIOUS
      <4>1. PICK i \in 1..k : Name(a) = Name(shared[i])
        BY NamesSet, Zenon DEF s
      <4>2. i \in 1..N /\ i # k + 1
        BY <1>1, <2>1
      <4> QED BY <1>5, <2>1, <4>1, <4>2
    <3>3. /\ \A m : m \in DOMAIN s[k + 1] <=> m = Name(a) \/ m \in DOMAIN s[k]
          /\ \A m \in DOMAIN s[k] : m # Name(a) => s[k + 1][m] = s[k][m]
      BY <2>5, SetIs
    <3> DEFINE c == Name(a)
    <3> HIDE DEF c
    <3>4. PartOf(u[k], s[k + 1])
      <4>1. /\ c \notin DOMAIN s[k]
            /\ \A m : m \in DOMAIN s[k + 1] <=> m = c \/ m \in DOMAIN s[k]
            /\ \A m \in DOMAIN s[k] : m # c => s[k + 1][m] = s[k][m]
        BY <3>2, <3>3 DEF c
      <4> HIDE DEF a, o
      <4> QED BY <2>6, <4>1 DEF PartOf
    <3> QED BY <2>1, <3>1, <3>4
  <2> QED BY <2>7, <2>8
<1>9. N \in T
  <2>1. 0..N \subseteq T
    <3> HIDE DEF T, N
    <3> QED BY <1>1, <1>7, <1>8, BoundedInduction
  <2> QED BY <1>1, <2>1
<1> QED BY <1>2, <1>3, <1>4, <1>9

(* What the decoder of image copies gives of what was set.                 *)
LEMMA ParsedIs ==
    ASSUME FieldsHold, Images
    PROVE  PartOf(Parsed, Written) /\ (inMeta => Parsed = Written)
<1>1. CASE xsize = 0
  <2>1. Parsed = <<>>
    BY <1>1 DEF Parsed
  <2>2. Written = <<>>
    <3>1. xsize < 12
      BY <1>1
    <3> QED BY <3>1, NothingToRead, Zenon
  <2> QED BY <2>1, <2>2 DEF PartOf
<1>2. CASE xsize # 0
  <2> DEFINE f == ParsedShared(Area)
             g == SetAll(<<>>, shared)
  <2>1. /\ xsize = Len(Area) /\ ParsedFrom(Area)[At4(0)] = own
        /\ At4(0) = 12 + 4 * Len(shared)
    BY <1>2, OwnParsed, Zenon
  <2>2. SharedRefs(Area) = Len(shared) /\ PartOf(f, g) /\ (inMeta => f = g)
    BY <1>2, SharedParsed, Zenon
  <2>3. Bytes(Behind, 0, xsize) = Area
    <3>1. Area \in Seq(Nat) /\ Len(Area) \in Nat
      BY SizesAre, Zenon
    <3>2. 0 \in Nat /\ 0 + Len(Area) <= Len(Area)
      BY <3>1
    <3>3. Bytes(Behind, 0, Len(Area)) = Bytes(Area, 0, Len(Area))
      BY <3>1, <3>2, BehindIs, Zenon
    <3> QED BY <2>1, <3>1, <3>3, AllBytes, Zenon
  <2>4. Parsed = SetAll(f, own)
    <3>1. Parsed = SetAll(ParsedShared(Area), ParsedFrom(Area)[HeaderSize + 4 * SharedRefs(Area)])
      BY <1>2, <2>3, Zenon DEF Parsed
    <3>2. HeaderSize + 4 * SharedRefs(Area) = At4(0)
      BY <2>1, <2>2, Bounds, Zenon
    <3> QED BY <2>1, <3>1, <3>2, Zenon
  <2>5. Written = SetAll(g, own)
    BY DEF Written
  <2>6. Len(own) \in Nat
    BY ImagesAre, Zenon
  <2> HIDE DEF f, g
  <2>7. PartOf(SetAll(f, own), SetAll(g, own))
    BY <2>2, <2>6, SetAllBoth, Zenon
  <2> QED BY <2>2, <2>4, <2>5, <2>7, Zenon
<1> QED BY <1>1, <1>2

(* parseXattrsFromBuf: the decoder of image copies gives what loadXattrs   *)
(* gives when the shared entries are in the metadata it has read, and      *)
(* nothing else otherwise.                                                 *)
THEOREM CopiesReadTheSame ==
    ASSUME FieldsHold
    PROVE  AreaSpec => []DecodersAgree
<1>1. AreaInit => DecodeInv
  BY DecodeInit
<1>2. DecodeInv /\ [AreaNext]_areaVars => DecodeInv'
  BY DecodeStep
<1>3. DecodeInv => DecodersAgree
  <2> SUFFICES ASSUME DecodeInv, state = "done"
               PROVE  (inMeta => Parsed = found) /\ PartOf(Parsed, found)
    BY Zenon DEF DecodersAgree, PartOf
  <2>1. Images /\ found = Written
    BY DEF DecodeInv, WindowInv
  <2> QED BY <2>1, ParsedIs, Zenon
<1> QED BY <1>1, <1>2, <1>3, PTL DEF AreaSpec
=============================================================================
