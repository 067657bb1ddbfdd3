------------------------------ MODULE WriterTree ------------------------------
(***************************************************************************)
(* The Writer's tree of fsEntry objects (src/mkfs.go, src/mkfs_image.go):  *)
(* entries created by calls, by the fs.WalkDir callback of CopyFrom and by *)
(* the metadata-only fast path copyFromImage; removed by whiteout markers; *)
(* serialised by Close through the child lists.                            *)
(*                                                                         *)
(* An fsEntry is <<path, generation>>: the n-th object made for that path. *)
(* Objects that were removed stay reachable through parent pointers and    *)
(* child lists, as they do in the program, so a path may have several.     *)
(***************************************************************************)
EXTENDS Namespace

CONSTANTS
    Calls,        \* <<path, kind>> pairs the caller may Create/Mkdir/...
    WalkOrder,    \* <<p, q>>: fs.WalkDir visits p before q
    QueueOrder,   \* <<p, q>>: copyFromImage dequeues p before q
    NoCopy,       \* no CopyFrom is running
    MaxGen,       \* bound: objects per path
    MaxOps        \* bound: calls

VARIABLES
    byPath,       \* path -> generation registered in the map, 0 if none
    gens,         \* path -> objects made so far
    ent,          \* entry -> its fields
    live,         \* the entries made and not marked removed
    copy,         \* the running CopyFrom: layer, options, items to visit
    closed,
    image,        \* what Close serialised
    ops,          \* calls so far; the "from" of what a call writes
    ok,           \* the last call that ended returned no error
    base          \* history: what the tree held when the copy began

vars == <<byPath, gens, ent, live, copy, closed, image, ops, ok,
          base>>

Id == Path \X (1..MaxGen)
RootId == <<Root, 1>>
Entry == [kind : Kind, from : Nat, above : SUBSET Id]
Blank == [kind |-> "file", from |-> 0, above |-> {}]

Copying == [layer : Layers, merge : BOOLEAN, fast : BOOLEAN,
            todo : SUBSET Path, n : Nat]

ASSUME BoundAssumption == MaxGen \in Nat \ {0} /\ MaxOps \in Nat

ASSUME CallAssumption == Calls \subseteq (Path \ {Root}) \X Kind

ASSUME NoCopyAssumption == NoCopy \notin Copying

(* Both visits are total and reach a directory before what is in it.       *)
StrictOrder(R) ==
    /\ \A p, q \in Path : p # q => (<<p, q>> \in R) # (<<q, p>> \in R)
    /\ \A p \in Path : <<p, p>> \notin R
    /\ \A p, q, r \in Path : <<p, q>> \in R /\ <<q, r>> \in R => <<p, r>> \in R
    /\ \A p \in Path : \A a \in Anc[p] : <<a, p>> \in R

ASSUME OrderAssumption == StrictOrder(WalkOrder) /\ StrictOrder(QueueOrder)

-----------------------------------------------------------------------------
(* Reading the tree.                                                       *)

Registered(p) == byPath[p] # 0
Reg(p) == <<p, byPath[p]>>

(* Close walks the child lists from the root and skips removed children,   *)
(* descending into directories only: an entry is serialised when it and    *)
(* every object above it are live, and those above are directories.        *)
Reached(e) ==
    e \in live /\ \A a \in ent[e].above : a \in live /\ ent[a].kind = "dir"

(* Where Close puts an entry: under the names of the objects above it.     *)
Serialised ==
    {[path |-> e[1], under |-> {a[1] : a \in ent[e].above},
      kind |-> ent[e].kind, from |-> ent[e].from] : e \in {l \in live : Reached(l)}}

-----------------------------------------------------------------------------
(* Adding entries.                                                         *)

(* addChild for the entries of the paths new, top down: the first hangs    *)
(* from the object b, each other one from the new entry of its parent.     *)
(* Only p itself is new from the call src; the rest are the implicit       *)
(* directories of ensureParent.                                            *)
Attach(p, new, b, k, src) ==
    LET made(q) == <<q, gens[q] + 1>>
    IN  /\ \A q \in new : gens[q] < MaxGen
        /\ gens' = [q \in Path |-> IF q \in new THEN gens[q] + 1 ELSE gens[q]]
        /\ byPath' = [q \in Path |-> IF q \in new THEN gens[q] + 1 ELSE byPath[q]]
        /\ live' = live \cup {made(q) : q \in new}
        /\ ent' = [e \in Id |->
             IF e[1] \in new /\ e = made(e[1])
             THEN [kind  |-> IF e[1] = p THEN k ELSE "dir",
                   from  |-> IF e[1] = p THEN src ELSE 0,
                   above |-> ent[b].above \cup {b} \cup {made(a) : a \in new \cap Anc[e[1]]}]
             ELSE ent[e]]

(* ensureParent walks up from the parent to the nearest registered         *)
(* ancestor; what it passed is missing and is created first.               *)
Nearest(a, p) ==
    /\ a \in Anc[p] /\ Registered(a)
    /\ \A b \in Anc[p] : a \in Anc[b] => ~Registered(b)

(* Mutant of AddWithParents: the missing directories are not made.         *)
AddToNearest(p, k, src) ==
    \E a \in Anc[p] : Nearest(a, p) /\ Attach(p, {p}, Reg(a), k, src)

AddWithParents(p, k, src) ==
    \E a \in Anc[p] :
      /\ Nearest(a, p)
      /\ Attach(p, {p} \cup {d \in Anc[p] : a \in Anc[d]}, Reg(a), k, src)

(* copyFromImage calls addChild without ensureParent: an entry whose       *)
(* parent is not registered hangs from the root.                           *)
AddInPlace(p, k, src) ==
    Attach(p, {p}, IF Registered(Dir[p]) THEN Reg(Dir[p]) ELSE RootId, k, src)

(* Mutant of Overwrite: the path gets the next object, which nobody made.  *)
OverwriteAnew(e, k, src) ==
    /\ byPath' = [byPath EXCEPT ![e[1]] = @ + 1]
    /\ ent' = [ent EXCEPT ![e] = [@ EXCEPT !.kind = k, !.from = src]]
    /\ UNCHANGED <<gens, live>>

(* A path copied again keeps its object, its parent and its children.      *)
Overwrite(e, k, src) ==
    /\ ent' = [ent EXCEPT ![e] = [@ EXCEPT !.kind = k, !.from = src]]
    /\ UNCHANGED <<byPath, gens, live>>

-----------------------------------------------------------------------------
(* Removing entries.                                                       *)

(* removeSubtree recurses through live directories only.                   *)
Subtree(e) ==
    {c \in live :
       /\ e \in ent[c].above
       /\ \A m \in ent[c].above :
            e \in ent[m].above => m \in live /\ ent[m].kind = "dir"}

(* Mutant of Discard: marks the objects and forgets the map.               *)
DiscardMarks(gone) ==
    /\ live' = live \ gone
    /\ UNCHANGED <<byPath, gens, ent>>

Discard(gone) ==
    /\ live' = live \ gone
    /\ byPath' = [p \in Path |-> IF \E e \in gone : e[1] = p THEN 0 ELSE byPath[p]]
    /\ UNCHANGED <<gens, ent>>

(* Mutant of Remove: what is below a removed directory stays.              *)
RemoveAlone(p) ==
    IF Registered(p) THEN Discard({Reg(p)})
                     ELSE UNCHANGED <<byPath, gens, ent, live>>

Remove(p) ==
    IF Registered(p)
    THEN Discard({Reg(p)} \cup
                 IF ent[Reg(p)].kind = "dir" THEN Subtree(Reg(p)) ELSE {})
    ELSE UNCHANGED <<byPath, gens, ent, live>>

(* Mutant of RemoveChildren: the directory goes with its children.         *)
RemoveWithChildren(d) == Remove(d)

RemoveChildren(d) ==
    IF Registered(d) THEN Discard(Subtree(Reg(d)))
                     ELSE UNCHANGED <<byPath, gens, ent, live>>

-----------------------------------------------------------------------------
(* What the tree holds, read as the abstract tree (see Promise).           *)
Nothing == [kind |-> "none", from |-> 0]
TreeOf(S) ==
    [p \in Path |->
       IF \E r \in S : r.path = p /\ r.under = Anc[p]
       THEN LET r == CHOOSE r \in S : r.path = p /\ r.under = Anc[p]
            IN  [kind |-> r.kind, from |-> r.from]
       ELSE Nothing]

NoBase == [p \in Path |-> Nothing]

Init ==
    /\ byPath = [p \in Path |-> IF p = Root THEN 1 ELSE 0]
    /\ gens = [p \in Path |-> IF p = Root THEN 1 ELSE 0]
    /\ ent = [e \in Id |-> IF e = RootId
                           THEN [kind |-> "dir", from |-> 0, above |-> {}]
                           ELSE Blank]
    /\ live = {RootId}
    /\ copy = NoCopy
    /\ closed = FALSE
    /\ image = {}
    /\ ops = 0
    /\ ok = TRUE
    /\ base = NoBase

(* Create, Mkdir, Symlink and Mknod: checkPath, ensureParent, addChild.    *)
NewNode(p, k) ==
    /\ copy = NoCopy /\ ops < MaxOps
    /\ ~closed /\ ~Registered(p)
    /\ AddWithParents(p, k, ops + 1)
    /\ ops' = ops + 1
    /\ ok' = TRUE
    /\ UNCHANGED <<copy, closed, image, base>>

(* CopyFrom up to the walk.  fast is the MetadataOnly copy of an EROFS     *)
(* image.  There is no check of closed: a late copy changes the tree and   *)
(* nothing else.                                                           *)
CopyFrom(L, merge, fast) ==
    /\ copy = NoCopy /\ ops < MaxOps
    /\ copy' = [layer |-> L, merge |-> merge, fast |-> fast,
                todo |-> DOMAIN L, n |-> ops + 1]
    /\ base' = TreeOf(Serialised)
    /\ ops' = ops + 1
    /\ UNCHANGED <<byPath, gens, ent, live, closed, image, ok>>

Order == IF copy.fast THEN QueueOrder ELSE WalkOrder
NextItem(p) == p \in copy.todo /\ \A q \in copy.todo \ {p} : <<p, q>> \in Order

(* A merge consumes the marker: it removes names and copies nothing.       *)
Marker(p) ==
    /\ copy.merge /\ p \in Markers
    /\ IF p \in Opaque THEN RemoveChildren(Dir[p]) ELSE Remove(WhiteoutOf[p])

(* add, and the registration at the end of copyFromImage.                  *)
Item(p) ==
    /\ ~(copy.merge /\ p \in Markers)
    /\ IF p = Root THEN Overwrite(RootId, copy.layer[p], copy.n)
       ELSE IF Registered(p) THEN Overwrite(Reg(p), copy.layer[p], copy.n)
       ELSE IF copy.fast THEN AddInPlace(p, copy.layer[p], copy.n)
       ELSE AddWithParents(p, copy.layer[p], copy.n)

Visit(p) ==
    /\ copy # NoCopy
    /\ NextItem(p)
    /\ Marker(p) \/ Item(p)
    /\ copy' = [copy EXCEPT !.todo = @ \ {p}]
    /\ UNCHANGED <<closed, image, ops, ok, base>>

(* The walk is over, or an item failed and CopyFrom returns its error: the *)
(* entries copied so far stay.                                             *)
CopyReturn ==
    /\ copy # NoCopy
    /\ ok' = (copy.todo = {})
    /\ copy' = NoCopy
    /\ base' = NoBase
    /\ UNCHANGED <<byPath, gens, ent, live, closed, image, ops>>

(* Close: buildErofsTree.                                                  *)
Close ==
    /\ copy = NoCopy /\ ~closed
    /\ closed' = TRUE
    /\ image' = Serialised
    /\ UNCHANGED <<byPath, gens, ent, live, copy, ops, ok, base>>

Next ==
    \/ \E c \in Calls : NewNode(c[1], c[2])
    \/ \E L \in Layers, merge, fast \in BOOLEAN : CopyFrom(L, merge, fast)
    \/ \E p \in Path : Visit(p)
    \/ CopyReturn
    \/ Close

Spec == Init /\ [][Next]_vars
-----------------------------------------------------------------------------
(* Types; the map never leads past the objects made, nor does live; and    *)
(* only what the source holds is left to visit.                            *)
TreeType ==
    /\ byPath \in [Path -> 0..MaxGen]
    /\ gens \in [Path -> 0..MaxGen]
    /\ ent \in [Id -> Entry]
    /\ live \subseteq Id
    /\ \A p \in Path : byPath[p] <= gens[p]
    /\ \A e \in live : e[2] <= gens[e[1]]

TypeOK ==
    /\ TreeType
    /\ copy \in Copying \cup {NoCopy}
    /\ copy # NoCopy => copy.todo \subseteq DOMAIN copy.layer
    /\ closed \in BOOLEAN
    /\ ops \in 0..MaxOps
    /\ ok \in BOOLEAN

-----------------------------------------------------------------------------
(* The byPath map and the removed marks say the same thing: an object is   *)
(* live exactly when the map leads to it.  remove, removeSubtree and       *)
(* addChild keep the two in step by hand, in three places.                 *)
LiveIffRegistered == \A e \in Id : e \in live <=> byPath[e[1]] = e[2]

(* What the callers of the next properties may rely on.                    *)
(* No name with something below it is ever created as a non-directory.     *)
Parents == UNION {Anc[p] : p \in Path}
InnerAreDirs ==
    /\ \A L \in Layers : \A p \in DOMAIN L \cap Parents : L[p] = "dir"
    /\ \A c \in Calls : c[1] \in Parents => c[2] = "dir"

(* In no layer does a name sort before a marker that hides it: nothing is  *)
(* both brought by a layer and named before ".wh." in a marked directory.  *)
MarkersLead ==
    \A L \in Layers : \A m \in DOMAIN L \cap Markers :
      \A p \in (DOMAIN L \ Markers) \cap HiddenBy(m) :
        <<m, p>> \in WalkOrder /\ <<m, p>> \in QueueOrder

(* Every registered path hangs from the registered objects of its own      *)
(* ancestors, which are directories: Close finds it, and in its place,     *)
(* whatever was removed, re-created and overwritten before.                *)
TreeLinked ==
    \A p \in Path : Registered(p) =>
      /\ \A a \in Anc[p] : Registered(a) /\ ent[Reg(a)].kind = "dir"
      /\ ent[Reg(p)].above = {Reg(a) : a \in Anc[p]}

(* mkfs.go:122-124: a marker deletes what prior layers hold.  What the     *)
(* running copy has written is never removed by a marker of that copy.     *)
Wrote(p) == Registered(p) /\ ent[Reg(p)].from = copy.n
SameLayerKept ==
    [][copy # NoCopy => \A p \in Path : Wrote(p) => byPath'[p] = byPath[p]]_vars

(* addChild's comment (mkfs.go:1147): the parent is resolved from the path.*)
(* No entry is linked anywhere but below the objects of its own ancestors. *)
(* Not kept: tree_fast_parent.cfg has a counterexample.                    *)
LinkedByPath ==
    \A e \in live : {a[1] : a \in ent[e].above} = Anc[e[1]]

(* Whatever the map still answers for is part of the image to be written.  *)
(* Not kept: tree_under_file.cfg has a counterexample.                     *)
NothingLost == \A p \in Path : Registered(p) => Reached(Reg(p))

(* mkfs.go:374: CopyFrom "adds all entries".  When the walk is over, every  *)
(* name the source brought is in the image to be written, in its place.    *)
CopyComplete ==
    copy # NoCopy /\ copy.todo = {} =>
      \A p \in DOMAIN copy.layer \ (IF copy.merge THEN Markers ELSE {}) :
        TreeOf(Serialised)[p] = [kind |-> copy.layer[p], from |-> copy.n]

(* The tree is the one the caller was promised: each CopyFrom lays its     *)
(* layer over it in one step (or fails part way), each call adds its node, *)
(* and the image is the tree at Close.                                     *)
Promise == INSTANCE Overlay WITH
    tree <- IF copy = NoCopy THEN TreeOf(Serialised) ELSE base,
    image <- TreeOf(image),
    ops <- IF copy = NoCopy THEN ops ELSE ops - 1
OverlayPromise == Promise!Spec
=============================================================================
