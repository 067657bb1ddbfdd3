------------------------------- MODULE BlockPool ------------------------------
(***************************************************************************)
(* The block buffers all readers of an image share (src/erofs.go,          *)
(* src/xattr.go).  getBlock takes one from a sync.Pool or makes it,        *)
(* putBlock gives it back, and every path through readInfo, loadBlock,     *)
(* Read, lookup, statInfo, loadXattrs and Close, the failing ones too,     *)
(* must give back what it took, once.  Each goroutine has a file of its    *)
(* own; the image, its pool and its long xattr prefixes, loaded under a    *)
(* sync.Once, are shared.                                                  *)
(***************************************************************************)
EXTENDS Integers

CONSTANTS
    Readers, Blocks, NoBlock,
    MaxLoads,     \* bound on the blocks and prefixes one call takes
    MaxCalls      \* bound on the calls of one reader

ASSUME PoolAssumption ==
    NoBlock \notin Blocks /\ MaxLoads \in Nat \ {0} /\ MaxCalls \in Nat

(* The variables that hold a block: blk of the running function, cached of *)
(* the inode, lastBlk of lookup, sblk of loadXattrs, the one of the file   *)
(* loadLongPrefixes reads.                                                 *)
Slots == {"blk", "cached", "lastBlk", "sblk", "prefix"}
Calls == {"read", "lookup", "stat", "close"}

VARIABLES
    pool,         \* how often the pool holds a block
    held,         \* reader -> slot -> block
    data,         \* whose bytes a block has
    pc, call, left, calls,
    info,         \* whether the file's inode was read
    once          \* prefixesOnce: "new", the reader running it, or "done"

poolVars == <<pool, held, data, pc, call, left, calls, info, once>>
progress == <<call, calls, once>>

PoolInit ==
    /\ pool = [b \in Blocks |-> 0]
    /\ held = [r \in Readers |-> [s \in Slots |-> NoBlock]]
    /\ data = [b \in Blocks |-> NoBlock]
    /\ pc = [r \in Readers |-> "idle"] /\ call = [r \in Readers |-> "close"]
    /\ left = [r \in Readers |-> 0] /\ calls = [r \in Readers |-> 0]
    /\ info = [r \in Readers |-> FALSE] /\ once = "new"

Goto(r, l) == pc' = [pc EXCEPT ![r] = l]
Holds(r, s) == held[r][s] # NoBlock

(* Block b is in nobody's hands, nor in the pool: it does not exist yet,   *)
(* or the collector took it.                                               *)
Unused(b) == pool[b] = 0 /\ \A r \in Readers, s \in Slots : held[r][s] # b

Make == CHOOSE b \in Blocks : Unused(b)

(* getBlock, which may make a block though the pool has some, and the      *)
(* ReadAt into it.                                                         *)
Load(r, s) ==
    \E b \in {x \in Blocks : pool[x] > 0} \cup (IF \E x \in Blocks : Unused(x) THEN {Make} ELSE {}) :
      /\ pool' = [pool EXCEPT ![b] = IF @ > 0 THEN @ - 1 ELSE 0]
      /\ held' = [held EXCEPT ![r][s] = b]
      /\ data' = [data EXCEPT ![b] = r]

(* putBlock of a list of slots, skipping the empty ones.                   *)
Returned(r, ss, b) == IF \E s \in ss : held[r][s] = b THEN pool[b] + 1 ELSE pool[b]
(* Mutant of Put: the empty ones too.                                      *)
PutNil(r, ss) ==
    /\ pool' = [b \in Blocks \cup {held[r][s] : s \in ss} |->
                 IF b = NoBlock THEN 1 ELSE Returned(r, ss, b)]
    /\ held' = [held EXCEPT ![r] = [s \in Slots |-> IF s \in ss THEN NoBlock ELSE @[s]]]
    /\ UNCHANGED data
Put(r, ss) ==
    /\ pool' = [b \in Blocks |-> Returned(r, ss, b)]
    /\ held' = [held EXCEPT ![r] = [s \in Slots |-> IF s \in ss THEN NoBlock ELSE @[s]]]
    /\ UNCHANGED data

Begin(r, c) ==
    /\ pc[r] = "idle" /\ calls[r] < MaxCalls
    /\ call' = [call EXCEPT ![r] = c] /\ calls' = [calls EXCEPT ![r] = @ + 1]
    /\ left' = [left EXCEPT ![r] = MaxLoads]
    /\ Goto(r, CASE c = "close" -> "close" [] c # "close" /\ ~info[r] -> "info" [] OTHER -> "body")
    /\ UNCHANGED <<pool, held, data, info, once>>

(* readInfo.                                                               *)
InfoLoad(r) ==
    /\ pc[r] = "info" /\ Load(r, "blk") /\ Goto(r, "inode")
    /\ UNCHANGED <<progress, left, info>>
InfoFails(r) ==
    /\ pc[r] = "inode" /\ Put(r, {"blk"}) /\ Goto(r, "idle")
    /\ UNCHANGED <<progress, left, info>>
(* Trailing data: the block is kept with the inode.                        *)
InfoCached(r) ==
    /\ pc[r] = "inode"
    /\ held' = [held EXCEPT ![r].cached = held[r]["blk"], ![r].blk = NoBlock]
    /\ info' = [info EXCEPT ![r] = TRUE] /\ Goto(r, "body")
    /\ UNCHANGED <<pool, data, progress, left>>
InfoDone(r) ==
    /\ pc[r] = "inode" /\ Put(r, {"blk"})
    /\ info' = [info EXCEPT ![r] = TRUE] /\ Goto(r, "body")
    /\ UNCHANGED <<progress, left>>

Body(r) ==
    /\ pc[r] = "body"
    /\ \/ call[r] = "stat" /\ (Goto(r, "xattrs") \/ Goto(r, "release"))
       \/ call[r] # "stat" /\ Goto(r, "load")
    /\ UNCHANGED <<pool, held, data, progress, left, info>>

(* loadBlock, by Read, ReadDir and lookup; of a block past the end it      *)
(* takes none.                                                             *)
BlockLoad(r) ==
    /\ pc[r] = "load" /\ left[r] > 0
    /\ left' = [left EXCEPT ![r] = @ - 1]
    /\ Load(r, "blk") /\ Goto(r, "use")
    /\ UNCHANGED <<progress, info>>
BlockFails(r) ==
    /\ pc[r] = "use" /\ Put(r, {"blk", "lastBlk"}) /\ Goto(r, "idle")
    /\ UNCHANGED <<progress, left, info>>
Copied(r) ==
    /\ pc[r] = "use" /\ Put(r, {"blk"})
    /\ Goto(r, "load") \/ (call[r] = "read" /\ Goto(r, "idle"))
    /\ UNCHANGED <<progress, left, info>>
(* Mutant of Keep: the block kept is given back as well.                   *)
KeepReturned(r) ==
    /\ pc[r] = "use" /\ call[r] = "lookup"
    /\ pool' = [b \in Blocks |-> Returned(r, {"lastBlk", "blk"}, b)]
    /\ held' = [held EXCEPT ![r].lastBlk = held[r]["blk"], ![r].blk = NoBlock]
    /\ Goto(r, "load")
    /\ UNCHANGED <<data, progress, left, info>>
(* lookup keeps the last block that may hold the name.                     *)
Keep(r) ==
    /\ pc[r] = "use" /\ call[r] = "lookup"
    /\ pool' = [b \in Blocks |-> Returned(r, {"lastBlk"}, b)]
    /\ held' = [held EXCEPT ![r].lastBlk = held[r]["blk"], ![r].blk = NoBlock]
    /\ Goto(r, "load")
    /\ UNCHANGED <<data, progress, left, info>>
EndOfBlocks(r) ==
    /\ pc[r] = "load" /\ left[r] < MaxLoads
    /\ Goto(r, IF Holds(r, "lastBlk") THEN "search" ELSE "idle")
    /\ UNCHANGED <<pool, held, data, progress, left, info>>
Search(r) ==
    /\ pc[r] = "search" /\ Put(r, {"lastBlk"}) /\ Goto(r, "idle")
    /\ UNCHANGED <<progress, left, info>>

(* loadXattrs: a window of the area, moved on by giving it back and        *)
(* loading the next.                                                       *)
WindowLoad(r) ==
    /\ pc[r] = "xattrs" /\ left[r] > 0
    /\ left' = [left EXCEPT ![r] = @ - 1]
    /\ Load(r, "blk") /\ Goto(r, "window")
    /\ UNCHANGED <<progress, info>>
(* A window that cannot be read, or a format error: the deferred put.      *)
(* statInfo returns without releasing what the inode has cached.           *)
XattrFails(r) ==
    /\ pc[r] = "window" /\ Put(r, {"blk"}) /\ Goto(r, "idle")
    /\ UNCHANGED <<progress, left, info>>
Reload(r) ==
    /\ pc[r] = "window" /\ left[r] > 0 /\ Put(r, {"blk"}) /\ Goto(r, "xattrs")
    /\ UNCHANGED <<progress, left, info>>
SharedLoad(r) ==
    /\ pc[r] = "window" /\ left[r] > 0
    /\ left' = [left EXCEPT ![r] = @ - 1]
    /\ Load(r, "sblk") /\ Goto(r, "shared")
    /\ UNCHANGED <<progress, info>>
(* Mutant of SharedFails: the shared block is forgotten.                   *)
SharedFailsKeeps(r) ==
    /\ pc[r] = "shared" /\ Put(r, {"blk"}) /\ Goto(r, "idle")
    /\ UNCHANGED <<progress, left, info>>
SharedFails(r) ==
    /\ pc[r] = "shared" /\ Put(r, {"blk", "sblk"}) /\ Goto(r, "idle")
    /\ UNCHANGED <<progress, left, info>>
SharedDone(r) ==
    /\ pc[r] = "shared" /\ Put(r, {"sblk"}) /\ Goto(r, "window")
    /\ UNCHANGED <<progress, left, info>>
XattrsDone(r) ==
    /\ pc[r] = "window" /\ Put(r, {"blk"}) /\ Goto(r, "release")
    /\ UNCHANGED <<progress, left, info>>

(* getLongPrefix, for an entry of the window or a shared one; the others   *)
(* wait in Once.Do.                                                        *)
PrefixNeeded(r) ==
    /\ pc[r] \in {"window", "shared"} /\ left[r] > 0
    /\ left' = [left EXCEPT ![r] = @ - 1] /\ Goto(r, "prefix")
    /\ UNCHANGED <<pool, held, data, progress, info>>
PrefixRuns(r) ==
    /\ pc[r] = "prefix" /\ once = "new"
    /\ once' = r /\ Goto(r, "prefixes")
    /\ UNCHANGED <<pool, held, data, call, calls, left, info>>
PrefixLoad(r) ==
    /\ pc[r] = "prefixes" /\ ~Holds(r, "prefix")
    /\ Load(r, "prefix")
    /\ UNCHANGED <<pc, progress, left, info>>
(* Mutant of PrefixRead: a failure leaves the Once open.                   *)
PrefixReadOpen(r) ==
    /\ pc[r] = "prefixes" /\ Holds(r, "prefix")
    /\ Put(r, {"prefix"}) /\ Goto(r, "idle")
    /\ UNCHANGED <<progress, left, info>>
(* The prefixes, or an error that stays.                                   *)
PrefixRead(r) ==
    /\ pc[r] = "prefixes" /\ Holds(r, "prefix")
    /\ Put(r, {"prefix"})
    /\ once' = "done" /\ Goto(r, "prefix")
    /\ UNCHANGED <<call, calls, left, info>>
PrefixKnown(r) ==
    /\ pc[r] = "prefix" /\ once = "done"
    /\ IF Holds(r, "sblk") THEN Put(r, {"sblk"}) ELSE UNCHANGED <<pool, held, data>>
    /\ Goto(r, "named")
    /\ UNCHANGED <<progress, left, info>>
PrefixFails(r) ==
    /\ pc[r] = "prefix" /\ once = "done"
    /\ Put(r, {"blk", "sblk"}) /\ Goto(r, "idle")
    /\ UNCHANGED <<progress, left, info>>
(* The entry is read; the area goes on or ends.                            *)
Named(r) ==
    /\ pc[r] = "named"
    /\ \/ Put(r, {"blk"}) /\ (Goto(r, "release") \/ (left[r] > 0 /\ Goto(r, "xattrs")))
       \/ left[r] > 0 /\ Goto(r, "window") /\ UNCHANGED <<pool, held, data>>
    /\ UNCHANGED <<progress, left, info>>

(* Mutant of Release: the inode still points to the block.                 *)
ReleaseKeeps(r) ==
    /\ pc[r] \in {"release", "close"} /\ Goto(r, "idle")
    /\ pool' = [b \in Blocks |-> Returned(r, {"cached"}, b)]
    /\ UNCHANGED <<held, data, progress, left, info>>

(* The end of statInfo, and Close.                                         *)
Release(r) ==
    /\ pc[r] \in {"release", "close"}
    /\ Put(r, {"cached"}) /\ Goto(r, "idle")
    /\ UNCHANGED <<progress, left, info>>

Reading(r) == InfoLoad(r) \/ InfoFails(r) \/ InfoCached(r) \/ InfoDone(r) \/ Body(r)
    \/ BlockLoad(r) \/ BlockFails(r) \/ Copied(r) \/ Keep(r) \/ EndOfBlocks(r) \/ Search(r)
Xattrs(r) == WindowLoad(r) \/ XattrFails(r) \/ Reload(r)
    \/ SharedLoad(r) \/ SharedFails(r) \/ SharedDone(r) \/ XattrsDone(r)
    \/ PrefixNeeded(r) \/ PrefixRuns(r) \/ PrefixLoad(r) \/ PrefixRead(r)
    \/ PrefixKnown(r) \/ PrefixFails(r) \/ Named(r)
Run(r) == Reading(r) \/ Xattrs(r) \/ Release(r)

PoolNext == \E r \in Readers : Run(r) \/ \E c \in Calls : Begin(r, c)

(* A goroutine in a call runs on unless it waits for the Once.             *)
PoolSpec == PoolInit /\ [][PoolNext]_poolVars /\ \A r \in Readers : WF_poolVars(Run(r))
-----------------------------------------------------------------------------
PoolTypeOK ==
    /\ pool \in [Blocks -> Nat]
    /\ held \in [Readers -> [Slots -> Blocks \cup {NoBlock}]]
    /\ data \in [Blocks -> Readers \cup {NoBlock}]
    /\ call \in [Readers -> Calls] /\ info \in [Readers -> BOOLEAN]
    /\ left \in [Readers -> 0..MaxLoads] /\ calls \in [Readers -> 0..MaxCalls]
    /\ once \in {"new", "done"} \cup Readers

(* erofs.go:686: "putBlock returns a block after complete": it is in one   *)
(* pair of hands or once in the pool, never both and never twice.          *)
NoSharing ==
    /\ \A b \in Blocks : pool[b] <= 1
    /\ \A r \in Readers, s \in Slots :
         Holds(r, s) =>
           /\ pool[held[r][s]] = 0
           /\ \A q \in Readers, t \in Slots : held[q][t] = held[r][s] => q = r /\ t = s

(* What a reader takes from a block are the bytes it has loaded itself,    *)
(* however long ago and whatever the others did meanwhile.                 *)
Uses(r) == CASE pc[r] \in {"inode", "use", "window", "named"} -> {"blk"}
             [] pc[r] = "search" -> {"lastBlk"}
             [] pc[r] = "shared" -> {"blk", "sblk"}
             [] OTHER -> {}
ReadsOwn ==
    \A r \in Readers : \A s \in Uses(r) : Holds(r, s) /\ data[held[r][s]] = r

(* Every return, the failing ones too, has given back what the call took:  *)
(* only the trailing data of an open inode stays, until Close.             *)
AllReturned ==
    \A r \in Readers : pc[r] = "idle" =>
      \A s \in Slots : Holds(r, s) => s = "cached" /\ call[r] # "close"

(* No call waits for ever, in the Once or for a block.                     *)
CallsEnd == \A r \in Readers : pc[r] # "idle" ~> pc[r] = "idle"
=============================================================================
