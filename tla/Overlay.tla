------------------------------- MODULE Overlay -------------------------------
(***************************************************************************)
(* What the Writer promises its caller, as one tree of names.  A call adds *)
(* a node (with the directories missing above it) or lays a whole layer    *)
(* over the tree; whiteouts of a merged layer hide names of the layers     *)
(* below it and never its own; Close writes exactly the tree.              *)
(***************************************************************************)
EXTENDS Namespace

CONSTANT Calls            \* <<path, kind>> pairs the caller may create

VARIABLES
    tree,                 \* path -> what the tree holds there
    closed,
    image,                \* path -> what the written image holds there
    ops,                  \* number of calls so far; names what a call wrote
    ok                    \* the last call that ended returned no error

vars == <<tree, closed, image, ops, ok>>

Absent == [kind |-> "none", from |-> 0]
EmptyTree == [p \in Path |-> IF p = Root THEN [kind |-> "dir", from |-> 0]
                                         ELSE Absent]

Init == /\ tree = EmptyTree
        /\ closed = FALSE
        /\ image = [p \in Path |-> Absent]
        /\ ops = 0
        /\ ok = TRUE

(* Create, Mkdir, Symlink, Mknod: the name must be free.                   *)
Node(p, k) ==
    /\ ~closed
    /\ tree[p] = Absent
    /\ ops' = ops + 1 /\ ok' = TRUE
    /\ tree' = [q \in Path |->
                  IF q = p THEN [kind |-> k, from |-> ops + 1]
                  ELSE IF q \in Anc[p] /\ tree[q] = Absent
                       THEN [kind |-> "dir", from |-> 0]
                  ELSE tree[q]]
    /\ UNCHANGED <<closed, image>>

(* The names a layer brings: its markers are consumed by a merge and       *)
(* copied like any file otherwise.                                         *)
Brings(L, merge) == IF merge THEN DOMAIN L \ Markers ELSE DOMAIN L

Over(L, merge, n) ==
    [p \in Path |->
       IF p \in Brings(L, merge) THEN [kind |-> L[p], from |-> n]
       ELSE IF merge /\ p \in Hidden(L) THEN Absent
       ELSE tree[p]]

(* CopyFrom that succeeds.                                                 *)
Apply(L, merge) ==
    /\ ops' = ops + 1 /\ ok' = TRUE
    /\ tree' = Over(L, merge, ops + 1)
    /\ UNCHANGED <<closed, image>>

(* CopyFrom that fails half way: every name has its old value, its new one *)
(* or has been hidden and not replaced yet.                                *)
Fail(L, merge) ==
    /\ ops' = ops + 1 /\ ok' = FALSE
    /\ tree' = [p \in Path |-> tree'[p]]
    /\ \A p \in Path :
         \/ tree'[p] \in {tree[p], Over(L, merge, ops + 1)[p]}
         \/ tree'[p] = Absent /\ merge /\ p \in Hidden(L)
    /\ UNCHANGED <<closed, image>>

Close ==
    /\ ~closed
    /\ closed' = TRUE
    /\ image' = tree
    /\ UNCHANGED <<tree, ops, ok>>

Next ==
    \/ \E c \in Calls : Node(c[1], c[2])
    \/ \E L \in Layers, merge \in BOOLEAN : Apply(L, merge) \/ Fail(L, merge)
    \/ Close

Spec == Init /\ [][Next]_vars
=============================================================================
