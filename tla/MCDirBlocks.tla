---------------------------- MODULE MCDirBlocks ----------------------------
(* Directories of up to four children with names of one, two or four bytes, *)
(* "." and ".." anywhere among them; blocks of ten bytes hold one to three  *)
(* entries.  In the program a dirent takes 12 bytes and a block 512 or more.*)
EXTENDS DirBlocks

Child == {[len |-> l, dot |-> FALSE] : l \in {1, 2, 4}}
WithDots(kids) ==
    {InsertAt(InsertAt(kids, i, [len |-> 2, dot |-> TRUE]), j, [len |-> 1, dot |-> TRUE]) :
       <<i, j>> \in {ij \in (1..(Len(kids) + 1)) \X (1..(Len(kids) + 1)) : ij[2] <= ij[1]}}
MCDirectories ==
    UNION {WithDots(kids) : kids \in UNION {[1..n -> Child] : n \in 0..3}
                                     \cup [1..4 -> {c \in Child : c.len > 1}]}
=============================================================================
