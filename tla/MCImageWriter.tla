---------------------------- MODULE MCImageWriter ----------------------------
(* A root directory followed by every pair of entries from a set of shapes  *)
(* chosen around the block boundary: data that just fits behind its inode,  *)
(* is one byte too long, or is longer than a block; both inode sizes;       *)
(* xattrs that leave the inode alone, push its data over the boundary or    *)
(* are longer than a block themselves.                                      *)
EXTENDS ImageWriter

E(t, c, x, s, d, n) == [typ |-> t, core |-> c, xattr |-> x, size |-> s, data |-> d, chunks |-> n]

Roots == {E("dir", 32, 0, 27, FALSE, 0), E("dir", 64, 0, 416, FALSE, 0),
          E("dir", 64, 24, 700, FALSE, 0)}
Shapes ==
    {E("file", 32, 0, 0, FALSE, 0), E("file", 32, 0, 384, TRUE, 0),
     E("file", 64, 0, 448, TRUE, 0), E("file", 64, 0, 449, TRUE, 0),
     E("file", 64, 392, 40, TRUE, 0), E("file", 64, 600, 10, TRUE, 0),
     E("file", 32, 0, 1024, TRUE, 0), E("file", 32, 0, 300, FALSE, 0),
     E("dir", 32, 0, 480, FALSE, 0), E("dir", 64, 0, 513, FALSE, 0),
     E("link", 32, 0, 20, FALSE, 0), E("link", 64, 0, 460, FALSE, 0),
     E("node", 64, 24, 0, FALSE, 0)}
Chunked ==
    {E("chunked", 64, 0, 1500, FALSE, 1), E("chunked", 32, 24, 300000, FALSE, 74),
     E("chunked", 64, 16, 0, FALSE, 0)}
OddChunked == {E("chunked", 64, 20, 1500, FALSE, 1)}

Lists(shapes) == {<<r, a, b>> : r \in Roots, a \in shapes, b \in shapes}
Every == Lists(Shapes \cup Chunked)
Odd == {<<E("dir", 32, 0, 27, FALSE, 0), e>> : e \in OddChunked \cup Chunked}
=============================================================================
