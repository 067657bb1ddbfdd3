---------------------------- MODULE MCWriterTree ----------------------------
(***************************************************************************)
(* A small name space for WriterTree.  One directory /d with a file x, a    *)
(* subdirectory s (holding y) and a name "-e" that sorts before ".wh."; the *)
(* opaque marker of /d, whiteouts of /d and /d/x.  Each run chooses its     *)
(* paths, layers and calls from these.                                      *)
(***************************************************************************)
EXTENDS Sequences, FiniteSets, WriterTree

(* The walk of a directory is in byte order, depth first ...               *)
DepthFirst ==
    <<"/", "/-e", "/-e/z", "/.wh.d", "/d", "/d/-e", "/d/-e/z", "/d/.wh..wh..opq",
      "/d/.wh.x", "/d/s", "/d/s/y", "/d/x">>
(* ... and the image's queue in byte order, breadth first.                 *)
BreadthFirst ==
    <<"/", "/-e", "/.wh.d", "/d", "/-e/z", "/d/-e", "/d/.wh..wh..opq", "/d/.wh.x",
      "/d/s", "/d/x", "/d/-e/z", "/d/s/y">>

AllParents ==
    [p \in {DepthFirst[i] : i \in 2..Len(DepthFirst)} |->
       CASE p \in {"/.wh.d", "/d", "/-e"} -> "/"
         [] p = "/-e/z" -> "/-e"
         [] p = "/d/-e/z" -> "/d/-e"
         [] p = "/d/s/y" -> "/d/s"
         [] OTHER -> "/d"]

MCDir == [p \in Path \ {Root} |-> AllParents[p]]
MCAnc ==
    [p \in Path |->
       CASE p = "/" -> {}
         [] p \in {"/.wh.d", "/d", "/-e"} -> {"/"}
         [] p = "/-e/z" -> {"/", "/-e"}
         [] p = "/d/-e/z" -> {"/", "/d", "/d/-e"}
         [] p = "/d/s/y" -> {"/", "/d", "/d/s"}
         [] OTHER -> {"/", "/d"}]
OrderOf(seq) ==
    {<<seq[i], seq[j]>> : <<i, j>> \in
       {ij \in (1..Len(seq)) \X (1..Len(seq)) :
          ij[1] < ij[2] /\ seq[ij[1]] \in Path /\ seq[ij[2]] \in Path}}
MCWalkOrder == OrderOf(DepthFirst)
MCQueueOrder == OrderOf(BreadthFirst)
MCOpaque == Path \cap {"/d/.wh..wh..opq"}
MCWhiteoutOf ==
    [m \in Path \cap {"/.wh.d", "/d/.wh.x"} |->
       IF m = "/.wh.d" THEN "/d" ELSE "/d/x"]

(* Layers: the sets of paths S with their parents; D are the directories.  *)
Layer(S, D) ==
    [p \in S \cup UNION {MCAnc[q] : q \in S} \cup {"/"} |->
       IF p \in D \cup {"/"} THEN "dir" ELSE "file"]
Dirs == {"/d", "/d/s", "/d/-e", "/-e"}

-----------------------------------------------------------------------------
(* Ordered layers: no early names, every path of one kind.                 *)
LatePaths == {"/", "/.wh.d", "/d", "/d/.wh..wh..opq", "/d/.wh.x", "/d/s", "/d/s/y", "/d/x"}
LateLayers ==
    {Layer(S, Dirs) : S \in
       {{"/d/s/y", "/d/x"}, {"/d/.wh..wh..opq", "/d/s"}, {"/d/.wh.x"},
        {"/.wh.d"}, {"/.wh.d", "/d/x"}, {"/d/.wh..wh..opq", "/d/s/y"}}}
LateCalls == {<<"/d/s", "dir">>, <<"/d/s/y", "file">>}

-----------------------------------------------------------------------------
(* A name that sorts before the markers of its directory.                  *)
EarlyPaths == {"/", "/d", "/d/-e", "/d/-e/z", "/d/.wh..wh..opq", "/d/x"}
EarlyLayers ==
    {Layer({"/d/x"}, Dirs), Layer({"/d/.wh..wh..opq", "/d/-e/z"}, Dirs)}

(* /d is a directory in some layers and a file in another.                 *)
RetypedPaths == {"/", "/.wh.d", "/d", "/d/x"}
RetypedLayers ==
    {Layer({"/d/x"}, Dirs), Layer({"/d"}, {}), Layer({"/.wh.d"}, {})}
RetypedCalls == {<<"/d", "file">>, <<"/d/x", "file">>}
NoLayers == {}
NoCalls == {}
=============================================================================
