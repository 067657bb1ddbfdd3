------------------------------ MODULE MCChunkMap ------------------------------
EXTENDS ChunkMap

C(p, c, d) == [phys |-> p, count |-> c, dev |-> d]
X(a, d) == [hi |-> 0, lo |-> a, dev |-> d]

NoMap == [start |-> 0, blocks |-> 0]
TwoDevices == <<NoMap, NoMap>>

(* Honest lists: contiguous only when they are.  Two, one and no device.   *)
Runs == {<<C(3, 1, 1)>>, <<C(3, 3, 2)>>, <<C(3, 3, 1), C(6, 2, 1)>>,
         <<C(4, 2, 1), C(6, 2, 1), C(8, 1, 1)>>, <<C(0, 2, 0)>>}
Parts == {<<C(3, 2, 1), C(9, 2, 1)>>, <<C(3, 2, 1), C(5, 2, 2)>>,
          <<C(9, 2, 1), C(3, 2, 1), C(5, 1, 1)>>, <<C(6, 1, 1), C(4, 1, 1)>>,
          <<C(3, 1, 1), C(9, 3, 1)>>}
Sizes == {1, 2, 5, 6, 8, 9, 10}
MCSources == [size : Sizes, chunks : Runs, contiguous : {FALSE}]
       \cup {s \in [size : Sizes, chunks : Runs, contiguous : {TRUE}] :
               Before(s.chunks)[Len(s.chunks) + 1] * BlockSize >= s.size}
       \cup [size : Sizes, chunks : Parts, contiguous : {FALSE}]
FragmentedOnly == [size : {8}, chunks : Parts, contiguous : {FALSE}]

(* Sparse files, whole runs and scattered chunks.                          *)
Addrs == {NullIndex, X(3, 1), X(4, 1), X(5, 1), X(7, 2), X(5, 0), X(6, 0)}
MCForeign ==
    {[size |-> z, bits |-> b, idx |-> f] :
       z \in {5, 6}, b \in {0}, f \in [1..3 -> Addrs]}
    \cup {[size |-> z, bits |-> 1, idx |-> f] : z \in {6, 8}, f \in [1..2 -> Addrs]}
None == {}

(* What the theorems about ChunkMap assume holds of these instances.       *)
ASSUME MCInRange == InRange
=============================================================================
