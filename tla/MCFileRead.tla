------------------------------ MODULE MCFileRead -------------------------------
(* Blocks of eight bytes, inodes of two and four: files of no block to     *)
(* three, an inode anywhere in its block.                                  *)
EXTENDS FileRead

Everywhere == 0..BlockSize - 1
UpToThreeBlocks == 0..3 * BlockSize
ShortFiles == {0, 1, BlockSize, BlockSize + 1, 2 * BlockSize + 3}
(* The last block may be missing, or more. *)
AnyLoss == 0..2 * BlockSize
===============================================================================
