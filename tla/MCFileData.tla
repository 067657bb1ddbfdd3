----------------------------- MODULE MCFileData -----------------------------
(* Two files of up to three cells in blocks of two.                        *)
EXTENDS FileData, TLC
Symmetric == Permutations(File)
=============================================================================
