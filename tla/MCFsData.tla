------------------------------ MODULE MCFsData ------------------------------
(* The sectors of a small disk: descriptors and created files are alike.   *)
EXTENDS FsData, TLC

MCSymmetry == Permutations(File) \cup Permutations(Desc)
=============================================================================
