-------------------------------- MODULE MCFs --------------------------------
(* The names of files are alike, and so are the processes that fork made.  *)
EXTENDS Fs, TLC

Symmetry == Permutations(Name) \cup Permutations(Proc \ {InitProc})
=============================================================================
