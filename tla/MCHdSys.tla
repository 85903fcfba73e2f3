------------------------------- MODULE MCHdSys -------------------------------
EXTENDS HdSys

\* The user processes are alike.
MCSymmetry == Permutations(User)
=============================================================================
