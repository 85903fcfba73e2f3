----------------------------- MODULE MCIpcList -----------------------------
(* Processes that send and receive as they like, one of them a task that   *)
(* takes interrupts.  Four are enough for a cycle of three beside a        *)
(* bystander and for a list of three, whose head, middle and tail can each *)
(* be unlinked.                                                            *)
EXTENDS IpcList

\* The processes that take no interrupts are alike.
MCSymmetry == Permutations(Proc \ IntTask)
=============================================================================
