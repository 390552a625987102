---------------------------- MODULE MCControlPage ----------------------------
(* ControlPage for TLC: two threads that compete for the processor. *)
EXTENDS ControlPage, TLC

ThreadSymmetry == Permutations(Threads)
===============================================================================
