----------------------------- MODULE MCSkeletons -----------------------------
(* Skeletons for TLC. *)
EXTENDS Skeletons
===============================================================================
