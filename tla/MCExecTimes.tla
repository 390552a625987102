----------------------------- MODULE MCExecTimes -----------------------------
(* ExecTimes for TLC: every text up to a length. *)
EXTENDS ExecTimes
==============================================================================
