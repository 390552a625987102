-------------------------------- MODULE MCText --------------------------------
(***************************************************************************)
(* The two readers of text for TLC, every input of each: a process calls   *)
(* read_mapping() or get_exec_times().                                     *)
(***************************************************************************)
EXTENDS ReadMapping, ExecTimes

NoMapping ==
    /\ mask = {} /\ file = Unreadable /\ buf = <<>> /\ pc = "done" /\ ret = -1
    /\ set = {} /\ nbits = 0 /\ chunk = 0 /\ i = 0

NoFile ==
    /\ text = <<>> /\ column \in Columns /\ state = "failed"
    /\ pos = 1 /\ eof = FALSE /\ num_jobs = 0 /\ times = <<>>

TextInit == (Init /\ NoFile) \/ (FileInit /\ NoMapping)

TextNext == (Next /\ UNCHANGED filevars) \/ (FileNext /\ UNCHANGED vars)

TextSpec == TextInit /\ [][TextNext]_<<vars, filevars>>
===============================================================================
