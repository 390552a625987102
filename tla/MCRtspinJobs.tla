---------------------------- MODULE MCRtspinJobs ----------------------------
(* RtspinJobs for TLC: command lines as functions of the tasks. *)
EXTENDS RtspinJobs, TLC

CONSTANTS a, b, c

\* a and b lock: the critical section (3) leaves a's job time for both chunks,
\* b's records, longer than its period, none.  c does not lock; its first
\* iteration may be longer than its job, or so short that a second one, if it
\* were begun, could be.
JobTimes   == (a :> <<5>>) @@ (b :> <<2, 1>>) @@ (c :> <<2>>)
JobPeriods == (a :> 5) @@ (b :> 1) @@ (c :> 3)
JobEnds    == (a :> 4) @@ (b :> 0) @@ (c :> 1)
JobCosts   == (a :> {1}) @@ (b :> {1}) @@ (c :> {1, 3})
=============================================================================
