----------------------------- MODULE MCTaskSystem -----------------------------
(* TaskSystem for TLC: rtspin and rt_launch tasks, with and without -w. *)
EXTENDS TaskSystem

\* release_ts without options; with -w; with -f for all that wait, while the
\* statistics may be unreadable.
MCReleases == {
    [wait |-> FALSE, expected |-> 0, unreadable |-> FALSE],
    [wait |-> TRUE, expected |-> 0, unreadable |-> FALSE],
    [wait |-> TRUE, expected |-> Cardinality(Waiters), unreadable |-> TRUE]}
===============================================================================
