------------------------------ MODULE MCDomains ------------------------------
(* Domains for TLC: a partitioned, a clustered and a small plugin. *)
EXTENDS Domains, TLC

\* P-FP: domains of one CPU each, of which programs name two.  C-EDF: two
\* clusters.  A plugin without domain 1.
MCMappings == {
    [d \in 0..1 |-> {d}],
    [d \in 0..1 |-> IF d = 0 THEN {0, 1} ELSE {2}],
    [d \in {0} |-> {1, 2}]}

\* In the last, CPU 1 is offline.
MCOnlineSets == {0..1, 0..2, {0, 2}}

TaskSymmetry == Permutations(Tasks)
===============================================================================
