------------------------------ MODULE NPSections ------------------------------
(***************************************************************************)
(* What enter_np() and exit_np() promise, without the control page: a      *)
(* thread inside a non-preemptive section keeps the processor, a           *)
(* preemption that becomes due meanwhile is deferred, and a deferred       *)
(* preemption is served when the section ends, before the thread can open  *)
(* another section.  One processor, the threads that share it.             *)
(***************************************************************************)
CONSTANT Threads

VARIABLES
    running,    \* the thread that has the processor
    inNP,       \* the threads inside a non-preemptive section
    deferred    \* deferred[t]: a preemption of t is outstanding

absVars == <<running, inNP, deferred>>

Init ==
    /\ running \in Threads
    /\ inNP = {}
    /\ deferred = [t \in Threads |-> FALSE]

\* A section is opened by the running thread, never with a preemption due.
Enter(t) ==
    /\ running = t
    /\ t \notin inNP
    /\ ~deferred[t]
    /\ inNP' = inNP \cup {t}
    /\ UNCHANGED <<running, deferred>>

Leave(t) ==
    /\ running = t
    /\ t \in inNP
    /\ inNP' = inNP \ {t}
    /\ UNCHANGED <<running, deferred>>

\* A preemption becomes due while the running thread cannot be preempted.
Defer(t) ==
    /\ running = t
    /\ t \in inNP
    /\ deferred' = [deferred EXCEPT ![t] = TRUE]
    /\ UNCHANGED <<running, inNP>>

\* The scheduler takes the processor from t; whatever was due is served.
Serve(t) ==
    /\ running = t
    /\ t \notin inNP
    /\ running' \in Threads
    /\ deferred' = [deferred EXCEPT ![t] = FALSE]
    /\ UNCHANGED inNP

Next == \E t \in Threads : Enter(t) \/ Leave(t) \/ Defer(t) \/ Serve(t)

Spec == Init /\ [][Next]_absVars

\* A deferred preemption does not wait for ever once the section is over.
FairSpec ==
    /\ Spec
    /\ \A t \in Threads : WF_absVars(deferred[t] /\ Serve(t))
===============================================================================
