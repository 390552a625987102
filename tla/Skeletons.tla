------------------------------ MODULE Skeletons ------------------------------
(***************************************************************************)
(* The example programs src/bin/base_task.c and base_mt_task.c, which real *)
(* programs are to be built from, over task_mode() (src/src/task.c).       *)
(* task_mode() reads the scheduling class of the thread and then sets it;  *)
(* other processes set it too, before, between and after (the tests        *)
(* suspended_admission and running_admission in src/tests/core_api.c do).  *)
(* Results are printed and otherwise ignored.  base_task is one thread     *)
(* without a thread that creates and joins it.                             *)
(***************************************************************************)
EXTENDS Integers

CONSTANTS
    NumThreads,  \* NUM_THREADS
    Faults,      \* calls that may fail: "create", "params", "mode"
    JobResults   \* what job() may return: {0} in the skeletons as they stand,
                 \* 0 or 1 in programs built from them

ASSUME NumThreadsNat == NumThreads \in Nat
ASSUME JobResultsKnown == JobResults \subseteq {0, 1}
ASSUME FaultsKnown == Faults \subseteq {"create", "params", "mode"}

VARIABLES
    main,     \* main(): its loop and the index in it
    pc,       \* pc[t]: where rt_thread() is
    policy,   \* policy[t]: the kernel's scheduling class of the thread
    params,   \* the threads whose parameters the kernel has
    old,      \* old[t]: what sched_getscheduler() returned in task_mode()
    result,   \* result[t]: how its last task_mode() ended
    fresh,    \* the threads whose last sleep ended with the release of a job
    meddled   \* the threads whose class others changed since result was known

vars == <<main, pc, policy, params, old, result, fresh, meddled>>

Threads  == 1 .. NumThreads
Policies == {"SCHED_NORMAL", "SCHED_FIFO", "SCHED_LITMUS"}
Modes    == {"BACKGROUND_TASK", "LITMUS_RT_TASK"}
Over     == {"absent", "ended", "killed"}
Loop     == {"sleep", "asleep", "job"}

TypeOK ==
    /\ main \in [pc : {"create", "join", "exit"}, i : 1 .. NumThreads + 1]
    /\ pc \in [Threads -> Over \cup Loop
                   \cup {"params", "enter", "entering", "leave", "leaving"}]
    /\ policy \in [Threads -> Policies] /\ old \in [Threads -> Policies]
    /\ params \subseteq Threads /\ fresh \subseteq Threads
    /\ meddled \subseteq Threads
    /\ result \in [Threads -> {"none", "ok", "EINVAL", "refused"}]

\* The program is in background mode upon startup; init_litmus() has returned.
Init ==
    /\ main = [pc |-> "create", i |-> 1]
    /\ pc = [t \in Threads |-> "absent"]
    /\ policy = [t \in Threads |-> "SCHED_NORMAL"]
    /\ old = [t \in Threads |-> "SCHED_NORMAL"]
    /\ params = {} /\ fresh = {} /\ meddled = {}
    /\ result = [t \in Threads |-> "none"]

-------------------------------------------------------------------------------
(* main() of base_mt_task *)

kernel == <<policy, params, old, result, fresh, meddled>>

\* pthread_create(), its result not looked at.
Create ==
    /\ main.pc = "create" /\ main.i <= NumThreads
    /\ main' = [main EXCEPT !.i = @ + 1]
    /\ \/ pc' = [pc EXCEPT ![main.i] = "params"]
       \/ "create" \in Faults /\ UNCHANGED pc
    /\ UNCHANGED kernel

CreateEnd ==
    /\ main.pc = "create" /\ main.i > NumThreads
    /\ main' = [pc |-> "join", i |-> 1]
    /\ UNCHANGED <<pc, kernel>>

\* pthread_join(): of a thread that was not created it is undefined, and
\* returns or ends the process.
Join ==
    /\ main.pc = "join" /\ main.i <= NumThreads
    /\ \/ /\ pc[main.i] \in Over
          /\ main' = [main EXCEPT !.i = @ + 1]
          /\ UNCHANGED pc
       \/ /\ pc[main.i] = "absent"
          /\ main' = [main EXCEPT !.pc = "exit"]
          /\ pc' = [t \in Threads |-> IF pc[t] \in Over THEN pc[t] ELSE "killed"]
    /\ UNCHANGED kernel

\* Mutant: the last thread is not joined.
JoinedAllButOne == main.i > NumThreads - 1

JoinedAll == main.i > NumThreads

Exit ==
    /\ main.pc = "join" /\ JoinedAll
    /\ main' = [main EXCEPT !.pc = "exit"]
    /\ UNCHANGED <<pc, kernel>>

-------------------------------------------------------------------------------
(* task_mode() *)

Goto(t, label) == pc' = [pc EXCEPT ![t] = label]

\* Mutant: the class is read once and remembered.
ReadOnce(t, from, to) ==
    /\ pc[t] = from /\ Goto(t, to)
    /\ old' = [old EXCEPT ![t] = IF result[t] = "none" THEN policy[t] ELSE @]
    /\ meddled' = meddled \ {t}
    /\ UNCHANGED <<main, policy, params, result, fresh>>

\* The call begins: sched_getscheduler().
Read(t, from, to) ==
    /\ pc[t] = from /\ Goto(t, to)
    /\ old' = [old EXCEPT ![t] = policy[t]]
    /\ meddled' = meddled \ {t}
    /\ UNCHANGED <<main, policy, params, result, fresh>>

Mode(p) == IF p = "SCHED_LITMUS" THEN "LITMUS_RT_TASK" ELSE "BACKGROUND_TASK"

ClassOf(mode) ==
    IF mode = "LITMUS_RT_TASK" THEN "SCHED_LITMUS" ELSE "SCHED_NORMAL"

\* The kernel admits threads with parameters.
Admits(t, p) == p = "SCHED_LITMUS" => t \in params

\* It ends: sched_setscheduler() for a change of mode, otherwise EINVAL.
Set(t, mode, from, to) ==
    /\ pc[t] = from /\ Goto(t, to)
    /\ \/ /\ Mode(old[t]) # mode /\ Admits(t, ClassOf(mode))
          /\ policy' = [policy EXCEPT ![t] = ClassOf(mode)]
          /\ result' = [result EXCEPT ![t] = "ok"]
          /\ meddled' = meddled \ {t}
       \/ /\ Mode(old[t]) # mode
          /\ ~Admits(t, ClassOf(mode)) \/ "mode" \in Faults
          /\ result' = [result EXCEPT ![t] = "refused"]
          /\ UNCHANGED <<policy, meddled>>
       \/ /\ Mode(old[t]) = mode
          /\ result' = [result EXCEPT ![t] = "EINVAL"]
          /\ UNCHANGED <<policy, meddled>>
    /\ UNCHANGED <<main, params, old, fresh>>

-------------------------------------------------------------------------------
(* rt_thread(), main() of base_task *)

\* init_rt_task_param(), init_rt_thread() and set_rt_task_param().
SetParams(t) ==
    /\ pc[t] = "params" /\ Goto(t, "enter")
    /\ \/ params' = params \cup {t}
       \/ "params" \in Faults /\ UNCHANGED params
    /\ UNCHANGED <<main, policy, old, result, fresh, meddled>>

EnterRead(t) == Read(t, "enter", "entering")
EnterSet(t)  == Set(t, "LITMUS_RT_TASK", "entering", "sleep")

\* Mutant: no sleep before the job.
SleepSkipped(t) ==
    /\ pc[t] = "sleep" /\ Goto(t, "job")
    /\ fresh' = fresh \ {t}
    /\ UNCHANGED <<main, policy, params, old, result, meddled>>

\* sleep_next_period(), whose result is ignored too: for a thread that is not
\* a real-time task it fails at once.
SleepNextPeriod(t) ==
    /\ pc[t] = "sleep"
    /\ Goto(t, IF policy[t] = "SCHED_LITMUS" THEN "asleep" ELSE "job")
    /\ fresh' = fresh \ {t}
    /\ UNCHANGED <<main, policy, params, old, result, meddled>>

\* The kernel releases the next job; a thread that has lost its class wakes up
\* without one.
Release(t) ==
    /\ pc[t] = "asleep" /\ Goto(t, "job")
    /\ fresh' = IF policy[t] = "SCHED_LITMUS" THEN fresh \cup {t} ELSE fresh
    /\ UNCHANGED <<main, policy, params, old, result, meddled>>

\* job(), "returns 1 -> task should exit, 0 -> task should continue", and the
\* test at the end of the loop.
Job(t) ==
    /\ pc[t] = "job"
    /\ \E do_exit \in JobResults : Goto(t, IF do_exit = 1 THEN "leave" ELSE "sleep")
    /\ UNCHANGED <<main, policy, params, old, result, fresh, meddled>>

LeaveRead(t) == Read(t, "leave", "leaving")
LeaveSet(t)  == Set(t, "BACKGROUND_TASK", "leaving", "ended")

Thread(t) ==
    \/ SetParams(t) \/ EnterRead(t) \/ EnterSet(t) \/ SleepNextPeriod(t)
    \/ Release(t) \/ Job(t) \/ LeaveRead(t) \/ LeaveSet(t)

-------------------------------------------------------------------------------
(* Another process, external: tests/core_api.c, chrt *)

OtherSets(t, p) ==
    /\ pc[t] \notin Over
    /\ p # policy[t] /\ Admits(t, p)
    /\ policy' = [policy EXCEPT ![t] = p]
    /\ meddled' = meddled \cup {t}
    /\ UNCHANGED <<main, pc, params, old, result, fresh>>

OtherSetsParams(t) ==
    /\ pc[t] \notin Over /\ t \notin params
    /\ params' = params \cup {t}
    /\ UNCHANGED <<main, pc, policy, old, result, fresh, meddled>>

Main == Create \/ CreateEnd \/ Join \/ Exit

Next ==
    \/ Main
    \/ \E t \in Threads :
           \/ Thread(t) \/ OtherSetsParams(t)
           \/ \E p \in Policies : OtherSets(t, p)

Spec == Init /\ [][Next]_vars

-------------------------------------------------------------------------------
(* Properties *)

\* task_mode(), "0 iff taskmode was set correctly", and base_task.c, "now
\* executing as a real-time task if the call didn't fail": after the call, and
\* whatever others did to the class before it or between its two system calls,
\* the thread is in the mode it asked for if the call returned 0, and also if
\* it returned EINVAL and nobody changed the class since it was read.  Only a
\* refusal by the kernel leaves it in the other mode.
ModeAsAsked ==
    \A t \in Threads : t \notin meddled /\ result[t] # "refused" =>
        /\ pc[t] \in Loop \cup {"leave"} => policy[t] = "SCHED_LITMUS"
        /\ pc[t] = "ended" => policy[t] # "SCHED_LITMUS"

\* base_task.c, "Wait until the next job is released. Invoke job.": a job is
\* invoked without a release only in a thread whose task_mode() call reported
\* an error, or whose class another process has changed since.
Paced ==
    \A t \in Threads : pc[t] = "job" /\ t \notin fresh =>
        result[t] = "refused" \/ t \in meddled

\* base_mt_task.c, "Wait for RT threads to terminate.": the contexts that the
\* threads were given lie in main()'s frame, and main() does not return while a
\* thread runs, whichever threads could not be created.
FrameOutlivesThreads ==
    main.pc = "exit" => \A t \in Threads : pc[t] \in Over
===============================================================================
