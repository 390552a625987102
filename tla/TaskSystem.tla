------------------------------ MODULE TaskSystem ------------------------------
(***************************************************************************)
(* A task system under LITMUS^RT: tasks started by rtspin or rt_launch set *)
(* themselves up, become real-time tasks and, with -w, wait for a common   *)
(* release; release_ts polls /proc/litmus/stats until they are ready and   *)
(* releases them (src/bin/rtspin.c, rt_launch.c, release_ts.c over the     *)
(* stubs in src/src/syscalls.c).                                           *)
(***************************************************************************)
EXTENDS Integers, FiniteSets

CONSTANTS
    Tasks,        \* the tasks
    Launched,     \* those started by rt_launch; the others are rtspin
    Waiters,      \* those started with -w
    Partitioned,  \* those started with -p
    Lockers,      \* the rtspin tasks started with -X
    Faults,       \* the steps of a task that may fail
    Releases      \* how release_ts may be started: wait (-w or -f), expected
                  \* (the argument of -f, 0 without), and whether
                  \* /proc/litmus/stats may be unreadable

FaultKinds == {"migrate", "params", "mode", "lock", "wait", "exec", "kill",
               "release"}

ASSUME TasksFinite == IsFiniteSet(Tasks)
ASSUME TaskSets ==
    /\ Launched \subseteq Tasks /\ Waiters \subseteq Tasks
    /\ Partitioned \subseteq Tasks /\ Lockers \subseteq Tasks \ Launched
ASSUME FaultsKnown == Faults \subseteq FaultKinds
ASSUME OptionsTyped ==
    /\ Releases \subseteq [wait : BOOLEAN, expected : Nat, unreadable : BOOLEAN]
    /\ \A o \in Releases : o.expected > 0 => o.wait

VARIABLES
    pc,        \* pc[t]: the next step of task t
    rt,        \* the kernel's real-time tasks
    opts,      \* the options of release_ts
    rel,       \* release_ts: its next step and its locals ready and all
    released,  \* the tasks the release_ts() call has released
    seen       \* the real-time tasks at the last turn of release_ts's loop

vars == <<pc, rt, opts, rel, released, seen>>

Setup == {"migrate", "params", "mode", "lock", "wait"}
PCs   == Setup \cup {"waiting", "run", "leave", "done", "failed"}

TypeOK ==
    /\ pc \in [Tasks -> PCs]
    /\ rt \subseteq Tasks
    /\ opts \in Releases
    /\ rel \in [pc : {"start", "poll", "release", "done", "failed"},
                ready : Nat, all : Nat]
    /\ released \subseteq Waiters
    /\ seen \subseteq Tasks

\* The command lines have been parsed (a task with bad arguments never starts).
Init ==
    /\ pc = [t \in Tasks |-> "migrate"]
    /\ rt = {}
    /\ opts \in Releases
    /\ rel = [pc |-> "start", ready |-> 0, all |-> 0]
    /\ released = {}
    /\ seen = {}

-------------------------------------------------------------------------------
(* A task: main() of rtspin and of rt_launch *)

Goto(t, label) == pc' = [pc EXCEPT ![t] = label]

\* bail_out(), usage() or a signal: the process ends and the kernel forgets it.
Exit(t, label) ==
    /\ Goto(t, label)
    /\ rt' = rt \ {t}
    /\ UNCHANGED <<opts, rel, released, seen>>

Fail(t, from, kind) ==
    /\ pc[t] = from
    /\ kind \in Faults
    /\ Exit(t, "failed")

Step(t, from, to) ==
    /\ pc[t] = from
    /\ Goto(t, to)
    /\ UNCHANGED <<rt, opts, rel, released, seen>>

\* -p: be_migrate_to_domain(), or bail out.
Migrate(t) ==
    \/ Step(t, "migrate", "params")
    \/ t \in Partitioned /\ Fail(t, "migrate", "migrate")

\* set_rt_task_param(), or bail out.  init_litmus() follows; its result is
\* ignored.
SetParams(t) ==
    \/ Step(t, "params", "mode")
    \/ Fail(t, "params", "params")

\* task_mode(LITMUS_RT_TASK): the kernel admits the task, or it bails out.
BecomeRT(t) ==
    \/ /\ pc[t] = "mode"
       /\ rt' = rt \cup {t}
       /\ Goto(t, "lock")
       /\ UNCHANGED <<opts, rel, released, seen>>
    \/ Fail(t, "mode", "mode")

\* rtspin -X: litmus_open_lock(), as a real-time task already.
OpenLock(t) ==
    \/ Step(t, "lock", "wait")
    \/ t \in Lockers /\ Fail(t, "lock", "lock")

\* -w: wait_for_ts_release() suspends the task; without -w it goes on.
WaitForRelease(t) ==
    \/ Step(t, "wait", IF t \in Waiters THEN "waiting" ELSE "run")
    \/ t \in Waiters /\ Fail(t, "wait", "wait")

\* The jobs of rtspin, and then task_mode(BACKGROUND_TASK).
RunJobs(t) == t \notin Launched /\ Step(t, "run", "leave")

LeaveRT(t) ==
    \/ pc[t] = "leave" /\ Exit(t, "done")
    \/ Fail(t, "leave", "mode")

\* rt_launch: the program it execs runs as the real-time task and ends.
Exec(t) ==
    /\ t \in Launched
    /\ \/ pc[t] = "run" /\ Exit(t, "done")
       \/ Fail(t, "run", "exec")

\* A signal ends a task that is suspended in wait_for_ts_release().
Kill(t) == Fail(t, "waiting", "kill")

Task(t) ==
    \/ Migrate(t) \/ SetParams(t) \/ BecomeRT(t) \/ OpenLock(t)
    \/ WaitForRelease(t) \/ RunJobs(t) \/ LeaveRT(t) \/ Exec(t)

-------------------------------------------------------------------------------
(* release_ts: main(), wait_until_ready() and the release itself *)

Waiting == {t \in Tasks : pc[t] = "waiting"}

ReleaseStart ==
    /\ rel.pc = "start"
    /\ rel' = [rel EXCEPT !.pc = IF opts.wait THEN "poll" ELSE "release"]
    /\ UNCHANGED <<pc, rt, opts, released, seen>>

\* Mutant: && for || in the loop condition.
KeepWaitingBoth(ready, all) == opts.expected > ready /\ ready < all

\* Mutant: one task too few is waited for.
KeepWaitingOneShort(ready, all) ==
    opts.expected > ready + 1 \/ (opts.expected = 0 /\ ready < all)

\* Mutant: the test without -f is dropped.
KeepWaitingExpectedOnly(ready, all) == opts.expected > ready

\* Mutant: >= for > in the test of -f's argument.
KeepWaitingStrict(ready, all) ==
    opts.expected >= ready \/ (opts.expected = 0 /\ ready < all)

\* The condition of the loop in wait_until_ready().
KeepWaiting(ready, all) ==
    opts.expected > ready \/ (opts.expected = 0 /\ ready < all)

\* One turn of the loop with these values of ready and all.
Polled(ready, all) ==
    rel' = [pc    |-> IF KeepWaiting(ready, all) THEN "poll" ELSE "release",
            ready |-> ready, all |-> all]

\* read_litmus_stats(): one snapshot of both counters.
PollStats ==
    /\ rel.pc = "poll"
    /\ Polled(Cardinality(Waiting), Cardinality(rt))
    /\ seen' = rt
    /\ UNCHANGED <<pc, rt, opts, released>>

\* It fails: reported, and the loop goes on with the old values.
PollFails ==
    /\ rel.pc = "poll"
    /\ opts.unreadable
    /\ Polled(rel.ready, rel.all)
    /\ seen' = rt
    /\ UNCHANGED <<pc, rt, opts, released>>

\* release_ts(): external, the kernel releases the tasks that wait now.
ReleaseTs ==
    /\ rel.pc = "release"
    /\ released' = Waiting
    /\ pc' = [t \in Tasks |-> IF t \in Waiting THEN "run" ELSE pc[t]]
    /\ rel' = [rel EXCEPT !.pc = "done"]
    /\ UNCHANGED <<rt, opts, seen>>

ReleaseFails ==
    /\ rel.pc = "release"
    /\ "release" \in Faults
    /\ rel' = [rel EXCEPT !.pc = "failed"]
    /\ UNCHANGED <<pc, rt, opts, released, seen>>

Releaser == ReleaseStart \/ PollStats \/ PollFails \/ ReleaseTs \/ ReleaseFails

-------------------------------------------------------------------------------
Next == Releaser \/ \E t \in Tasks : Task(t) \/ Kill(t)

Spec == Init /\ [][Next]_vars

\* Processes that can run do run, and the statistics can be read in the end.
FairSpec ==
    /\ Spec
    /\ WF_vars(ReleaseStart \/ PollStats \/ ReleaseTs)
    /\ \A t \in Tasks : WF_vars(Task(t))

-------------------------------------------------------------------------------
(* Properties *)

\* release_ts -f waits for every task there is.
ForAll == opts.expected > 0 /\ opts.expected >= Cardinality(Waiters)

\* release_ts waits for what statistics it can read tell it to wait for.
Informed ==
    opts.wait /\ (opts.expected > 0 => ForAll) /\ ~opts.unreadable

\* What -f, or -w with readable statistics, establishes before the release:
\* every task of interest waits, unless a signal ended it since.
ReadyInv ==
    /\ \A t \in Tasks :
          /\ t \in rt <=> pc[t] \in {"lock", "wait", "waiting", "run", "leave"}
          /\ pc[t] = "waiting" => t \in Waiters
    /\ rel.pc = "start" => rel.ready = 0
    /\ ForAll /\ rel.pc = "poll" => rel.ready < opts.expected
    /\ ForAll /\ rel.pc = "release" =>
          \A t \in Waiters : pc[t] \in {"waiting", "failed"}
    /\ Informed /\ rel.pc = "release" =>
          \A t \in seen \cap Waiters : pc[t] \in {"waiting", "failed"}

\* What remains of it afterwards.
ReleasedInv ==
    /\ rel.pc # "done" => released = {}
    /\ ForAll /\ rel.pc = "done" =>
          \A t \in Waiters : pc[t] \notin Setup \cup {"waiting"}
    /\ Informed /\ rel.pc = "done" =>
          \A t \in seen \cap Waiters : t \in released \/ pc[t] = "failed"

\* The inductive invariant of the release protocol.
TSInv == TypeOK /\ ReadyInv /\ ReleasedInv

\* release_ts -f <#tasks>, "release all threads after each of them has been set
\* up": no task passes the common release while another is still setting up,
\* whatever fails, is killed or cannot be read on the way.
CommonRelease ==
    ForAll /\ released # {} =>
        \A t \in Waiters : pc[t] \notin Setup \cup {"waiting"}

\* release_ts -w, "wait until all tasks are ready for release (as determined by
\* /proc/litmus/stats": if these can be read, every task that was a real-time
\* task when release_ts stopped waiting is released, if it waits for releases
\* at all and no signal has ended it.
AllTasksReady ==
    Informed /\ rel.pc = "done" =>
        \A t \in seen \cap Waiters : t \in released \/ pc[t] = "failed"

\* release_ts -f lets the whole task system run to its end, whatever happens to
\* other tasks and to released ones and however long the statistics are
\* unreadable, as long as no task that it waits for is lost before the release.
AllComplete ==
    (/\ ForAll
     /\ [](/\ rel.pc # "failed"
           /\ \A t \in Waiters \ released : pc[t] # "failed"))
        => <>[](\A t \in Tasks : pc[t] \in {"done", "failed"})

\* release_ts without -f ends even when tasks fail to start or never wait.
WaitTerminates == opts.expected = 0 => <>(rel.pc \in {"done", "failed"})
===============================================================================
