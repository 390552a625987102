------------------------------ MODULE RtspinJobs ------------------------------
(***************************************************************************)
(* The jobs of rtspin tasks (job() and loop_for() in src/bin/rtspin.c).    *)
(* A job spins for its execution time, part of it in a critical section    *)
(* with -X, and sleeps until its next release.  The tasks share processors *)
(* and one lock.  Times are whole ticks; the clock stands still at         *)
(* Horizon, beyond which every comparison with it has the same outcome.    *)
(***************************************************************************)
EXTENDS Integers, Sequences, FiniteSets, FiniteSetsExt, Functions

CONSTANTS
    Tasks,        \* the tasks, all released at time 0
    Files,        \* those started with -f
    Times,        \* Times[t]: the records of the file, or the WCET alone
    Scale,        \* the factor of -s
    Duration,     \* Duration[t]: the argument DURATION
    Period,       \* Period[t]: the argument PERIOD
    Lockers,      \* those started with -X
    CsLength,     \* the argument of -L
    OpenErrors,   \* those whose litmus_open_lock() may fail
    LockErrors,   \* those whose litmus_lock() may fail
    Costs,        \* Costs[t]: the processor time its loop_once() may take
    Second,       \* a second in ticks
    Procs,        \* the number of processors
    Horizon,      \* where the clock stops
    None          \* nobody has the lock

ASSUME TaskSets ==
    /\ Files \subseteq Tasks /\ Lockers \subseteq Tasks
    /\ OpenErrors \subseteq Lockers /\ LockErrors \subseteq Lockers
    /\ None \notin Tasks
ASSUME TimesTyped ==
    /\ Times \in [Tasks -> Seq(Nat)] /\ Duration \in [Tasks -> Nat]
    /\ Period \in [Tasks -> Nat \ {0}]
    /\ \A t \in Tasks \ Files : Len(Times[t]) = 1 /\ Times[t][1] \in 1 .. Period[t]
    /\ {Scale, CsLength, Second, Procs} \subseteq Nat \ {0}
    /\ \A t \in Tasks :
           IsFiniteSet(Costs[t]) /\ Costs[t] # {} /\ Costs[t] \subseteq Nat \ {0}

MaxCost(t) == Max(Costs[t])
MinCost(t) == Min(Costs[t])

VARIABLES
    pc,      \* pc[t]: where task t is
    cur,     \* cur[t]: its cur_job, from 1
    loop,    \* loop[t]: the loop_for() it executes
    rest,    \* rest[t]: its chunk2
    next,    \* next[t]: when its next job is released
    owner,   \* the task that has the lock
    queue,   \* the tasks that wait for it
    now,     \* the wall clock
    work,    \* work[t]: the processor time its current job has used
    late,    \* late[t]: what it used after its last emergency deadline
    denied,  \* the tasks whose last litmus_lock() failed
    delayed  \* the tasks that time has passed for without their running

history == <<work, late, delayed>>
vars == <<pc, cur, loop, rest, next, owner, queue, now, denied, history>>

Loops   == {"spin", "chunk1", "cs", "chunk2"}
Blocked == {"blocked", "asleep", "done"}
PCs     == Loops \cup Blocked \cup {"open", "job", "lock", "unlock", "sleep"}

\* Mutant: the execution times are left out of the duration.
ProgramEndPeriods(t) ==
    IF t \in Files THEN Period[t] * (Len(Times[t]) - 1) ELSE Duration[t]

\* start + duration; for a file its records, unscaled, and the periods between.
ProgramEnd(t) ==
    IF t \in Files
    THEN FoldFunction(+, 0, Times[t])
         + (IF Len(Times[t]) > 1 THEN Period[t] * (Len(Times[t]) - 1) ELSE 0)
    ELSE Duration[t]

\* The argument emergency_exit of the loops; only the last has two seconds.
EmergencyExit(t) ==
    ProgramEnd(t) + (IF pc[t] = "chunk2" THEN 2 * Second ELSE Second)

\* Horizon lies behind every deadline.
ASSUME HorizonFar ==
    Horizon \in Nat /\ \A t \in Tasks : Horizon > ProgramEnd(t) + 2 * Second

ExecTime(t) == Scale * Times[t][IF t \in Files THEN cur[t] ELSE 1]

TypeOK ==
    /\ pc \in [Tasks -> PCs]
    /\ \A t \in Tasks : cur[t] \in 1 .. Len(Times[t]) + 1
    /\ loop \in [Tasks -> [todo : Int, done : Nat, last : Nat, left : Nat]]
    /\ rest \in [Tasks -> Int]
    /\ next \in [Tasks -> 0 .. Horizon]
    /\ owner \in Lockers \cup {None} /\ queue \in Seq(Lockers)
    /\ now \in 0 .. Horizon
    /\ work \in [Tasks -> Nat] /\ late \in [Tasks -> Nat]
    /\ denied \subseteq LockErrors /\ delayed \subseteq Tasks

NoLoop == [todo |-> 0, done |-> 0, last |-> 0, left |-> 0]

\* Every task is a real-time task and its command line has been parsed.
Init ==
    /\ pc = [t \in Tasks |-> "open"]
    /\ cur = [t \in Tasks |-> 1]
    /\ loop = [t \in Tasks |-> NoLoop]
    /\ rest = [t \in Tasks |-> 0]
    /\ next = [t \in Tasks |-> 0]
    /\ owner = None /\ queue = <<>> /\ now = 0
    /\ work = [t \in Tasks |-> 0]
    /\ late = [t \in Tasks |-> 0]
    /\ denied = {} /\ delayed = {}

-------------------------------------------------------------------------------
Goto(t, label) == pc' = [pc EXCEPT ![t] = label]

\* -X: litmus_open_lock(); rtspin exits when open() or od_openx() fails.
OpenLock(t) ==
    /\ pc[t] = "open"
    /\ \/ Goto(t, "job")
       \/ t \in OpenErrors /\ Goto(t, "done")
    /\ UNCHANGED <<cur, loop, rest, next, owner, queue, now, denied, history>>

\* What follows each loop_for() in job().
After == [spin |-> "sleep", chunk1 |-> "lock", cs |-> "unlock",
          chunk2 |-> "sleep"]

\* loop_for(length, ...) begins its first iteration, or has nothing to do.
LoopFor(t, phase, length) ==
    \/ /\ length > 0
       /\ \E c \in Costs[t] :
              loop' = [loop EXCEPT ![t] = [todo |-> length, done |-> 0,
                                           last |-> c, left |-> c]]
       /\ Goto(t, phase)
    \/ /\ length <= 0
       /\ Goto(t, After[phase])
       /\ loop' = [loop EXCEPT ![t] = NoLoop]

\* Mutant: the length of the last iteration is not taken into account.
FitsUnpredicted(t) == loop[t].done < loop[t].todo

\* The condition of the loop: another iteration like the last still fits.
Fits(t) == loop[t].done + loop[t].last < loop[t].todo

EndIteration(t, stop, exit) ==
    /\ pc[t] \in Loops /\ loop[t].left = 0
    /\ \/ stop /\ Goto(t, exit) /\ UNCHANGED loop
       \/ /\ ~stop /\ Fits(t)
          /\ \E c \in Costs[t] :
                 loop' = [loop EXCEPT ![t].last = c, ![t].left = c]
          /\ UNCHANGED pc
       \/ ~stop /\ ~Fits(t) /\ Goto(t, After[pc[t]]) /\ UNCHANGED loop
    /\ UNCHANGED <<cur, rest, next, owner, queue, now, denied, history>>

\* Mutants: an emergency exit returns from job(); it does not leave the loop.
LoopEndReturns(t) == EndIteration(t, now > EmergencyExit(t), "sleep")
LoopEndReports(t) == EndIteration(t, FALSE, "sleep")

\* An iteration is over: an emergency exit, another one, or the loop's end.
LoopEnd(t) == EndIteration(t, now > EmergencyExit(t), After[pc[t]])

\* drand48() * (exec_time - cs_length), in whole ticks; negative when the
\* critical section is longer than the job.
Chunk1s(t) == LET d == ExecTime(t) - CsLength
              IN  IF d > 0 THEN 0 .. d - 1 ELSE IF d < 0 THEN d + 1 .. 0 ELSE {0}

\* Mutant: the critical section is not subtracted.
Chunk2WholeJob(t, chunk1) == ExecTime(t) - chunk1

Chunk2(t, chunk1) == ExecTime(t) - CsLength - chunk1

\* job() begins: with -X its critical section is somewhere in the middle.
StartJob(t) ==
    /\ pc[t] = "job"
    /\ t \in Files => cur[t] <= Len(Times[t])
    /\ now <= ProgramEnd(t)
    /\ work' = [work EXCEPT ![t] = 0]
    /\ \/ /\ t \in Lockers
          /\ \E chunk1 \in Chunk1s(t) :
                 /\ rest' = [rest EXCEPT ![t] = Chunk2(t, chunk1)]
                 /\ LoopFor(t, "chunk1", chunk1)
       \/ /\ t \notin Lockers
          /\ LoopFor(t, "spin", ExecTime(t))
          /\ UNCHANGED rest
    /\ UNCHANGED <<cur, next, owner, queue, now, denied, late, delayed>>

\* job() finds program_end passed and returns 0: the end of the loop in main(),
\* except that with -f the result is ignored and the next record is tried.
SkipJob(t) ==
    /\ pc[t] = "job"
    /\ now > ProgramEnd(t)
    /\ \/ t \notin Files /\ Goto(t, "done") /\ UNCHANGED cur
       \/ /\ t \in Files /\ cur[t] <= Len(Times[t])
          /\ cur' = [cur EXCEPT ![t] = @ + 1] /\ UNCHANGED pc
    /\ UNCHANGED <<loop, rest, next, owner, queue, now, denied, history>>

\* The records of the file are used up; task_mode(BACKGROUND_TASK), exit.
Finish(t) ==
    /\ pc[t] = "job" /\ t \in Files /\ cur[t] > Len(Times[t])
    /\ Goto(t, "done")
    /\ UNCHANGED <<cur, loop, rest, next, owner, queue, now, denied, history>>

\* Mutant: litmus_lock() is not called.
LockForgotten(t) ==
    /\ pc[t] = "lock"
    /\ LoopFor(t, "cs", CsLength)
    /\ UNCHANGED <<cur, rest, next, owner, queue, now, denied, history>>

\* litmus_lock(): its result is ignored, so a task that did not get the lock
\* executes its critical section too.
Lock(t) ==
    /\ pc[t] = "lock"
    /\ \/ /\ t \in LockErrors
          /\ denied' = denied \cup {t}
          /\ LoopFor(t, "cs", CsLength)
          /\ UNCHANGED <<owner, queue>>
       \/ /\ owner = None
          /\ owner' = t
          /\ denied' = denied \ {t}
          /\ LoopFor(t, "cs", CsLength)
          /\ UNCHANGED queue
       \/ /\ owner # None
          /\ queue' = Append(queue, t)
          /\ denied' = denied \ {t}
          /\ Goto(t, "blocked")
          /\ UNCHANGED <<loop, owner>>
    /\ UNCHANGED <<cur, rest, next, now, history>>

\* litmus_lock() returns to a task that had to wait.
Granted(t) ==
    /\ pc[t] = "blocked" /\ owner = t
    /\ LoopFor(t, "cs", CsLength)
    /\ UNCHANGED <<cur, rest, next, owner, queue, now, denied, history>>

\* The kernel's half of litmus_unlock(): the lock goes to the first in line;
\* of a task that does not have it the call fails.
PassOn(t) ==
    IF owner = t
    THEN /\ owner' = IF queue = <<>> THEN None ELSE Head(queue)
         /\ queue' = IF queue = <<>> THEN <<>> ELSE Tail(queue)
    ELSE UNCHANGED <<owner, queue>>

\* Mutant: litmus_unlock() is not called.
UnlockForgotten(t) ==
    /\ pc[t] = "unlock"
    /\ LoopFor(t, "chunk2", rest[t])
    /\ UNCHANGED <<cur, rest, next, owner, queue, now, denied, history>>

\* litmus_unlock(), result ignored, and the rest of the job.
Unlock(t) ==
    /\ pc[t] = "unlock"
    /\ PassOn(t)
    /\ LoopFor(t, "chunk2", rest[t])
    /\ UNCHANGED <<cur, rest, next, now, denied, history>>

\* sleep_next_period(): the kernel knows when the next job is released.
SleepNextPeriod(t) ==
    /\ pc[t] = "sleep"
    /\ Goto(t, "asleep")
    /\ next' = [next EXCEPT ![t] = Min({@ + Period[t], Horizon})]
    /\ UNCHANGED <<cur, loop, rest, owner, queue, now, denied, history>>

\* The next job is released (at once if its time has passed).
Release(t) ==
    /\ pc[t] = "asleep" /\ now >= next[t]
    /\ Goto(t, "job")
    /\ cur' = IF t \in Files THEN [cur EXCEPT ![t] = @ + 1] ELSE cur
    /\ UNCHANGED <<loop, rest, next, owner, queue, now, denied, history>>

-------------------------------------------------------------------------------
(* Time *)

Spinning == {t \in Tasks : pc[t] \in Loops /\ loop[t].left > 0}

\* Tasks that wait for nothing but the processor to take their next step.
Ready == {t \in Tasks : \/ pc[t] \notin Blocked /\ t \notin Spinning
                        \/ pc[t] = "blocked" /\ owner = t
                        \/ pc[t] = "asleep" /\ now >= next[t]}

\* A tick, in which the kernel runs the tasks S.
Tick(S) ==
    /\ S \subseteq Spinning /\ Cardinality(S) <= Procs
    /\ S = {} => now < Horizon
    /\ now' = Min({now + 1, Horizon})
    /\ loop' = [t \in Tasks |->
                   IF t \in S
                   THEN [loop[t] EXCEPT !.done = @ + 1, !.left = @ - 1]
                   ELSE loop[t]]
    /\ work' = [t \in Tasks |-> IF t \in S THEN work[t] + 1 ELSE work[t]]
    /\ late' = [t \in Tasks |->
                   IF t \in S /\ now > ProgramEnd(t) + 2 * Second
                   THEN late[t] + 1 ELSE late[t]]
    /\ delayed' = delayed \cup (Spinning \ S) \cup Ready
                      \cup {t \in Tasks : pc[t] = "blocked"}
    /\ UNCHANGED <<pc, cur, rest, next, owner, queue, denied>>

Task(t) ==
    \/ OpenLock(t) \/ StartJob(t) \/ SkipJob(t) \/ Finish(t) \/ LoopEnd(t)
    \/ Lock(t) \/ Granted(t) \/ Unlock(t) \/ SleepNextPeriod(t) \/ Release(t)

Next == \/ \E t \in Tasks : Task(t)
        \/ \E S \in SUBSET Tasks : Tick(S)

Spec == Init /\ [][Next]_vars

\* A task that can go on does, a task that spins gets processor time again and
\* again, and time passes.
FairSpec ==
    /\ Spec
    /\ \A t \in Tasks :
           /\ WF_vars(Task(t))
           /\ WF_vars(\E S \in SUBSET Tasks : t \in S /\ Tick(S))
    /\ WF_vars(Tick({}))

-------------------------------------------------------------------------------
(* Properties *)

\* The critical section of job() lies between litmus_lock() and
\* litmus_unlock(): no two tasks whose lock calls succeeded are in it together,
\* and tasks whose calls failed do not take the lock from those who have it.
Exclusive ==
    LET Inside == {t \in Tasks : pc[t] = "cs"} \ denied
    IN  Inside \subseteq {owner} /\ Cardinality(Inside) <= 1

\* Through every way out of loop_for(), emergency exits included, job() gives
\* the lock back: no task sleeps, spins outside its critical section or exits
\* with it, and those in line are waiting.
LockReturned ==
    /\ owner # None => pc[owner] \in {"blocked", "cs", "unlock"}
    /\ \A i \in DOMAIN queue : pc[queue[i]] = "blocked" /\ queue[i] # owner

\* loop_for() predicts its next iteration by the last: it exceeds the time it
\* was given only by its first iteration or by what iterations differ in.
LoopLength ==
    \A t \in Tasks :
        LET l == loop[t]
            over == l.done - l.todo
        IN  (pc[t] \in Loops /\ over > 0) =>
                \/ l.done + l.left = l.last /\ over < MaxCost(t)
                \/ over < MaxCost(t) - MinCost(t)

\* The processor time a job with execution time e may use: that time (or the
\* critical section's length, if that is more) and, for each of its loops, what
\* an iteration takes beyond the last tick it was given.
Demand(t, e) ==
    IF t \in Lockers THEN Max({e, CsLength}) + 3 * (MaxCost(t) - 1)
                     ELSE e + MaxCost(t) - 1

\* However job() splits its time around the critical section, it uses no more
\* than its execution time and its loops justify.
JobLength == \A t \in Tasks : pc[t] = "sleep" => work[t] <= Demand(t, ExecTime(t))

\* However far a job is behind when its program should have ended, the
\* emergency exits leave it at most an iteration of each of its loops: three
\* around a critical section, one without.
StopsLate ==
    \A t \in Tasks : late[t] <= (IF t \in Lockers THEN 3 ELSE 1) * MaxCost(t)

\* rtspin -f executes every record of the file unless others delay it or its
\* jobs overrun their records by more than a period: the program end computed
\* from the (unscaled) records and the periods between leaves time for all.
EveryRecordRuns ==
    \A t \in Files \ delayed :
        /\ pc[t] = "job" /\ cur[t] <= Len(Times[t])
        /\ \A n \in 1 .. Len(Times[t]) - 1 :
               Demand(t, Scale * Times[t][n]) <= Times[t][n] + Period[t]
        => now <= ProgramEnd(t)

\* Every rtspin comes to its end, however the tasks are scheduled and wherever
\* the lock is when their time is up.
Terminates == <>(\A t \in Tasks : pc[t] = "done")
===============================================================================
