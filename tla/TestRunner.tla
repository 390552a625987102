------------------------------ MODULE TestRunner ------------------------------
(***************************************************************************)
(* The test program (src/tests/runner.c with include/tests.h): every test  *)
(* runs in a process of its own, whose end is its verdict.  The tests of   *)
(* sched.c and pcp.c that need a common release fork real-time children,   *)
(* poll the number of waiting tasks until all of them wait, release them   *)
(* and look at how they end: the last child forked, the one of highest     *)
(* priority, kills the others when it has seen what it was to see.         *)
(* Nothing kills the children of a test that fails.                        *)
(***************************************************************************)
EXTENDS Integers, Sequences, FiniteSets

CONSTANTS
    Suite,   \* a plugin's test cases: the number of children each one forks
    Faults   \* what may go wrong: "setup" and "work" in a child before and
             \* after the release, "parent" in a test process

ASSUME SuiteTyped == Suite \in Seq(Nat)
ASSUME FaultsKnown == Faults \subseteq {"setup", "work", "parent"}

VARIABLES
    runner,  \* the runner: "run" or "wait" in its loop, "done" or "killed"
    i,       \* the index of its loop
    ok,      \* the tests it has counted as ok
    test,    \* the current test's process
    k,       \* the children it has forked, or has waited for
    ended,   \* ended[j]: how the process of test j ended
    child,   \* child[j][c]: where child c of test j is, or its wait status
    seen     \* the faults that have happened

vars == <<runner, i, ok, test, k, ended, child, seen>>

Cases       == 1 .. Len(Suite)
Children(j) == 1 .. Suite[j]
Over        == {"none", "0", "200", "SIGUSR2"}

TypeOK ==
    /\ runner \in {"run", "wait", "done", "killed"}
    /\ i \in 1 .. Len(Suite) + 1 /\ ok \in 0 .. Len(Suite)
    /\ test \in {"none", "fork", "poll", "release", "reap"}
    /\ k \in Nat /\ (test # "none" => k <= Suite[i])
    /\ ended \in [Cases -> {"no", "0", "200", "signal"}]
    /\ \A j \in Cases : child[j] \in
           [Children(j) -> Over \cup {"unborn", "setup", "waiting", "working"}]
    /\ seen \subseteq Faults

Init ==
    /\ runner = "run" /\ i = 1 /\ ok = 0 /\ test = "none" /\ k = 0
    /\ ended = [j \in Cases |-> "no"]
    /\ child = [j \in Cases |-> [c \in Children(j) |-> "unborn"]]
    /\ seen = {}

Fault(kind) == kind \in Faults /\ seen' = seen \cup {kind}

-------------------------------------------------------------------------------
(* main(), run_tests() and run_test() *)

\* fork(); if it fails, so does the runner.
RunTest ==
    /\ runner = "run" /\ i <= Len(Suite)
    /\ \/ /\ runner' = "wait" /\ test' = "fork" /\ k' = 0
          /\ UNCHANGED seen
       \/ /\ Fault("parent") /\ runner' = "done"
          /\ UNCHANGED <<test, k>>
    /\ UNCHANGED <<i, ok, ended, child>>

\* Mutant: WEXITSTATUS() alone, which is 0 for a process killed by a signal.
ExitStatusZero(status) == status \in {"0", "signal"}

\* WIFEXITED(status) && WEXITSTATUS(status) == 0
ExitedOk(status) == status = "0"

\* waitpid() returns.
Waited ==
    /\ runner = "wait" /\ ended[i] # "no"
    /\ ok' = ok + (IF ExitedOk(ended[i]) THEN 1 ELSE 0)
    /\ i' = i + 1
    /\ runner' = "run"
    /\ UNCHANGED <<test, k, ended, child, seen>>

Finish ==
    /\ runner = "run" /\ i > Len(Suite)
    /\ runner' = "done"
    /\ UNCHANGED <<i, ok, test, k, ended, child, seen>>

-------------------------------------------------------------------------------
(* A test's process *)

End(status) == test' = "none" /\ ended' = [ended EXCEPT ![i] = status]

\* Any call of the test fails, or it is killed; fail() exits.  After the last
\* fork of a test without children this is also its own work.
TestFails ==
    /\ test # "none" /\ Fault("parent")
    /\ \E status \in {"200", "signal"} : End(status)
    /\ UNCHANGED <<runner, i, ok, k, child>>

\* FORK_TASK: the result of fork() is not looked at.
ForkTask ==
    /\ test = "fork" /\ k < Suite[i]
    /\ k' = k + 1
    /\ \/ /\ child' = [child EXCEPT ![i][k'] = "setup"]
          /\ UNCHANGED seen
       \/ /\ Fault("setup")
          /\ child' = [child EXCEPT ![i][k'] = "none"]
    /\ UNCHANGED <<runner, i, ok, test, ended>>

ForkEnd ==
    /\ test = "fork" /\ k = Suite[i]
    /\ \/ Suite[i] > 0 /\ test' = "poll" /\ UNCHANGED ended
       \/ Suite[i] = 0 /\ End("0")
    /\ UNCHANGED <<runner, i, ok, k, child, seen>>

\* Every waiting task, whoever forked it.
Waiters == {p \in UNION {{j} \X Children(j) : j \in Cases} :
                child[p[1]][p[2]] = "waiting"}

get_nr_ts_release_waiters == Cardinality(Waiters)

\* Mutants: some child waits; one waits too many.
AllWaitSome    == get_nr_ts_release_waiters > 0
AllWaitOneMore == get_nr_ts_release_waiters = Suite[i] + 1

AllWait == get_nr_ts_release_waiters = Suite[i]

\* The last turn of the polling loop; others change nothing.
Poll ==
    /\ test = "poll" /\ AllWait
    /\ test' = "release"
    /\ UNCHANGED <<runner, i, ok, k, ended, child, seen>>

\* release_ts(): the kernel releases everyone that waits.
ReleaseTs ==
    /\ test = "release"
    /\ test' = "reap" /\ k' = 0
    /\ child' = [j \in Cases |-> [c \in Children(j) |->
                    IF child[j][c] = "waiting" THEN "working" ELSE child[j][c]]]
    /\ UNCHANGED <<runner, i, ok, ended, seen>>

\* Mutant: every child is to exit.
ExpectedZero(c) == "0"

\* The status a test asserts: the last child exits, it kills the others.
Expected(c) == IF c = Suite[i] THEN "0" ELSE "SIGUSR2"

\* waitpid() and ASSERT(), the last child first.
Reap ==
    LET c == IF k = 0 THEN Suite[i] ELSE k
    IN  /\ test = "reap" /\ child[i][c] \in Over
        /\ \/ /\ child[i][c] = Expected(c)
              /\ k' = k + 1
              /\ IF k' = Suite[i] THEN End("0") ELSE UNCHANGED <<test, ended>>
           \/ /\ child[i][c] # Expected(c)
              /\ End("200") /\ UNCHANGED k
        /\ UNCHANGED <<runner, i, ok, child, seen>>

-------------------------------------------------------------------------------
(* A real-time child *)

Move(j, c, to) == child' = [child EXCEPT ![j][c] = to]

\* Parameters, CPU, mode, locks, wait_for_ts_release().
SetUp(j, c) ==
    /\ child[j][c] = "setup"
    /\ \/ Move(j, c, "waiting") /\ UNCHANGED seen
       \/ Move(j, c, "200") /\ Fault("setup")
    /\ UNCHANGED <<runner, i, ok, test, k, ended>>

\* A child that is to be killed runs until then, or ends too early.
LowEnds(j, c) ==
    /\ child[j][c] = "working" /\ c # Suite[j]
    /\ \E status \in {"0", "200"} : Move(j, c, status)
    /\ Fault("work")
    /\ UNCHANGED <<runner, i, ok, test, k, ended>>

\* The last child: kill() of the others and exit(0); an assertion fails before
\* or after the kill().
HighEnds(j, c) ==
    /\ child[j][c] = "working" /\ c = Suite[j]
    /\ \E status \in {"0", "200"}, kills \in BOOLEAN :
           /\ IF status = "0" THEN kills /\ UNCHANGED seen ELSE Fault("work")
           /\ child' = [child EXCEPT ![j] = [d \in Children(j) |->
                  CASE d = c -> status
                    [] d # c /\ kills /\ @[d] \notin Over -> "SIGUSR2"
                    [] OTHER -> @[d]]]
           /\ kills => \A d \in Children(j) : child[j][d] # "none"
    /\ UNCHANGED <<runner, i, ok, test, k, ended>>

\* With the -1 of a fork() that failed, kill() is for every process.
HighKillsAll(j, c) ==
    /\ child[j][c] = "working" /\ c = Suite[j]
    /\ \E d \in Children(j) : child[j][d] = "none"
    /\ \E status \in {"0", "200"} :
           /\ IF status = "0" THEN UNCHANGED seen ELSE Fault("work")
           /\ child' = [n \in Cases |-> [d \in Children(n) |->
                  CASE <<n, d>> = <<j, c>> -> status
                    [] <<n, d>> # <<j, c>>
                       /\ child[n][d] \in Over \cup {"unborn"} -> child[n][d]
                    [] OTHER -> "SIGUSR2"]]
    /\ runner' = IF runner = "done" THEN "done" ELSE "killed"
    /\ test' = "none"
    /\ ended' = IF test = "none" THEN ended ELSE [ended EXCEPT ![i] = "signal"]
    /\ UNCHANGED <<i, ok, k>>

Runner     == RunTest \/ Waited \/ Finish
Test       == ForkTask \/ ForkEnd \/ Poll \/ ReleaseTs \/ Reap
Task(j, c) == SetUp(j, c) \/ HighEnds(j, c) \/ HighKillsAll(j, c)

Next ==
    \/ Runner \/ Test \/ TestFails
    \/ \E j \in Cases : \E c \in Children(j) : Task(j, c) \/ LowEnds(j, c)

Spec == Init /\ [][Next]_vars

\* Processes that can run do; nothing has to fail.
FairSpec ==
    /\ Spec /\ WF_vars(Runner) /\ WF_vars(Test)
    /\ \A j \in Cases : \A c \in Children(j) : WF_vars(Task(j, c))

-------------------------------------------------------------------------------
(* Properties *)

AsAsserted(j) ==
    /\ ended[j] = "0"
    /\ \A c \in Children(j) :
           child[j][c] = IF c = Suite[j] THEN "0" ELSE "SIGUSR2"

\* "** Result: %d ok" in main(): whatever fails or is killed in whichever
\* process, and whatever earlier tests have left running, the runner counts no
\* test of which not every process ended as the test's assertions say.
OkMeansPassed == ok <= Cardinality({j \in Cases : AsAsserted(j)})

\* The polling loops of sched.c and pcp.c: unless an earlier test ended before
\* its release and left its children waiting, the tasks a test releases are its
\* own children, all of them.
OwnWaiters ==
    test = "release" /\ "parent" \notin seen =>
        Waiters = {i} \X Children(i)

\* If nothing goes wrong, every test is counted and main() returns 0.
AllOk == runner = "done" /\ seen = {} => ok = Len(Suite)

\* Failed assertions and children that end too early do not stop the suite: it
\* comes to its end unless a child fails before it waits, or a test before it
\* releases (the polling loops have no way out but the number they wait for).
SuiteEnds == <>(runner = "done" \/ seen \cap {"setup", "parent"} # {})
===============================================================================
