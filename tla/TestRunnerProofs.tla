--------------------------- MODULE TestRunnerProofs ---------------------------
(***************************************************************************)
(* Proofs about the test program, for any suite and any combination of     *)
(* faults: what the runner's count means, whose children a test releases,  *)
(* and that without a fault every test is counted.                         *)
(***************************************************************************)
EXTENDS TestRunner, FiniteSetTheorems, TLAPS

Status == Over \cup {"unborn", "setup", "waiting", "working"}

\* How child c of test j ends when nothing goes wrong.
AsPlanned(j, c) == IF c = Suite[j] THEN "0" ELSE "SIGUSR2"

ChildTypes ==
    /\ child = [j \in Cases |-> child[j]]
    /\ \A j \in Cases : child[j] \in [Children(j) -> Status]

Types ==
    /\ runner \in {"run", "wait", "done", "killed"}
    /\ i \in 1 .. Len(Suite) + 1 /\ ok \in Nat /\ k \in Nat
    /\ test \in {"none", "fork", "poll", "release", "reap"}
    /\ ended \in [Cases -> {"no", "0", "200", "signal"}]
    /\ ChildTypes /\ seen \subseteq Faults

\* The runner waits for the test under way, and later tests have not begun.
ProgressInv ==
    /\ test # "none" => runner = "wait" /\ ended[i] = "no" /\ k <= Suite[i]
    /\ test \in {"poll", "release", "reap"} => Suite[i] > 0
    /\ runner = "wait" => i \in Cases
    /\ \A j \in Cases : j > i \/ (j = i /\ runner = "run") =>
           ended[j] = "no" /\ \A c \in Children(j) : child[j][c] = "unborn"

\* A test that exited with 0 has seen its children end as planned, and no
\* process is left to change that; a test that reaps has seen k of them.
PassedInv ==
    /\ \A j \in Cases : ended[j] = "0" =>
           \A c \in Children(j) : child[j][c] = AsPlanned(j, c)
    /\ test = "reap" =>
           /\ k < Suite[i]
           /\ k > 0 => /\ child[i][Suite[i]] = "0"
                       /\ \A c \in 1 .. k - 1 : child[i][c] = "SIGUSR2"

\* The tests counted so far.
Passed == {j \in Cases : j < i /\ ended[j] = "0"}

CountInv == ok <= Cardinality(Passed)

\* Before a test's release none of its children works; unless a test process
\* has failed, a child that is to wait, or waits, is one of the test that will
\* release it.
WaitInv ==
    /\ test \in {"fork", "poll", "release"} =>
           \A c \in Children(i) : child[i][c] # "working"
    /\ "parent" \notin seen =>
           /\ \A j \in Cases : \A c \in Children(j) :
                  child[j][c] \in {"setup", "waiting"} =>
                      j = i /\ test \in {"fork", "poll", "release"}
           /\ test = "release" => \A c \in Children(i) : child[i][c] = "waiting"

\* Without a fault every process ends as planned and every test is counted.
CleanInv ==
    /\ \A j \in Cases : \A c \in Children(j) : child[j][c] = "none" => seen # {}
    /\ seen = {} =>
           /\ \A j \in Cases : \A c \in Children(j) :
                  child[j][c] \in Over => child[j][c] = AsPlanned(j, c)
           /\ ok = i - 1
           /\ i \in Cases => ended[i] \in {"no", "0"}
           /\ runner = "done" => i = Len(Suite) + 1

RunnerInv ==
    Types /\ ProgressInv /\ PassedInv /\ CountInv /\ WaitInv /\ CleanInv

-------------------------------------------------------------------------------
(* The suite, the tests counted and the waiting tasks *)

\* Every test of the suite forks a number of children.
LEMMA SuiteFacts ==
    /\ Len(Suite) \in Nat
    /\ \A j \in Cases : j \in Nat /\ j <= Len(Suite) /\ Suite[j] \in Nat
    /\ \A j \in Cases : Suite[j] > 0 => Suite[j] \in Children(j)
<1>1. Len(Suite) \in Nat /\ \A j \in Cases : Suite[j] \in Nat
  BY SuiteTyped DEF Cases
<1> QED
  BY <1>1 DEF Cases, Children

\* An interval from 1 has as many elements as it says.
LEMMA IntervalSize ==
    ASSUME NEW n \in Nat
    PROVE  IsFiniteSet(1 .. n) /\ Cardinality(1 .. n) = n
<1>1. /\ IsFiniteSet(1 .. n)
      /\ Cardinality(1 .. n) = IF 1 > n THEN 0 ELSE n - 1 + 1
  BY FS_Interval
<1> QED
  BY <1>1

\* The tests that passed are finitely many, at most all of them.
LEMMA PassedFinite ==
    /\ IsFiniteSet(Passed) /\ Cardinality(Passed) \in Nat
    /\ Cardinality(Passed) <= Len(Suite)
<1>1. IsFiniteSet(Cases) /\ Cardinality(Cases) = Len(Suite)
  BY SuiteFacts, IntervalSize DEF Cases
<1>2. Passed \in SUBSET Cases
  BY DEF Passed
<1> QED
  BY <1>1, <1>2, FS_Subset, FS_CardinalityType

\* The loop's index and the ends of the tests before it decide what is counted.
LEMMA SameCount ==
    ASSUME CountInv, i' = i, ok' = ok,
           \A j \in Cases : j < i => ended'[j] = ended[j]
    PROVE  CountInv'
<1>1. Passed' = Passed
  BY DEF Passed, Cases
<1> QED
  BY <1>1 DEF CountInv

\* A child moves: where it and the others are then.
LEMMA PutChild ==
    ASSUME ChildTypes, NEW j \in Cases, NEW c \in Children(j),
           NEW to \in Status, child' = [child EXCEPT ![j][c] = to]
    PROVE  /\ ChildTypes'
           /\ \A n \in Cases : \A d \in Children(n) :
                  child'[n][d] = IF n = j /\ d = c THEN to ELSE child[n][d]
<1>1. /\ child = [n \in Cases |-> child[n]]
      /\ \A n \in Cases : child[n] \in [Children(n) -> Status]
  BY DEF ChildTypes
<1>2. /\ child' = [n \in Cases |-> child'[n]]
      /\ \A n \in Cases : n # j => child'[n] = child[n]
      /\ child'[j] = [child[j] EXCEPT ![c] = to]
  BY <1>1
<1>3. child'[j] \in [Children(j) -> Status]
  BY <1>1, <1>2
<1>4. \A n \in Cases : child'[n] \in [Children(n) -> Status]
  BY <1>1, <1>2, <1>3
<1>5. \A n \in Cases : \A d \in Children(n) :
          child'[n][d] = IF n = j /\ d = c THEN to ELSE child[n][d]
  BY <1>1, <1>2
<1> QED
  BY <1>2, <1>4, <1>5 DEF ChildTypes, Cases, Children, Status, Over

\* Children that have ended stay as they ended in a step that ends no test, so
\* what a test has seen, or has passed for, remains true.
LEMMA OverKept ==
    ASSUME PassedInv, ended' = ended, test' = test, k' = k, i' = i, i \in Nat,
           test = "reap" => i \in Cases, k \in Nat,
           \A n \in Cases : \A d \in Children(n) :
               child[n][d] \in Over => child'[n][d] = child[n][d]
    PROVE  PassedInv'
<1>1. ASSUME NEW j \in Cases, ended'[j] = "0", NEW c \in Children(j)
      PROVE  child'[j][c] = AsPlanned(j, c)
  <2>1. child[j][c] = AsPlanned(j, c)
    BY <1>1 DEF PassedInv
  <2> QED
    BY <2>1 DEF AsPlanned, Over
<1>2. ASSUME test' = "reap"
      PROVE  /\ k' < Suite[i']
             /\ k' > 0 => /\ child'[i'][Suite[i']] = "0"
                          /\ \A c \in 1 .. k' - 1 : child'[i'][c] = "SIGUSR2"
  <2>1. i \in Cases /\ Suite[i] \in Nat /\ k < Suite[i]
    BY <1>2, SuiteFacts DEF PassedInv
  <2>2. ASSUME k > 0
        PROVE  /\ child'[i][Suite[i]] = "0"
               /\ \A c \in 1 .. k - 1 : child'[i][c] = "SIGUSR2"
    <3>1. /\ child[i][Suite[i]] = "0"
          /\ \A c \in 1 .. k - 1 : child[i][c] = "SIGUSR2"
      BY <1>2, <2>2 DEF PassedInv
    <3>2. Suite[i] \in Children(i) /\ \A c \in 1 .. k - 1 : c \in Children(i)
      BY <2>1, <2>2 DEF Children
    <3> QED
      BY <2>1, <3>1, <3>2 DEF Over
  <2> QED
    BY <2>1, <2>2
<1> QED
  BY <1>1, <1>2 DEF PassedInv, AsPlanned, Cases, Children

\* When as many tasks wait as the test has children, and none but those wait,
\* all of its children do.
LEMMA AllAreWaiting ==
    ASSUME i \in Cases, AllWait, Waiters \subseteq {i} \X Children(i)
    PROVE  Waiters = {i} \X Children(i)
<1>1. IsFiniteSet(Children(i)) /\ Cardinality(Children(i)) = Suite[i]
  BY SuiteFacts, IntervalSize DEF Children
<1>2. IsFiniteSet({i}) /\ Cardinality({i}) = 1
  BY FS_Singleton
<1>3. /\ IsFiniteSet({i} \X Children(i))
      /\ Cardinality({i} \X Children(i)) = Suite[i]
  BY <1>1, <1>2, FS_Product, SuiteFacts
<1>4. Cardinality(Waiters) = Suite[i]
  BY DEF AllWait, get_nr_ts_release_waiters
<1> QED
  BY <1>3, <1>4, FS_Subset

-------------------------------------------------------------------------------
(* The invariant *)

\* Nothing has run yet.
LEMMA InitRunnerInv == Init => RunnerInv
<1> SUFFICES ASSUME Init PROVE RunnerInv
  OBVIOUS
<1>1. /\ runner = "run" /\ i = 1 /\ ok = 0 /\ test = "none" /\ k = 0
      /\ ended = [j \in Cases |-> "no"] /\ seen = {}
  BY DEF Init
<1>2. ChildTypes /\ \A j \in Cases : \A c \in Children(j) : child[j][c] = "unborn"
  BY DEF Init, ChildTypes, Status
<1>3. Types /\ ProgressInv /\ PassedInv /\ WaitInv /\ CleanInv
  BY <1>1, <1>2, SuiteFacts
     DEF Types, ProgressInv, PassedInv, WaitInv, CleanInv, Cases, Over
<1>4. CountInv
  BY <1>1, PassedFinite DEF CountInv
<1> QED
  BY <1>3, <1>4 DEF RunnerInv

\* run_test() begins a test, or the runner ends for want of a process.
LEMMA RunTestKeeps ==
    ASSUME RunnerInv, RunTest
    PROVE  RunnerInv'
<1>1. /\ Types /\ ProgressInv /\ PassedInv /\ CountInv /\ WaitInv /\ CleanInv
      /\ runner = "run" /\ i \in Cases /\ test = "none"
      /\ i' = i /\ ok' = ok /\ ended' = ended /\ child' = child
  BY SuiteFacts DEF RunnerInv, RunTest, Types, Cases, ProgressInv
<1>2. ChildTypes'
  BY <1>1 DEF Types, ChildTypes, Cases, Children
<1>3. CountInv'
  BY <1>1, SameCount
<1>4. CASE runner' = "wait" /\ test' = "fork" /\ k' = 0 /\ seen' = seen
  <2>1. Types'
    BY <1>1, <1>2, <1>4 DEF Types, Cases
  <2>2. ProgressInv' /\ PassedInv'
    BY <1>1, <1>4, SuiteFacts DEF ProgressInv, PassedInv, AsPlanned, Cases, Children
  <2>3. WaitInv' /\ CleanInv'
    BY <1>1, <1>4 DEF ProgressInv, WaitInv, CleanInv, AsPlanned, Cases, Children
  <2> QED
    BY <1>3, <2>1, <2>2, <2>3 DEF RunnerInv
<1>5. CASE Fault("parent") /\ runner' = "done" /\ test' = test /\ k' = k
  <2>1. seen' # {} /\ "parent" \in seen' /\ seen' \subseteq Faults
    BY <1>1, <1>5 DEF Types, Fault
  <2>2. Types'
    BY <1>1, <1>2, <1>5, <2>1 DEF Types, Cases
  <2>3. ProgressInv' /\ PassedInv'
    BY <1>1, <1>5, SuiteFacts DEF ProgressInv, PassedInv, AsPlanned, Cases, Children
  <2>4. WaitInv' /\ CleanInv'
    BY <1>1, <1>5, <2>1 DEF WaitInv, CleanInv, Cases, Children
  <2> QED
    BY <1>3, <2>2, <2>3, <2>4 DEF RunnerInv
<1> QED
  BY <1>4, <1>5 DEF RunTest

\* waitpid() returns to the runner: a test that ended with 0 is one more of
\* those that passed.
LEMMA WaitedKeeps ==
    ASSUME RunnerInv, Waited
    PROVE  RunnerInv'
<1>1. /\ Types /\ ProgressInv /\ PassedInv /\ CountInv /\ WaitInv /\ CleanInv
      /\ runner = "wait" /\ i \in Cases /\ test = "none" /\ ended[i] # "no"
      /\ i' = i + 1 /\ runner' = "run" /\ test' = test /\ k' = k
      /\ ended' = ended /\ child' = child /\ seen' = seen
      /\ ok' = IF ended[i] = "0" THEN ok + 1 ELSE ok
  BY DEF RunnerInv, Waited, Types, ProgressInv, ExitedOk
<1>2. Types'
  <2>1. ChildTypes'
    BY <1>1 DEF Types, ChildTypes, Cases, Children
  <2> QED
    BY <1>1, <2>1, SuiteFacts DEF Types, Cases
<1>3. ProgressInv' /\ PassedInv'
  BY <1>1, SuiteFacts DEF Types, ProgressInv, PassedInv, AsPlanned, Cases, Children
<1>4. CountInv'
  <2>1. CASE ended[i] = "0"
    <3>1. Passed' = Passed \cup {i} /\ i \notin Passed
      BY <1>1, <2>1, SuiteFacts DEF Passed, Cases
    <3>2. Cardinality(Passed') = Cardinality(Passed) + 1
      BY <3>1, PassedFinite, FS_AddElement
    <3> QED
      BY <1>1, <2>1, <3>2, PassedFinite DEF CountInv, Types
  <2>2. CASE ended[i] # "0"
    <3>1. Passed' = Passed
      BY <1>1, <2>2, SuiteFacts DEF Passed, Cases
    <3> QED
      BY <1>1, <2>2, <3>1 DEF CountInv
  <2> QED
    BY <2>1, <2>2
<1>5. WaitInv'
  BY <1>1, SuiteFacts DEF WaitInv, Cases, Children
<1>6. CleanInv'
  <2>1. seen' = {} => ended[i] = "0" /\ ok' = i' - 1
    BY <1>1, SuiteFacts DEF CleanInv, Types
  <2>2. i' \in Cases => ended[i'] = "no"
    BY <1>1, SuiteFacts DEF ProgressInv
  <2> QED
    BY <1>1, <2>1, <2>2 DEF CleanInv, AsPlanned, Cases, Children
<1> QED
  BY <1>2, <1>3, <1>4, <1>5, <1>6 DEF RunnerInv

\* The runner comes to the end of its loop.
LEMMA FinishKeeps ==
    ASSUME RunnerInv, Finish
    PROVE  RunnerInv'
<1>1. /\ Types /\ ProgressInv /\ PassedInv /\ CountInv /\ WaitInv /\ CleanInv
      /\ runner = "run" /\ i = Len(Suite) + 1 /\ runner' = "done"
      /\ i' = i /\ ok' = ok /\ test' = test /\ k' = k
      /\ ended' = ended /\ child' = child /\ seen' = seen
  BY SuiteFacts DEF RunnerInv, Finish, Types
<1>2. ChildTypes'
  BY <1>1 DEF Types, ChildTypes, Cases, Children
<1>3. CountInv'
  BY <1>1, SameCount
<1>4. Types' /\ ProgressInv' /\ PassedInv'
  BY <1>1, <1>2, SuiteFacts
     DEF Types, ProgressInv, PassedInv, AsPlanned, Cases, Children
<1>5. WaitInv' /\ CleanInv'
  BY <1>1 DEF WaitInv, CleanInv, AsPlanned, Cases, Children
<1> QED
  BY <1>3, <1>4, <1>5 DEF RunnerInv

\* A test's process fails or is killed, and leaves its children alone.
LEMMA TestFailsKeeps ==
    ASSUME RunnerInv, TestFails
    PROVE  RunnerInv'
<1>1. /\ Types /\ ProgressInv /\ PassedInv /\ CountInv /\ WaitInv /\ CleanInv
      /\ test # "none" /\ test' = "none" /\ runner = "wait" /\ i \in Cases
      /\ runner' = runner /\ i' = i /\ ok' = ok /\ k' = k /\ child' = child
  BY DEF RunnerInv, TestFails, End, ProgressInv
<1>2. /\ ended' \in [Cases -> {"no", "0", "200", "signal"}]
      /\ ended'[i] \in {"200", "signal"}
      /\ \A j \in Cases : j # i => ended'[j] = ended[j]
  BY <1>1 DEF TestFails, End, Types
<1>3. seen' # {} /\ "parent" \in seen' /\ seen' \subseteq Faults
  BY <1>1 DEF TestFails, Fault, Types
<1>4. ChildTypes'
  BY <1>1 DEF Types, ChildTypes, Cases, Children
<1>5. CountInv'
  BY <1>1, <1>2, SuiteFacts, SameCount
<1>6. Types'
  BY <1>1, <1>2, <1>3, <1>4 DEF Types, Cases
<1>7. ProgressInv' /\ PassedInv'
  BY <1>1, <1>2, SuiteFacts DEF ProgressInv, PassedInv, AsPlanned, Cases, Children
<1>8. WaitInv' /\ CleanInv'
  BY <1>1, <1>3 DEF WaitInv, CleanInv, Cases, Children
<1> QED
  BY <1>5, <1>6, <1>7, <1>8 DEF RunnerInv

\* FORK_TASK, whether or not fork() succeeds.
LEMMA ForkTaskKeeps ==
    ASSUME RunnerInv, ForkTask
    PROVE  RunnerInv'
<1>1. /\ Types /\ ProgressInv /\ PassedInv /\ CountInv /\ WaitInv /\ CleanInv
      /\ test = "fork" /\ test' = test /\ runner = "wait" /\ i \in Cases
      /\ runner' = runner /\ i' = i /\ ok' = ok /\ k' = k + 1 /\ k < Suite[i]
      /\ ended' = ended /\ ended[i] = "no" /\ k \in Nat
  BY DEF RunnerInv, ForkTask, ProgressInv, Types
<1>2. k + 1 \in Children(i)
  BY <1>1, SuiteFacts DEF Children
<1>3. PICK to \in {"setup", "none"} :
          /\ child' = [child EXCEPT ![i][k + 1] = to]
          /\ to = "none" => seen' # {}
          /\ seen \subseteq seen' /\ seen' \subseteq Faults
          /\ to = "setup" => seen' = seen
  BY <1>1 DEF ForkTask, Fault, Types
<1>4. /\ ChildTypes'
      /\ \A n \in Cases : \A d \in Children(n) :
             child'[n][d] = IF n = i /\ d = k + 1 THEN to ELSE child[n][d]
  <2>1. ChildTypes /\ i \in Cases /\ to \in Status
    BY <1>1, <1>3 DEF Types, Status, Over
  <2> QED
    BY ONLY <1>2, <1>3, <2>1, PutChild, Zenon
<1>5. CountInv'
  BY <1>1, SameCount
<1>6. Types'
  BY <1>1, <1>3, <1>4 DEF Types, Cases
<1>7. ProgressInv'
  BY <1>1, <1>4, SuiteFacts DEF ProgressInv, Cases, Children
<1>8. PassedInv'
  BY <1>1, <1>4 DEF PassedInv, AsPlanned, Cases, Children
<1>9. WaitInv'
  BY <1>1, <1>3, <1>4 DEF WaitInv, Cases, Children
<1>10. CleanInv'
  BY <1>1, <1>3, <1>4 DEF CleanInv, AsPlanned, Cases, Children, Over
<1> QED
  BY <1>5, <1>6, <1>7, <1>8, <1>9, <1>10 DEF RunnerInv

\* The last fork is done: a test polls, or ends if it has no children.
LEMMA ForkEndKeeps ==
    ASSUME RunnerInv, ForkEnd
    PROVE  RunnerInv'
<1>1. /\ Types /\ ProgressInv /\ PassedInv /\ CountInv /\ WaitInv /\ CleanInv
      /\ test = "fork" /\ runner = "wait" /\ i \in Cases /\ ended[i] = "no"
      /\ runner' = runner /\ i' = i /\ ok' = ok /\ k' = k /\ k = Suite[i]
      /\ child' = child /\ seen' = seen
  BY DEF RunnerInv, ForkEnd, ProgressInv
<1>2. ChildTypes'
  BY <1>1 DEF Types, ChildTypes, Cases, Children
<1>3. CASE Suite[i] > 0 /\ test' = "poll" /\ ended' = ended
  <2>1. CountInv'
    BY <1>1, <1>3, SameCount
  <2>2. Types' /\ ProgressInv' /\ PassedInv'
    BY <1>1, <1>2, <1>3, SuiteFacts
       DEF Types, ProgressInv, PassedInv, AsPlanned, Cases, Children
  <2>3. WaitInv' /\ CleanInv'
    BY <1>1, <1>3 DEF WaitInv, CleanInv, AsPlanned, Cases, Children
  <2> QED
    BY <2>1, <2>2, <2>3 DEF RunnerInv
<1>4. CASE Suite[i] = 0 /\ End("0")
  <2>1. /\ test' = "none" /\ ended' \in [Cases -> {"no", "0", "200", "signal"}]
        /\ ended'[i] = "0" /\ \A j \in Cases : j # i => ended'[j] = ended[j]
    BY <1>1, <1>4 DEF Types, End
  <2>2. Children(i) = {}
    BY <1>4 DEF Children
  <2>3. CountInv'
    BY <1>1, <2>1, SuiteFacts, SameCount
  <2>4. Types'
    BY <1>1, <1>2, <2>1 DEF Types, Cases
  <2>5. ProgressInv' /\ PassedInv'
    BY <1>1, <2>1, <2>2, SuiteFacts
       DEF ProgressInv, PassedInv, AsPlanned, Cases, Children
  <2>6. WaitInv' /\ CleanInv'
    BY <1>1, <2>1, <2>2 DEF WaitInv, CleanInv, AsPlanned, Cases, Children
  <2> QED
    BY <2>3, <2>4, <2>5, <2>6 DEF RunnerInv
<1> QED
  BY <1>3, <1>4 DEF ForkEnd

\* The polling loop ends: as many tasks wait as the test has children, and
\* unless a test process has failed only they can be the ones.
LEMMA PollKeeps ==
    ASSUME RunnerInv, Poll
    PROVE  RunnerInv'
<1>1. /\ Types /\ ProgressInv /\ PassedInv /\ CountInv /\ WaitInv /\ CleanInv
      /\ test = "poll" /\ test' = "release" /\ i \in Cases /\ AllWait
      /\ runner' = runner /\ i' = i /\ ok' = ok /\ k' = k /\ ended' = ended
      /\ child' = child /\ seen' = seen
  BY DEF RunnerInv, Poll, ProgressInv
<1>2. ChildTypes'
  BY <1>1 DEF Types, ChildTypes, Cases, Children
<1>3. ASSUME "parent" \notin seen
      PROVE  \A c \in Children(i) : child[i][c] = "waiting"
  <2>1. Waiters \subseteq {i} \X Children(i)
    <3> SUFFICES ASSUME NEW p \in Waiters PROVE p \in {i} \X Children(i)
      OBVIOUS
    <3>1. PICK j \in Cases : p \in {j} \X Children(j)
      BY DEF Waiters
    <3>2. p[1] = j /\ p[2] \in Children(j) /\ child[j][p[2]] = "waiting"
      BY <3>1 DEF Waiters
    <3>3. j = i
      BY <1>1, <1>3, <3>2 DEF WaitInv
    <3> QED
      BY <3>1, <3>3
  <2>2. Waiters = {i} \X Children(i)
    BY <1>1, <2>1, AllAreWaiting
  <2> TAKE c \in Children(i)
  <2>3. <<i, c>> \in Waiters
    BY <2>2
  <2> QED
    BY <2>3 DEF Waiters
<1>4. CountInv'
  BY <1>1, SameCount
<1>5. Types' /\ ProgressInv' /\ PassedInv'
  BY <1>1, <1>2 DEF Types, ProgressInv, PassedInv, AsPlanned, Cases, Children
<1>6. WaitInv'
  BY <1>1, <1>3 DEF WaitInv, Cases, Children
<1>7. CleanInv'
  BY <1>1 DEF CleanInv, AsPlanned, Cases, Children
<1> QED
  BY <1>4, <1>5, <1>6, <1>7 DEF RunnerInv

\* release_ts(): those that wait work.
LEMMA ReleaseTsKeeps ==
    ASSUME RunnerInv, ReleaseTs
    PROVE  RunnerInv'
<1>1. /\ Types /\ ProgressInv /\ PassedInv /\ CountInv /\ WaitInv /\ CleanInv
      /\ test = "release" /\ test' = "reap" /\ i \in Cases /\ k' = 0
      /\ runner' = runner /\ i' = i /\ ok' = ok /\ ended' = ended
      /\ seen' = seen /\ ended[i] = "no" /\ Suite[i] > 0
  BY DEF RunnerInv, ReleaseTs, ProgressInv
<1>2. \A n \in Cases : \A d \in Children(n) : child'[n][d] =
          IF child[n][d] = "waiting" THEN "working" ELSE child[n][d]
  BY DEF ReleaseTs
<1>3. ChildTypes'
  BY <1>1 DEF ReleaseTs, Types, ChildTypes, Status, Over, Cases, Children
<1>4. CountInv'
  BY <1>1, SameCount
<1>5. Types'
  BY <1>1, <1>3 DEF Types, Cases
<1>6. ProgressInv'
  BY <1>1, <1>2, SuiteFacts DEF ProgressInv, Cases, Children
<1>7. PassedInv'
  BY <1>1, <1>2, SuiteFacts DEF PassedInv, AsPlanned, Cases, Children
<1>8. WaitInv'
  BY <1>1, <1>2 DEF WaitInv, Cases, Children
<1>9. CleanInv'
  BY <1>1, <1>2 DEF CleanInv, AsPlanned, Cases, Children, Over
<1> QED
  BY <1>4, <1>5, <1>6, <1>7, <1>8, <1>9 DEF RunnerInv

\* waitpid() and ASSERT(): a test that has seen its last child and all the
\* others end as planned ends with 0.
LEMMA ReapKeeps ==
    ASSUME RunnerInv, Reap
    PROVE  RunnerInv'
<1> DEFINE c == IF k = 0 THEN Suite[i] ELSE k
<1>1. /\ Types /\ ProgressInv /\ PassedInv /\ CountInv /\ WaitInv /\ CleanInv
      /\ test = "reap" /\ runner = "wait" /\ i \in Cases /\ child[i][c] \in Over
      /\ runner' = runner /\ i' = i /\ ok' = ok /\ child' = child /\ seen' = seen
      /\ ended[i] = "no" /\ k \in Nat /\ k < Suite[i]
  BY DEF RunnerInv, Reap, ProgressInv, PassedInv, Types
<1>2. ChildTypes'
  BY <1>1 DEF Types, ChildTypes, Cases, Children
<1>3. Suite[i] \in Nat /\ c \in Children(i) /\ Expected(c) = AsPlanned(i, c)
  BY <1>1, SuiteFacts DEF Children, Expected, AsPlanned
<1>4. WaitInv'
  <2>1. test' \in {"reap", "none"}
    BY <1>1 DEF Reap, End
  <2> QED
    BY <1>1, <2>1 DEF WaitInv, Cases, Children
<1>5. CASE child[i][c] = Expected(c) /\ k' = k + 1 /\ k' = Suite[i] /\ End("0")
  <2>1. /\ test' = "none" /\ ended' \in [Cases -> {"no", "0", "200", "signal"}]
        /\ ended'[i] = "0" /\ \A j \in Cases : j # i => ended'[j] = ended[j]
    BY <1>1, <1>5 DEF Types, End
  <2>2. \A d \in Children(i) : child[i][d] = AsPlanned(i, d)
    <3> TAKE d \in Children(i)
    <3>1. CASE d = c
      BY <1>3, <1>5, <3>1
    <3>2. CASE d # c
      <4>1. d \in Nat /\ d >= 1 /\ d <= Suite[i]
        BY <1>3 DEF Children
      <4>2. k > 0
        BY <1>1, <1>3, <1>5, <3>2, <4>1
      <4>3. d = Suite[i] \/ d \in 1 .. k - 1
        BY <1>1, <1>3, <1>5, <3>2, <4>1, <4>2
      <4>4. child[i][Suite[i]] = "0" /\ \A e \in 1 .. k - 1 : child[i][e] = "SIGUSR2"
        BY <1>1, <4>2 DEF PassedInv
      <4>5. d \in 1 .. k - 1 => d # Suite[i]
        BY <1>1, <1>3
      <4> QED
        BY <4>3, <4>4, <4>5 DEF AsPlanned
    <3> QED
      BY <3>1, <3>2
  <2>3. CountInv'
    BY <1>1, <2>1, SuiteFacts, SameCount
  <2>4. Types'
    BY <1>1, <1>2, <1>5, <2>1 DEF Types, Cases
  <2>5. ProgressInv'
    BY <1>1, <2>1, SuiteFacts DEF ProgressInv, Cases, Children
  <2>6. PassedInv'
    BY <1>1, <2>1, <2>2 DEF PassedInv, AsPlanned, Cases, Children
  <2>7. CleanInv'
    BY <1>1, <2>1 DEF CleanInv, AsPlanned, Cases, Children
  <2> QED
    BY <1>4, <2>3, <2>4, <2>5, <2>6, <2>7 DEF RunnerInv
<1>6. CASE /\ child[i][c] = Expected(c) /\ k' = k + 1 /\ k' # Suite[i]
           /\ test' = test /\ ended' = ended
  <2>1. CountInv'
    BY <1>1, <1>6, SameCount
  <2>2. Types'
    BY <1>1, <1>2, <1>6 DEF Types, Cases
  <2>3. ProgressInv'
    BY <1>1, <1>3, <1>6 DEF ProgressInv, Cases, Children
  <2>4. child[i][Suite[i]] = "0" /\ \A d \in 1 .. k : child[i][d] = "SIGUSR2"
    <3>1. CASE k = 0
      BY <1>3, <1>6, <3>1 DEF AsPlanned
    <3>2. CASE k > 0
      <4>1. child[i][Suite[i]] = "0" /\ \A d \in 1 .. k - 1 : child[i][d] = "SIGUSR2"
        BY <1>1, <3>2 DEF PassedInv
      <4>2. child[i][k] = "SIGUSR2"
        BY <1>1, <1>3, <1>6, <3>2 DEF AsPlanned
      <4>3. \A d \in 1 .. k : d = k \/ d \in 1 .. k - 1
        BY <1>1
      <4> QED
        BY <4>1, <4>2, <4>3
    <3> QED
      BY <1>1, <3>1, <3>2
  <2>5. k' < Suite[i] /\ k' - 1 = k
    BY <1>1, <1>3, <1>6
  <2>6. PassedInv'
    BY <1>1, <1>6, <2>4, <2>5 DEF PassedInv, AsPlanned, Cases, Children
  <2>7. CleanInv'
    BY <1>1, <1>6 DEF CleanInv, AsPlanned, Cases, Children
  <2> QED
    BY <1>4, <2>1, <2>2, <2>3, <2>6, <2>7 DEF RunnerInv
<1>7. CASE child[i][c] # Expected(c) /\ End("200") /\ k' = k
  <2>1. /\ test' = "none" /\ ended' \in [Cases -> {"no", "0", "200", "signal"}]
        /\ ended'[i] = "200" /\ \A j \in Cases : j # i => ended'[j] = ended[j]
    BY <1>1, <1>7 DEF Types, End
  <2>2. seen # {}
    BY <1>1, <1>3, <1>7 DEF CleanInv
  <2>3. CountInv'
    BY <1>1, <2>1, SuiteFacts, SameCount
  <2>4. Types'
    BY <1>1, <1>2, <1>7, <2>1 DEF Types, Cases
  <2>5. ProgressInv'
    BY <1>1, <2>1, SuiteFacts DEF ProgressInv, Cases, Children
  <2>6. PassedInv'
    BY <1>1, <2>1 DEF PassedInv, AsPlanned, Cases, Children
  <2>7. CleanInv'
    BY <1>1, <2>1, <2>2 DEF CleanInv, AsPlanned, Cases, Children
  <2> QED
    BY <1>4, <2>3, <2>4, <2>5, <2>6, <2>7 DEF RunnerInv
<1> QED
  BY <1>5, <1>6, <1>7 DEF Reap

\* A child comes to wait for its release, or fails before.
LEMMA SetUpKeeps ==
    ASSUME RunnerInv, NEW j \in Cases, NEW c \in Children(j), SetUp(j, c)
    PROVE  RunnerInv'
<1>1. /\ Types /\ ProgressInv /\ PassedInv /\ CountInv /\ WaitInv /\ CleanInv
      /\ child[j][c] = "setup" /\ runner' = runner /\ i' = i /\ ok' = ok
      /\ test' = test /\ k' = k /\ ended' = ended
  BY DEF RunnerInv, SetUp
<1>2. PICK to \in {"waiting", "200"} :
          /\ child' = [child EXCEPT ![j][c] = to]
          /\ to = "200" => seen' # {}
          /\ seen \subseteq seen' /\ seen' \subseteq Faults
  BY <1>1 DEF SetUp, Move, Fault, Types
<1>3. /\ ChildTypes'
      /\ \A n \in Cases : \A d \in Children(n) :
             child'[n][d] = IF n = j /\ d = c THEN to ELSE child[n][d]
  <2>1. ChildTypes /\ to \in Status
    BY <1>1, <1>2 DEF Types, Status, Over
  <2> QED
    BY ONLY <1>2, <2>1, j \in Cases, c \in Children(j), PutChild, Zenon
<1>4. CountInv'
  BY <1>1, SameCount
<1>5. Types'
  BY <1>1, <1>2, <1>3 DEF Types, Cases
<1>6. ProgressInv'
  BY <1>1, <1>3, SuiteFacts DEF ProgressInv, Cases, Children
<1>7. PassedInv'
  <2>1. ended[j] # "0"
    BY <1>1 DEF PassedInv, AsPlanned
  <2>2. \A n \in Cases : \A d \in Children(n) :
            child[n][d] \in Over => child'[n][d] = child[n][d]
    BY <1>1, <1>3 DEF Over
  <2> QED
    BY <1>1, <2>1, <2>2, OverKept DEF Types, ProgressInv
<1>8. WaitInv'
  BY <1>1, <1>2, <1>3 DEF WaitInv, Cases, Children
<1>9. CleanInv'
  BY <1>1, <1>2, <1>3 DEF CleanInv, AsPlanned, Cases, Children, Over
<1> QED
  BY <1>4, <1>5, <1>6, <1>7, <1>8, <1>9 DEF RunnerInv

\* A child that was to be killed ends by itself.
LEMMA LowEndsKeeps ==
    ASSUME RunnerInv, NEW j \in Cases, NEW c \in Children(j), LowEnds(j, c)
    PROVE  RunnerInv'
<1>1. /\ Types /\ ProgressInv /\ PassedInv /\ CountInv /\ WaitInv /\ CleanInv
      /\ child[j][c] = "working" /\ runner' = runner /\ i' = i /\ ok' = ok
      /\ test' = test /\ k' = k /\ ended' = ended
  BY DEF RunnerInv, LowEnds
<1>2. PICK to \in {"0", "200"} : child' = [child EXCEPT ![j][c] = to]
  BY DEF LowEnds, Move
<1>3. seen' # {} /\ seen \subseteq seen' /\ seen' \subseteq Faults
  BY <1>1 DEF LowEnds, Fault, Types
<1>4. /\ ChildTypes'
      /\ \A n \in Cases : \A d \in Children(n) :
             child'[n][d] = IF n = j /\ d = c THEN to ELSE child[n][d]
  <2>1. ChildTypes /\ to \in Status
    BY <1>1, <1>2 DEF Types, Status, Over
  <2> QED
    BY ONLY <1>2, <2>1, j \in Cases, c \in Children(j), PutChild, Zenon
<1>5. CountInv'
  BY <1>1, SameCount
<1>6. Types'
  BY <1>1, <1>3, <1>4 DEF Types, Cases
<1>7. ProgressInv'
  BY <1>1, <1>4, SuiteFacts DEF ProgressInv, Cases, Children
<1>8. PassedInv'
  <2>1. \A n \in Cases : \A d \in Children(n) :
            child[n][d] \in Over => child'[n][d] = child[n][d]
    BY <1>1, <1>4 DEF Over
  <2> QED
    BY <1>1, <2>1, OverKept DEF Types, ProgressInv
<1>9. WaitInv'
  BY <1>1, <1>2, <1>3, <1>4 DEF WaitInv, Cases, Children
<1>10. CleanInv'
  BY <1>1, <1>3 DEF CleanInv, Cases, Children
<1> QED
  BY <1>5, <1>6, <1>7, <1>8, <1>9, <1>10 DEF RunnerInv

\* The last child ends, and kills the others of its test, or fails to.
LEMMA HighEndsKeeps ==
    ASSUME RunnerInv, NEW j \in Cases, NEW c \in Children(j), HighEnds(j, c)
    PROVE  RunnerInv'
<1>1. /\ Types /\ ProgressInv /\ PassedInv /\ CountInv /\ WaitInv /\ CleanInv
      /\ child[j][c] = "working" /\ c = Suite[j]
      /\ runner' = runner /\ i' = i /\ ok' = ok
      /\ test' = test /\ k' = k /\ ended' = ended
  BY DEF RunnerInv, HighEnds
<1>2. PICK status \in {"0", "200"}, kills \in BOOLEAN :
          /\ IF status = "0" THEN kills /\ UNCHANGED seen ELSE Fault("work")
          /\ child' = [child EXCEPT ![j] = [d \in Children(j) |->
                 CASE d = c -> status
                   [] d # c /\ kills /\ @[d] \notin Over -> "SIGUSR2"
                   [] OTHER -> @[d]]]
  BY DEF HighEnds
<1>3. /\ seen \subseteq seen' /\ seen' \subseteq Faults
      /\ status = "200" => seen' # {}
  BY <1>1, <1>2 DEF Fault, Types
<1>4. /\ child' = [n \in Cases |-> child'[n]]
      /\ \A n \in Cases : n # j => child'[n] = child[n]
      /\ child'[j] = [d \in Children(j) |->
             IF d = c THEN status
             ELSE IF kills /\ child[j][d] \notin Over THEN "SIGUSR2"
             ELSE child[j][d]]
  <2>1. child = [n \in Cases |-> child[n]]
    BY <1>1 DEF Types, ChildTypes
  <2> QED
    BY <1>2, <2>1
<1>5. \A n \in Cases : child[n] \in [Children(n) -> Status]
  BY <1>1 DEF Types, ChildTypes
<1>6. ChildTypes'
  <2>1. child'[j] \in [Children(j) -> Status]
    BY <1>4, <1>5 DEF Status, Over
  <2>2. \A n \in Cases : child'[n] \in [Children(n) -> Status]
    BY <1>4, <1>5, <2>1
  <2> QED
    BY <1>4, <2>2 DEF ChildTypes, Cases, Children, Status, Over
<1>7. /\ \A n \in Cases : \A d \in Children(n) :
             /\ child[n][d] \in Over => child'[n][d] = child[n][d]
             /\ child'[n][d] = child[n][d] \/ child'[n][d] \in {"0", "200", "SIGUSR2"}
             /\ n # j => child'[n][d] = child[n][d]
      /\ \A d \in Children(j) : d # c => child'[j][d] \in {child[j][d], "SIGUSR2"}
      /\ child'[j][c] = status
  BY <1>1, <1>4, <1>5 DEF Over
<1>8. CountInv'
  BY <1>1, SameCount
<1>9. Types'
  BY <1>1, <1>3, <1>6 DEF Types, Cases
<1>10. ProgressInv'
  BY <1>1, <1>7, SuiteFacts DEF ProgressInv, Cases, Children
<1>11. PassedInv'
  BY <1>1, <1>7, OverKept DEF Types, ProgressInv
<1>12. WaitInv'
  <2>1. test \in {"fork", "poll", "release"} => i \in Cases /\ j # i
    BY <1>1 DEF WaitInv, ProgressInv
  <2> QED
    BY <1>1, <1>3, <1>7, <2>1 DEF WaitInv, Cases, Children
<1>13. CleanInv'
  <2>1. \A n \in Cases : \A d \in Children(n) : child'[n][d] = "none" => seen' # {}
    BY <1>1, <1>3, <1>7 DEF CleanInv
  <2>2. ASSUME seen' = {}, NEW n \in Cases, NEW d \in Children(n), child'[n][d] \in Over
        PROVE  child'[n][d] = AsPlanned(n, d)
    <3>1. seen = {} /\ status = "0"
      BY <1>2, <1>3, <2>2
    <3>2. child[n][d] \in Over => child[n][d] = AsPlanned(n, d)
      BY <1>1, <3>1 DEF CleanInv
    <3> QED
      BY <1>1, <1>7, <2>2, <3>1, <3>2 DEF AsPlanned
  <2>3. CleanInv => (seen = {} =>
           /\ ok = i - 1
           /\ i \in Cases => ended[i] \in {"no", "0"}
           /\ runner = "done" => i = Len(Suite) + 1)
    BY DEF CleanInv
  <2> QED
    BY <1>1, <1>3, <2>1, <2>2, <2>3 DEF CleanInv, AsPlanned, Cases, Children, Over
<1> QED
  BY <1>8, <1>9, <1>10, <1>11, <1>12, <1>13 DEF RunnerInv

\* kill(-1): every process ends, the runner and its test included.  What had
\* ended before stays as it was.
LEMMA HighKillsAllKeeps ==
    ASSUME RunnerInv, NEW j \in Cases, NEW c \in Children(j), HighKillsAll(j, c)
    PROVE  RunnerInv'
<1>1. /\ Types /\ ProgressInv /\ PassedInv /\ CountInv /\ WaitInv /\ CleanInv
      /\ child[j][c] = "working" /\ i' = i /\ ok' = ok /\ k' = k
      /\ test' = "none" /\ runner' \in {"done", "killed"}
  BY DEF RunnerInv, HighKillsAll
<1>2. PICK status \in {"0", "200"} :
          /\ IF status = "0" THEN UNCHANGED seen ELSE Fault("work")
          /\ child' = [n \in Cases |-> [d \in Children(n) |->
                 CASE <<n, d>> = <<j, c>> -> status
                   [] <<n, d>> # <<j, c>>
                      /\ child[n][d] \in Over \cup {"unborn"} -> child[n][d]
                   [] OTHER -> "SIGUSR2"]]
  BY DEF HighKillsAll
<1>3. seen # {} /\ seen \subseteq seen' /\ seen' \subseteq Faults
  BY <1>1, <1>2 DEF HighKillsAll, Fault, Types, CleanInv
<1>4. \A n \in Cases : \A d \in Children(n) : child'[n][d] =
          IF n = j /\ d = c THEN status
          ELSE IF child[n][d] \in Over \cup {"unborn"} THEN child[n][d]
          ELSE "SIGUSR2"
  BY <1>2
<1>5. ChildTypes'
  <2>1. child' = [n \in Cases |-> child'[n]]
    BY <1>2
  <2>2. \A n \in Cases : child'[n] = [d \in Children(n) |-> child'[n][d]]
    BY <1>2
  <2>3. \A n \in Cases : \A d \in Children(n) : child'[n][d] \in Status
    BY <1>4 DEF Status, Over
  <2>4. \A n \in Cases : child'[n] \in [Children(n) -> Status]
    BY <2>2, <2>3
  <2> QED
    BY <2>1, <2>4 DEF ChildTypes, Cases, Children, Status, Over
<1>6. /\ ended' \in [Cases -> {"no", "0", "200", "signal"}]
      /\ \A n \in Cases :
             ended'[n] # ended[n] => n = i /\ test # "none" /\ ended'[n] = "signal"
  BY <1>1 DEF HighKillsAll, Types
<1>7. CountInv'
  BY <1>1, <1>6, SuiteFacts, SameCount
<1>8. Types'
  BY <1>1, <1>3, <1>5, <1>6 DEF Types, Cases
<1>9. ProgressInv'
  BY <1>1, <1>4, <1>6, SuiteFacts DEF ProgressInv, Cases, Children, Over
<1>10. PassedInv'
  <2>1. \A n \in Cases : \A d \in Children(n) :
            child[n][d] \in Over => child'[n][d] = child[n][d]
    BY <1>1, <1>4 DEF Over
  <2> QED
    BY <1>1, <1>6, <2>1 DEF PassedInv, AsPlanned, Cases, Children, Over
<1>11. WaitInv' /\ CleanInv'
  BY <1>1, <1>3, <1>4 DEF WaitInv, CleanInv, Cases, Children, Over
<1> QED
  BY <1>7, <1>8, <1>9, <1>10, <1>11 DEF RunnerInv

\* Every step keeps the invariant.
LEMMA NextRunnerInv == RunnerInv /\ [Next]_vars => RunnerInv'
<1> SUFFICES ASSUME RunnerInv, [Next]_vars PROVE RunnerInv'
  OBVIOUS
<1>1. CASE Runner
  BY <1>1, RunTestKeeps, WaitedKeeps, FinishKeeps DEF Runner
<1>2. CASE Test
  BY <1>2, ForkTaskKeeps, ForkEndKeeps, PollKeeps, ReleaseTsKeeps, ReapKeeps DEF Test
<1>3. CASE TestFails
  BY <1>3, TestFailsKeeps
<1>4. CASE \E j \in Cases : \E c \in Children(j) : Task(j, c) \/ LowEnds(j, c)
  BY <1>4, SetUpKeeps, LowEndsKeeps, HighEndsKeeps, HighKillsAllKeeps DEF Task
<1>5. CASE UNCHANGED vars
  <2>1. /\ runner' = runner /\ i' = i /\ ok' = ok /\ test' = test /\ k' = k
        /\ ended' = ended /\ child' = child /\ seen' = seen
    BY <1>5 DEF vars
  <2>2. CountInv'
    BY <2>1, SameCount DEF RunnerInv
  <2>3. Types' /\ ProgressInv'
    BY <2>1 DEF RunnerInv, Types, ChildTypes, ProgressInv, Cases, Children, Status, Over
  <2>4. PassedInv' /\ WaitInv'
    BY <2>1 DEF RunnerInv, PassedInv, WaitInv, AsPlanned, Cases, Children
  <2>5. CleanInv'
    BY <2>1 DEF RunnerInv, CleanInv, AsPlanned, Cases, Children, Over
  <2> QED
    BY <2>2, <2>3, <2>4, <2>5 DEF RunnerInv
<1> QED
  BY <1>1, <1>2, <1>3, <1>4, <1>5 DEF Next

\* The inductive invariant holds in every run of the test program.
THEOREM RunnerInvariant == Spec => []RunnerInv
<1> QED
  BY InitRunnerInv, NextRunnerInv, PTL DEF Spec

\* The variables have their types: the runner never counts more tests than the
\* suite has, and a test never more children than it forks.
THEOREM RunnerTypeOK == Spec => []TypeOK
<1>1. RunnerInv => TypeOK
  <2> SUFFICES ASSUME RunnerInv PROVE TypeOK
    OBVIOUS
  <2>1. Types /\ ProgressInv /\ CountInv
    BY DEF RunnerInv
  <2>2. ok \in 0 .. Len(Suite)
    BY <2>1, PassedFinite, SuiteFacts DEF Types, CountInv
  <2>3. \A j \in Cases : child[j] \in
            [Children(j) -> Over \cup {"unborn", "setup", "waiting", "working"}]
    BY <2>1 DEF Types, ChildTypes, Status
  <2> QED
    BY <2>1, <2>2, <2>3 DEF Types, ProgressInv, TypeOK
<1> QED
  BY <1>1, RunnerInvariant, PTL

\* "** Result: %d ok" in main(): every test the runner has counted ended with 0
\* and all its children as the test asserts, whatever failed elsewhere.
THEOREM OkMeansPassedHolds == Spec => []OkMeansPassed
<1>1. RunnerInv => OkMeansPassed
  <2> SUFFICES ASSUME RunnerInv PROVE OkMeansPassed
    OBVIOUS
  <2> DEFINE P == {j \in Cases : AsAsserted(j)}
  <2>1. PassedInv /\ CountInv /\ ok \in Nat
    BY DEF RunnerInv, Types
  <2>2. Passed \in SUBSET P
    BY <2>1 DEF Passed, PassedInv, AsAsserted, AsPlanned
  <2>3. IsFiniteSet(P)
    <3>1. IsFiniteSet(Cases)
      BY SuiteFacts, IntervalSize DEF Cases
    <3> QED
      BY <3>1, FS_Subset
  <2>4. Cardinality(Passed) <= Cardinality(P) /\ Cardinality(P) \in Nat
    BY <2>2, <2>3, FS_Subset, FS_CardinalityType
  <2> QED
    BY <2>1, <2>4, PassedFinite DEF CountInv, OkMeansPassed
<1> QED
  BY <1>1, RunnerInvariant, PTL

\* The polling loops of sched.c and pcp.c: unless a test process failed, the
\* tasks a test releases are its own children, all of them.
THEOREM OwnWaitersHolds == Spec => []OwnWaiters
<1>1. RunnerInv => OwnWaiters
  <2> SUFFICES ASSUME RunnerInv, test = "release", "parent" \notin seen
               PROVE  Waiters = {i} \X Children(i)
    BY DEF OwnWaiters
  <2>1. /\ i \in Cases /\ \A c \in Children(i) : child[i][c] = "waiting"
        /\ \A j \in Cases : \A c \in Children(j) :
               child[j][c] = "waiting" => j = i
    BY DEF RunnerInv, ProgressInv, WaitInv
  <2>2. ASSUME NEW p \in Waiters PROVE p \in {i} \X Children(i)
    <3>1. PICK j \in Cases : p \in {j} \X Children(j)
      BY DEF Waiters
    <3>2. p[1] = j /\ p[2] \in Children(j) /\ child[j][p[2]] = "waiting"
      BY <3>1 DEF Waiters
    <3>3. j = i
      BY <2>1, <3>2
    <3> QED
      BY <3>1, <3>3
  <2>3. ASSUME NEW p \in {i} \X Children(i) PROVE p \in Waiters
    <3>1. p \in UNION {{j} \X Children(j) : j \in Cases}
      BY <2>1
    <3>2. p[1] = i /\ p[2] \in Children(i)
      OBVIOUS
    <3> QED
      BY <2>1, <3>1, <3>2 DEF Waiters
  <2> QED
    BY <2>2, <2>3
<1> QED
  BY <1>1, RunnerInvariant, PTL

\* If nothing goes wrong, main() has counted every test when it returns.
THEOREM AllOkHolds == Spec => []AllOk
<1>1. RunnerInv => AllOk
  BY SuiteFacts DEF RunnerInv, CleanInv, AllOk
<1> QED
  BY <1>1, RunnerInvariant, PTL
===============================================================================
