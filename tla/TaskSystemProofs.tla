-------------------------- MODULE TaskSystemProofs --------------------------
(***************************************************************************)
(* Proofs about TaskSystem, for any finite set of tasks, any mixture of    *)
(* their options and any failures.                                         *)
(***************************************************************************)
EXTENDS TaskSystem, FiniteSetTheorems, TLAPS

\* Counting suffices: a part with as many elements as the whole is the whole.
LEMMA FullSubset ==
    ASSUME NEW T, IsFiniteSet(T), NEW S \in SUBSET T,
           Cardinality(S) >= Cardinality(T)
    PROVE  S = T
<1>1. /\ IsFiniteSet(S) /\ Cardinality(S) <= Cardinality(T)
      /\ Cardinality(S) = Cardinality(T) => S = T
  BY FS_Subset
<1>2. Cardinality(S) \in Nat /\ Cardinality(T) \in Nat
  BY <1>1, FS_CardinalityType
<1> QED
  BY <1>1, <1>2

\* Every subset of the tasks is finite and has a size.
LEMMA SubsetSize ==
    ASSUME NEW S \in SUBSET Tasks
    PROVE  IsFiniteSet(S) /\ Cardinality(S) \in Nat
  BY FS_Subset, FS_CardinalityType, TasksFinite

\* The initial state satisfies the inductive invariant.
LEMMA InitTSInv == Init => TSInv
  BY TaskSets, OptionsTyped
     DEF Init, TSInv, TypeOK, ReadyInv, ReleasedInv, PCs, Setup, ForAll, Informed

\* A step of a task keeps the invariant: a task that waits stays put until it
\* is released or killed.
LEMMA TaskTSInv ==
    ASSUME NEW t \in Tasks, TSInv, Task(t) \/ Kill(t)
    PROVE  TSInv'
<1> USE TaskSets, OptionsTyped DEF TSInv, TypeOK, ReadyInv, ReleasedInv, PCs,
                                   Setup, ForAll, Informed, Goto, Exit, Fail, Step
<1>1. CASE Migrate(t)
  BY <1>1 DEF Migrate
<1>2. CASE SetParams(t)
  BY <1>2 DEF SetParams
<1>3. CASE BecomeRT(t)
  BY <1>3 DEF BecomeRT
<1>4. CASE OpenLock(t)
  BY <1>4 DEF OpenLock
<1>5. CASE WaitForRelease(t)
  BY <1>5 DEF WaitForRelease
<1>6. CASE RunJobs(t)
  BY <1>6 DEF RunJobs
<1>7. CASE LeaveRT(t)
  BY <1>7 DEF LeaveRT
<1>8. CASE Exec(t)
  BY <1>8 DEF Exec
<1>9. CASE Kill(t)
  BY <1>9 DEF Kill
<1> QED
  BY <1>1, <1>2, <1>3, <1>4, <1>5, <1>6, <1>7, <1>8, <1>9 DEF Task

\* When wait_until_ready() stops on counters it has read, the tasks it waits
\* for are all suspended in wait_for_ts_release().
LEMMA PollTSInv ==
    ASSUME TSInv, PollStats
    PROVE  TSInv'
<1>1. /\ rel.pc = "poll" /\ seen' = rt /\ UNCHANGED <<pc, rt, opts, released>>
      /\ rel'.pc = IF KeepWaiting(Cardinality(Waiting), Cardinality(rt))
                     THEN "poll" ELSE "release"
      /\ rel'.ready = Cardinality(Waiting) /\ rel'.all = Cardinality(rt)
      /\ rel' \in [pc : {"poll", "release"},
                   ready : {Cardinality(Waiting)}, all : {Cardinality(rt)}]
  BY DEF PollStats, Polled
<1>2. Waiting \subseteq Waiters /\ Waiting \subseteq rt /\ rt \subseteq Tasks
  BY DEF TSInv, TypeOK, ReadyInv, Waiting
<1>t. opts.expected \in Nat
  BY OptionsTyped DEF TSInv, TypeOK
<1>3. /\ Cardinality(Waiting) \in Nat /\ Cardinality(rt) \in Nat
      /\ Cardinality(Waiters) \in Nat /\ IsFiniteSet(rt) /\ IsFiniteSet(Waiters)
  BY <1>2, SubsetSize, TaskSets
<1>4. ASSUME ForAll, rel'.pc = "release" PROVE Waiting = Waiters
  BY <1>1, <1>2, <1>3, <1>4, <1>t, FullSubset DEF KeepWaiting, ForAll
<1>5. ASSUME opts.expected = 0, rel'.pc = "release" PROVE Waiting = rt
  BY <1>1, <1>2, <1>3, <1>5, FullSubset DEF KeepWaiting
<1>6. TypeOK'
  BY <1>1, <1>3 DEF TSInv, TypeOK
<1>7. ReadyInv'
  <2>1. ForAll /\ rel'.pc = "poll" => rel'.ready < opts.expected
    BY <1>1, <1>3, <1>t DEF ForAll, KeepWaiting
  <2>2. ForAll /\ rel'.pc = "release" =>
            \A t \in Waiters : pc[t] \in {"waiting", "failed"}
    BY <1>4 DEF Waiting
  <2>3. (opts.expected > 0 => ForAll) /\ rel'.pc = "release" =>
            \A t \in rt \cap Waiters : pc[t] \in {"waiting", "failed"}
    BY <1>4, <1>5, <1>t DEF Waiting
  <2> QED
    BY <1>1, <2>1, <2>2, <2>3 DEF TSInv, ReadyInv, ForAll, Informed
<1>8. ReleasedInv'
  BY <1>1 DEF TSInv, ReleasedInv
<1> QED
  BY <1>6, <1>7, <1>8 DEF TSInv

\* The other steps of release_ts keep the invariant, a failed read of the
\* statistics included.
LEMMA ReleaserTSInv ==
    ASSUME TSInv, Releaser
    PROVE  TSInv'
<1> USE TaskSets, OptionsTyped
<1>1. CASE ReleaseStart
  BY <1>1 DEF ReleaseStart, TSInv, TypeOK, ReadyInv, ReleasedInv, ForAll,
              Informed
<1>2. CASE PollStats
  BY <1>2, PollTSInv
<1>3. CASE PollFails
  BY <1>3 DEF PollFails, Polled, KeepWaiting, TSInv, TypeOK, ReadyInv,
              ReleasedInv, ForAll, Informed
<1>4. CASE ReleaseTs
  BY <1>4 DEF ReleaseTs, Waiting, TSInv, TypeOK, PCs, Setup, ReadyInv,
              ReleasedInv, ForAll, Informed
<1>5. CASE ReleaseFails
  BY <1>5 DEF ReleaseFails, TSInv, TypeOK, ReadyInv, ReleasedInv, ForAll,
              Informed
<1> QED
  BY <1>1, <1>2, <1>3, <1>4, <1>5 DEF Releaser

\* The inductive invariant holds in every reachable state.
THEOREM TaskSystemInvariant == Spec => []TSInv
<1>1. TSInv /\ UNCHANGED vars => TSInv'
  BY DEF vars, TSInv, TypeOK, ReadyInv, ReleasedInv, ForAll, Informed
<1>2. TSInv /\ [Next]_vars => TSInv'
  BY <1>1, TaskTSInv, ReleaserTSInv DEF Next
<1> QED
  BY <1>2, InitTSInv, PTL DEF Spec

\* release_ts -f with at least as many tasks as wait is a barrier: no task
\* passes the release while another is in its setup.
THEOREM CommonReleaseHolds == Spec => []CommonRelease
<1>1. TSInv => CommonRelease
  BY DEF TSInv, ReleasedInv, CommonRelease
<1> QED
  BY <1>1, TaskSystemInvariant, PTL

\* release_ts that can read the statistics releases every task that was a
\* real-time task when it stopped waiting, killed ones apart.
THEOREM AllTasksReadyHolds == Spec => []AllTasksReady
<1>1. TSInv => AllTasksReady
  BY DEF TSInv, ReleasedInv, AllTasksReady
<1> QED
  BY <1>1, TaskSystemInvariant, PTL
===============================================================================
