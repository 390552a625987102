-------------------------- MODULE RtspinJobsProofs --------------------------
(***************************************************************************)
(* Proofs about the jobs of RtspinJobs, for any tasks, times, failing lock *)
(* calls and schedules: the lock they share, how long loops and jobs take, *)
(* and that a task whose jobs keep up executes every record of its file.   *)
(***************************************************************************)
EXTENDS RtspinJobs, FiniteSetTheorems, WellFoundedInduction, TLAPS

LockTypes ==
    /\ pc \in [Tasks -> PCs]
    /\ owner \in Tasks \cup {None}
    /\ queue \in Seq(Tasks)

\* The lock's owner is about to enter its critical section, in it or about to
\* leave it, and knows that it has the lock.
OwnerInv ==
    owner # None => pc[owner] \in {"blocked", "cs", "unlock"} /\ owner \notin denied

\* A task that believes to have the lock has it.
InsideInv == \A t \in Tasks : pc[t] = "cs" /\ t \notin denied => owner = t

\* The tasks in line wait, their calls have not failed, and each of them is in
\* line once.
QueueInv ==
    /\ \A i \in DOMAIN queue :
           /\ pc[queue[i]] = "blocked"
           /\ queue[i] # owner /\ queue[i] \notin denied
    /\ \A i, j \in DOMAIN queue : queue[i] = queue[j] => i = j

\* The inductive invariant.
LockInv == LockTypes /\ OwnerInv /\ InsideInv /\ QueueInv

\* The initial state satisfies the inductive invariant.
LEMMA InitLockInv == Init => LockInv
  BY TaskSets
     DEF Init, LockInv, LockTypes, OwnerInv, InsideInv, QueueInv, PCs, Blocked,
         Loops

\* The critical section is never empty: litmus_lock() is followed by its loop.
LEMMA CsBegins ==
    ASSUME NEW t \in Tasks, LoopFor(t, "cs", CsLength)
    PROVE  Goto(t, "cs")
  BY TimesTyped DEF LoopFor

\* A step of a task that neither has the lock nor asks for it, to a place
\* where it needs none, keeps the invariant.
LEMMA ElsewhereLockInv ==
    ASSUME LockInv, NEW t \in Tasks, NEW label \in PCs \ {"cs", "blocked"},
           pc[t] \notin {"blocked", "cs", "unlock"}, Goto(t, label),
           UNCHANGED <<owner, queue, denied>>
    PROVE  LockInv'
<1> USE DEF LockInv, LockTypes, Goto
<1>1. LockTypes'
  OBVIOUS
<1>2. OwnerInv' /\ InsideInv' /\ QueueInv'
  BY DEF OwnerInv, InsideInv, QueueInv
<1> QED
  BY <1>1, <1>2

\* litmus_lock() succeeds, blocks or fails; only a task that has the lock
\* enters the critical section believing so.
LEMMA LockLockInv ==
    ASSUME LockInv, NEW t \in Tasks, Lock(t)
    PROVE  LockInv'
<1> USE DEF LockInv, LockTypes, Goto, PCs, Blocked, Loops
<1>1. CASE /\ denied' = denied \cup {t} /\ LoopFor(t, "cs", CsLength)
           /\ UNCHANGED <<owner, queue>>
  BY <1>1, CsBegins DEF Lock, OwnerInv, InsideInv, QueueInv
<1>2. CASE /\ owner = None /\ owner' = t /\ denied' = denied \ {t}
           /\ LoopFor(t, "cs", CsLength) /\ UNCHANGED queue
  BY <1>2, CsBegins, TaskSets DEF Lock, OwnerInv, InsideInv, QueueInv
<1>3. CASE /\ owner # None /\ queue' = Append(queue, t)
           /\ denied' = denied \ {t} /\ Goto(t, "blocked") /\ owner' = owner
  <2>1. pc[t] = "lock" /\ t # owner /\ \A i \in DOMAIN queue : queue[i] # t
    BY <1>3 DEF Lock, OwnerInv, QueueInv
  <2>2. LockTypes' /\ OwnerInv' /\ InsideInv'
    BY <1>3, <2>1 DEF OwnerInv, InsideInv
  <2>3. QueueInv'
    BY <1>3, <2>1 DEF QueueInv
  <2> QED
    BY <2>2, <2>3
<1> QED
  BY <1>1, <1>2, <1>3 DEF Lock

\* litmus_unlock() hands the lock to the first in line, and does nothing for a
\* task that does not have it.
LEMMA UnlockLockInv ==
    ASSUME LockInv, NEW t \in Tasks, Unlock(t)
    PROVE  LockInv'
<1> USE DEF LockInv, LockTypes, PCs, Blocked, Loops
<1>1. pc[t] = "unlock" /\ denied' = denied
  BY DEF Unlock
<1>2. PICK label \in {"chunk2", "sleep"} : pc' = [pc EXCEPT ![t] = label]
  BY DEF Unlock, LoopFor, After, Goto
<1>3. CASE owner # t /\ owner' = owner /\ queue' = queue
  BY <1>1, <1>2, <1>3 DEF OwnerInv, InsideInv, QueueInv
<1>4. CASE owner = t /\ queue = <<>> /\ owner' = None /\ queue' = <<>>
  BY <1>1, <1>2, <1>4 DEF OwnerInv, InsideInv, QueueInv
<1>5. CASE owner = t /\ queue # <<>> /\ owner' = Head(queue) /\ queue' = Tail(queue)
  <2>1. /\ 1 \in DOMAIN queue /\ Head(queue) = queue[1] /\ queue[1] \in Tasks
        /\ Tail(queue) \in Seq(Tasks)
        /\ \A i \in DOMAIN Tail(queue) :
               i + 1 \in DOMAIN queue /\ i + 1 # 1 /\ Tail(queue)[i] = queue[i + 1]
        /\ \A i, j \in DOMAIN Tail(queue) : i + 1 = j + 1 => i = j
    BY <1>5
  <2>2. pc[queue[1]] = "blocked" /\ queue[1] # t /\ queue[1] \notin denied
    BY <1>1, <2>1 DEF QueueInv
  <2>3. LockTypes'
    BY <1>2, <1>5, <2>1
  <2>4. OwnerInv'
    BY <1>1, <1>2, <1>5, <2>1, <2>2 DEF OwnerInv
  <2>5. InsideInv'
    BY <1>1, <1>2, <1>5, <2>1, <2>2 DEF InsideInv
  <2>6. QueueInv'
    BY <1>1, <1>2, <1>5, <2>1, <2>2 DEF QueueInv
  <2> QED
    BY <2>3, <2>4, <2>5, <2>6
<1> QED
  BY <1>3, <1>4, <1>5 DEF Unlock, PassOn

\* The end of an iteration: from the critical section the only way leads to
\* litmus_unlock(), emergency exits included.
LEMMA LoopEndLockInv ==
    ASSUME LockInv, NEW t \in Tasks, LoopEnd(t)
    PROVE  LockInv'
<1> USE DEF LockInv, LockTypes, PCs, Blocked, Loops
<1>1. UNCHANGED <<owner, queue, denied>> /\ pc[t] \in Loops
  BY DEF LoopEnd, EndIteration
<1>2. pc' = pc \/ pc' = [pc EXCEPT ![t] = After[pc[t]]]
  BY DEF LoopEnd, EndIteration, Goto
<1>3. CASE pc' = pc
  BY <1>1, <1>3 DEF OwnerInv, InsideInv, QueueInv
<1>4. CASE pc[t] = "cs" /\ pc' = [pc EXCEPT ![t] = "unlock"]
  BY <1>1, <1>4 DEF OwnerInv, InsideInv, QueueInv
<1>5. CASE pc[t] # "cs" /\ \E label \in {"sleep", "lock"} : Goto(t, label)
  BY <1>1, <1>5, ElsewhereLockInv
<1> QED
  BY <1>1, <1>2, <1>3, <1>4, <1>5 DEF After, Goto

\* Every step of a task keeps the invariant.
LEMMA TaskLockInv ==
    ASSUME LockInv, NEW t \in Tasks, Task(t)
    PROVE  LockInv'
<1> USE DEF PCs, Blocked, Loops
<1>1. CASE OpenLock(t)
  BY <1>1, ElsewhereLockInv DEF OpenLock
<1>2. CASE StartJob(t)
  <2>1. \E label \in {"chunk1", "lock", "spin", "sleep"} : Goto(t, label)
    BY <1>2 DEF StartJob, LoopFor, After
  <2> QED
    BY <1>2, <2>1, ElsewhereLockInv DEF StartJob
<1>3. CASE SkipJob(t)
  <2>1. CASE Goto(t, "done")
    BY <1>3, <2>1, ElsewhereLockInv DEF SkipJob
  <2>2. CASE pc' = pc
    BY <1>3, <2>2 DEF SkipJob, LockInv, LockTypes, OwnerInv, InsideInv, QueueInv
  <2> QED
    BY <1>3, <2>1, <2>2 DEF SkipJob
<1>4. CASE Finish(t)
  BY <1>4, ElsewhereLockInv DEF Finish
<1>5. CASE LoopEnd(t)
  BY <1>5, LoopEndLockInv
<1>6. CASE Lock(t)
  BY <1>6, LockLockInv
<1>7. CASE Granted(t)
  BY <1>7, CsBegins
     DEF Granted, Goto, LockInv, LockTypes, OwnerInv, InsideInv, QueueInv
<1>8. CASE Unlock(t)
  BY <1>8, UnlockLockInv
<1>9. CASE SleepNextPeriod(t)
  BY <1>9, ElsewhereLockInv DEF SleepNextPeriod
<1>10. CASE Release(t)
  BY <1>10, ElsewhereLockInv DEF Release
<1> QED
  BY <1>1, <1>2, <1>3, <1>4, <1>5, <1>6, <1>7, <1>8, <1>9, <1>10 DEF Task

\* Every step keeps the invariant; time does not touch it.
LEMMA NextLockInv == LockInv /\ [Next]_vars => LockInv'
<1> SUFFICES ASSUME LockInv, [Next]_vars PROVE LockInv'
  OBVIOUS
<1>1. CASE UNCHANGED vars \/ \E S \in SUBSET Tasks : Tick(S)
  BY <1>1 DEF vars, Tick, LockInv, LockTypes, OwnerInv, InsideInv, QueueInv
<1> QED
  BY <1>1, TaskLockInv DEF Next

\* The lock's invariant, for any tasks and schedules.
THEOREM LockInvariant == Spec => []LockInv
  BY InitLockInv, NextLockInv, PTL DEF Spec

\* No two jobs whose lock calls succeeded are in the critical section together.
THEOREM ExclusiveHolds == Spec => []Exclusive
<1>1. ASSUME LockInv PROVE Exclusive
  <2> DEFINE Inside == {t \in Tasks : pc[t] = "cs"} \ denied
  <2>1. Inside \subseteq {owner}
    BY <1>1 DEF LockInv, InsideInv
  <2>2. IsFiniteSet({owner}) /\ Cardinality({owner}) = 1
    BY FS_Singleton
  <2>3. Cardinality(Inside) <= 1
    BY <2>1, <2>2, FS_Subset
  <2> QED
    BY <2>1, <2>3 DEF Exclusive
<1>2. LockInv => Exclusive
  BY <1>1
<1> QED
  BY <1>2, LockInvariant, PTL

\* Every way out of job() gives the lock back.
THEOREM LockReturnedHolds == Spec => []LockReturned
<1>1. LockInv => LockReturned
  BY DEF LockInv, OwnerInv, QueueInv, LockReturned
<1> QED
  BY <1>1, LockInvariant, PTL

-------------------------------------------------------------------------------
(* Induction, and what a fold that adds computes *)

\* A nonempty set of natural numbers has a smallest element.
LEMMA LeastElement ==
    ASSUME NEW S \in SUBSET Nat, S # {}
    PROVE  \E x \in S : \A y \in S : x <= y
<1>1. PICK x \in S : \A y \in S : ~(<<y, x>> \in OpToRel(<, Nat))
  BY WFMin, NatLessThanWellFounded
<1>2. \A y \in S : x <= y
  <2> TAKE y \in S
  <2>1. x \in Nat /\ y \in Nat
    OBVIOUS
  <2>2. ~(y < x)
    BY <1>1, <2>1 DEF OpToRel
  <2> QED
    BY <2>1, <2>2
<1> QED
  BY <1>2

\* Induction over the natural numbers, for the set of those that satisfy a
\* property.
LEMMA InductionSet ==
    ASSUME NEW A, 0 \in A, \A n \in Nat : n \in A => n + 1 \in A
    PROVE  Nat \subseteq A
<1> SUFFICES ASSUME Nat \ A # {} PROVE FALSE
  OBVIOUS
<1>1. PICK m \in Nat \ A : \A n \in Nat \ A : m <= n
  BY LeastElement
<1>2. m - 1 \in Nat
  BY <1>1
<1>3. m - 1 \in A
  BY <1>1, <1>2
<1>4. (m - 1) + 1 \in A
  BY <1>2, <1>3
<1> QED
  BY <1>1, <1>4

\* One addend of a sum is singled out, and the rest is summed by g.
Pick(s)          == CHOOSE x \in s : TRUE
SumStep(f, g, s) == IF s = {} THEN 0 ELSE f[Pick(s)] + g[s \ {Pick(s)}]

\* PartSums(f, S)[s]: the sum of f over a part s of S.
PartSums(f, S) == CHOOSE g : g = [s \in SUBSET S |-> SumStep(f, g, s)]

\* FoldFunction() with + and 0 is that sum over the whole domain.
LEMMA FoldIsSum ==
    ASSUME NEW f
    PROVE  FoldFunction(+, 0, f) = PartSums(f, DOMAIN f)[DOMAIN f]
  BY DEF FoldFunction, FoldFunctionOnSet, MapThenFoldSet, Pick, SumStep, PartSums

\* A set with an element less has an element less to count.
LEMMA PickSmaller ==
    ASSUME NEW s, IsFiniteSet(s), s # {}
    PROVE  /\ Pick(s) \in s /\ IsFiniteSet(s \ {Pick(s)})
           /\ Cardinality(s) \in Nat /\ Cardinality(s) > 0
           /\ Cardinality(s \ {Pick(s)}) = Cardinality(s) - 1
<1>1. Pick(s) \in s
  BY DEF Pick
<1>2. Cardinality(s) \in Nat /\ Cardinality(s) # 0
  BY FS_CardinalityType, FS_EmptySet
<1> QED
  BY <1>1, <1>2, FS_RemoveElement

\* The sums over the parts of a finite set exist: those over parts with n
\* elements give those over parts with n + 1.
LEMMA SumsExist ==
    ASSUME NEW S, IsFiniteSet(S), NEW f \in [S -> Nat]
    PROVE  \E g \in [SUBSET S -> Nat] :
               \A s \in SUBSET S : g[s] = SumStep(f, g, s)
<1> DEFINE Small(n) == {s \in SUBSET S : Cardinality(s) <= n}
           Sums(n)  == {g \in [Small(n) -> Nat] :
                            \A s \in Small(n) : g[s] = SumStep(f, g, s)}
           Good     == {n \in Nat : Sums(n) # {}}
<1>1. \A s \in SUBSET S : IsFiniteSet(s) /\ Cardinality(s) \in Nat
  BY FS_Subset, FS_CardinalityType
<1>2. Sums(0) # {}
  <2> DEFINE g == [s \in Small(0) |-> 0]
  <2>1. \A s \in Small(0) : s = {}
    <3> TAKE s \in Small(0)
    <3>1. Cardinality(s) = 0 /\ IsFiniteSet(s)
      BY <1>1
    <3> QED
      BY <3>1, FS_EmptySet
  <2>2. g \in Sums(0)
    BY <2>1 DEF SumStep
  <2> QED
    BY <2>2
<1>3. ASSUME NEW n \in Nat, Sums(n) # {} PROVE Sums(n + 1) # {}
  <2>1. PICK g \in [Small(n) -> Nat] : \A s \in Small(n) : g[s] = SumStep(f, g, s)
    BY <1>3
  <2> DEFINE h == [s \in Small(n + 1) |-> SumStep(f, g, s)]
  <2>2. ASSUME NEW s \in Small(n + 1), s # {}
        PROVE  /\ Pick(s) \in S /\ s \ {Pick(s)} \in Small(n)
               /\ s \ {Pick(s)} \in Small(n + 1)
    <3>1. /\ Pick(s) \in s /\ Cardinality(s) \in Nat
          /\ Cardinality(s \ {Pick(s)}) = Cardinality(s) - 1
      BY <1>1, <2>2, PickSmaller
    <3> QED
      BY <3>1
  <2>3. \A s \in Small(n + 1) : SumStep(f, g, s) \in Nat
    BY <2>1, <2>2 DEF SumStep
  <2>4. h \in [Small(n + 1) -> Nat]
    BY <2>3
  <2>5. \A s \in Small(n) : s \in Small(n + 1) /\ h[s] = g[s]
    <3>1. \A s \in Small(n) : s \in Small(n + 1)
      BY <1>1
    <3> QED
      BY <2>1, <3>1
  <2>6. \A s \in Small(n + 1) : SumStep(f, g, s) = SumStep(f, h, s)
    BY <2>2, <2>5 DEF SumStep
  <2>7. h \in Sums(n + 1)
    BY <2>4, <2>6
  <2> QED
    BY <2>7
<1>4. Nat \subseteq Good
  <2>1. 0 \in Good
    BY <1>2
  <2> HIDE DEF Sums
  <2>2. \A n \in Nat : n \in Good => n + 1 \in Good
    BY <1>3
  <2> HIDE DEF Good
  <2> QED
    BY <2>1, <2>2, InductionSet
<1>5. Small(Cardinality(S)) = SUBSET S
  BY FS_Subset
<1>6. PICK g : g \in Sums(Cardinality(S))
  <2>1. Cardinality(S) \in Nat
    BY FS_CardinalityType
  <2> QED
    BY <1>4, <2>1
<1>7. g \in [SUBSET S -> Nat] /\ \A s \in SUBSET S : g[s] = SumStep(f, g, s)
  BY <1>5, <1>6
<1> QED
  BY <1>7

\* What the sums over the parts of a finite set are: natural numbers, of which
\* any addend can be split off.
LEMMA PartSumsFacts ==
    ASSUME NEW S, IsFiniteSet(S), NEW f \in [S -> Nat]
    PROVE  /\ PartSums(f, S) \in [SUBSET S -> Nat]
           /\ PartSums(f, S)[{}] = 0
           /\ \A T \in SUBSET S : \A x \in T :
                  PartSums(f, S)[T] = f[x] + PartSums(f, S)[T \ {x}]
<1> DEFINE g == PartSums(f, S)
           Eq(h) == h = [s \in SUBSET S |-> SumStep(f, h, s)]
<1>1. Eq(g)
  <2>1. \E h : Eq(h)
    <3>1. PICK h \in [SUBSET S -> Nat] :
              \A s \in SUBSET S : h[s] = SumStep(f, h, s)
      BY SumsExist, Zenon
    <3> QED
      BY <3>1
  <2>2. g = CHOOSE h : Eq(h)
    BY DEF PartSums
  <2> HIDE DEF Eq, g
  <2> QED
    BY <2>1, <2>2
<1>2. \A T \in SUBSET S : g[T] = SumStep(f, g, T)
  BY <1>1
<1>3. g[{}] = 0
  BY <1>2 DEF SumStep
<1>4. \A T \in SUBSET S : IsFiniteSet(T) /\ Cardinality(T) \in Nat
  BY FS_Subset, FS_CardinalityType
<1>5. ASSUME NEW T \in SUBSET S, T # {}
      PROVE  /\ Pick(T) \in T /\ Cardinality(T \ {Pick(T)}) = Cardinality(T) - 1
             /\ g[T] = f[Pick(T)] + g[T \ {Pick(T)}]
  BY <1>2, <1>4, <1>5, PickSmaller DEF SumStep
<1> HIDE DEF g
<1> DEFINE Num  == {n \in Nat : \A T \in SUBSET S :
                        Cardinality(T) = n => g[T] \in Nat}
           Free == {n \in Nat : \A T \in SUBSET S : Cardinality(T) = n =>
                        \A x \in T : g[T] = f[x] + g[T \ {x}]}
<1>6. Nat \subseteq Num
  <2>1. 0 \in Num
    BY <1>3, <1>4, FS_EmptySet
  <2>2. ASSUME NEW n \in Nat, n \in Num PROVE n + 1 \in Num
    <3> SUFFICES ASSUME NEW T \in SUBSET S, Cardinality(T) = n + 1
                 PROVE  g[T] \in Nat
      OBVIOUS
    <3>1. T # {}
      BY FS_EmptySet
    <3>2. g[T \ {Pick(T)}] \in Nat /\ Pick(T) \in S
      BY <1>5, <2>2, <3>1
    <3> QED
      BY <1>5, <3>1, <3>2
  <2> HIDE DEF Num
  <2> QED
    BY <2>1, <2>2, InductionSet
<1>7. \A T \in SUBSET S : g[T] \in Nat
  BY <1>4, <1>6
<1>8. Nat \subseteq Free
  <2>1. 0 \in Free
    BY <1>4, FS_EmptySet
  <2>2. ASSUME NEW n \in Nat, n \in Free PROVE n + 1 \in Free
    <3> SUFFICES ASSUME NEW T \in SUBSET S, Cardinality(T) = n + 1, NEW x \in T
                 PROVE  g[T] = f[x] + g[T \ {x}]
      OBVIOUS
    <3> DEFINE y == Pick(T)
    <3>1. y \in T /\ Cardinality(T \ {y}) = n /\ g[T] = f[y] + g[T \ {y}]
      <4>1. T # {}
        OBVIOUS
      <4>2. /\ y \in T /\ Cardinality(T \ {y}) = (n + 1) - 1
            /\ g[T] = f[y] + g[T \ {y}]
        BY <1>5, <4>1
      <4> QED
        BY <4>2
    <3>2. Cardinality(T \ {x}) = n
      <4>1. IsFiniteSet(T)
        BY <1>4
      <4>2. Cardinality(T \ {x}) = (n + 1) - 1
        BY <4>1, FS_RemoveElement
      <4> QED
        BY <4>2
    <3> HIDE DEF y
    <3>3. CASE x = y
      BY <3>1, <3>3
    <3>4. CASE x # y
      <4>1. g[T \ {y}] = f[x] + g[(T \ {y}) \ {x}]
        BY <2>2, <3>1, <3>4
      <4>2. g[T \ {x}] = f[y] + g[(T \ {x}) \ {y}]
        BY <2>2, <3>1, <3>2, <3>4
      <4>3. (T \ {y}) \ {x} = (T \ {x}) \ {y}
        OBVIOUS
      <4>4. f[x] \in Nat /\ f[y] \in Nat /\ g[(T \ {x}) \ {y}] \in Nat
        BY <1>7, <3>1
      <4>5. \A a, b, c \in Nat : a + (b + c) = b + (a + c)
        OBVIOUS
      <4>6. f[y] + (f[x] + g[(T \ {x}) \ {y}]) = f[x] + (f[y] + g[(T \ {x}) \ {y}])
        BY ONLY <4>4, <4>5
      <4> QED
        BY ONLY <3>1, <4>1, <4>2, <4>3, <4>6
    <3> QED
      BY <3>3, <3>4
  <2> HIDE DEF Free
  <2> QED
    BY <2>1, <2>2, InductionSet
<1>9. \A T \in SUBSET S : \A x \in T : g[T] = f[x] + g[T \ {x}]
  BY <1>4, <1>8
<1>10. g \in [SUBSET S -> Nat]
  <2>1. g = [T \in SUBSET S |-> g[T]]
    BY <1>1
  <2> QED
    BY <1>7, <2>1
<1> QED
  BY <1>3, <1>9, <1>10 DEF g

\* The sum of the first n records of a task's file.
Prefix(t, n) == PartSums(Times[t], DOMAIN Times[t])[1 .. n]

\* The sums of a file's records, record by record.
LEMMA PrefixFacts ==
    ASSUME NEW t \in Tasks
    PROVE  /\ Len(Times[t]) \in Nat
           /\ Prefix(t, 0) = 0
           /\ \A n \in 0 .. Len(Times[t]) : Prefix(t, n) \in Nat
           /\ \A n \in 1 .. Len(Times[t]) :
                  Times[t][n] \in Nat /\ Prefix(t, n) = Times[t][n] + Prefix(t, n - 1)
<1> DEFINE D == DOMAIN Times[t]
           g == PartSums(Times[t], D)
<1>1. /\ Times[t] \in Seq(Nat) /\ Len(Times[t]) \in Nat
      /\ D = 1 .. Len(Times[t]) /\ Times[t] \in [D -> Nat]
  BY TimesTyped
<1>2. IsFiniteSet(D)
  BY <1>1, FS_Interval
<1>3. /\ g \in [SUBSET D -> Nat] /\ g[{}] = 0
      /\ \A T \in SUBSET D : \A x \in T : g[T] = Times[t][x] + g[T \ {x}]
  BY <1>1, <1>2, PartSumsFacts
<1>4. \A n \in 0 .. Len(Times[t]) : Prefix(t, n) = g[1 .. n] /\ 1 .. n \in SUBSET D
  BY <1>1 DEF Prefix
<1> HIDE DEF g, D
<1>6. Prefix(t, 0) = 0
  <2>1. 1 .. 0 = {}
    OBVIOUS
  <2> QED
    BY <1>1, <1>3, <1>4, <2>1
<1>7. ASSUME NEW n \in 1 .. Len(Times[t])
      PROVE  Times[t][n] \in Nat /\ Prefix(t, n) = Times[t][n] + Prefix(t, n - 1)
  <2>1. /\ n \in 0 .. Len(Times[t]) /\ n - 1 \in 0 .. Len(Times[t])
        /\ n \in 1 .. n /\ (1 .. n) \ {n} = 1 .. n - 1 /\ n \in D
    BY <1>1
  <2>2. g[1 .. n] = Times[t][n] + g[(1 .. n) \ {n}]
    BY <1>3, <1>4, <2>1
  <2> QED
    BY <1>1, <1>4, <2>1, <2>2
<1>8. \A n \in 0 .. Len(Times[t]) : Prefix(t, n) \in Nat
  BY <1>3, <1>4
<1> QED
  BY <1>1, <1>6, <1>7, <1>8

\* The sum that -f computes is the sum of all the records.
LEMMA FoldIsPrefix ==
    ASSUME NEW t \in Tasks
    PROVE  FoldFunction(+, 0, Times[t]) = Prefix(t, Len(Times[t]))
<1>1. DOMAIN Times[t] = 1 .. Len(Times[t])
  BY TimesTyped
<1> QED
  BY <1>1, FoldIsSum DEF Prefix

\* When a program ends is a number, before the clock's end.
LEMMA EndsBeforeHorizon ==
    /\ Horizon \in Nat /\ Second \in Nat \ {0}
    /\ \A t \in Tasks :
           ProgramEnd(t) \in Nat /\ Horizon > ProgramEnd(t) + 2 * Second
<1>1. ASSUME NEW t \in Tasks PROVE ProgramEnd(t) \in Nat
  <2> DEFINE len == Len(Times[t])
  <2>1. len \in Nat /\ Prefix(t, len) \in Nat
    BY PrefixFacts
  <2>2. Period[t] \in Nat /\ Duration[t] \in Nat
    BY TimesTyped
  <2>3. ProgramEnd(t) = IF t \in Files
                        THEN Prefix(t, len) + (IF len > 1 THEN Period[t] * (len - 1)
                                                          ELSE 0)
                        ELSE Duration[t]
    BY FoldIsPrefix DEF ProgramEnd
  <2> HIDE DEF len
  <2>4. len > 1 => Period[t] * (len - 1) \in Nat
    BY ONLY <2>1, <2>2
  <2> QED
    BY <2>1, <2>2, <2>3, <2>4
<1> QED
  BY <1>1, HorizonFar, TimesTyped

-------------------------------------------------------------------------------
(* The lengths of loops and jobs *)

\* Where a task can be from the beginning of job() until its next release.
InJob == Loops \cup {"lock", "blocked", "unlock", "sleep", "asleep"}

\* The last emergency deadline, from which on late[t] counts.
Deadline(t) == ProgramEnd(t) + 2 * Second

\* What a loop_for() of n ticks uses at most.
LoopMost(t, n) == IF n > 0 THEN n + MaxCost(t) - 1 ELSE 0

\* The length of the first chunk, which job() does not keep.
Chunk1(t) == ExecTime(t) - CsLength - rest[t]

JobTypes ==
    /\ pc \in [Tasks -> PCs]
    /\ cur \in [Tasks -> Nat \ {0}]
    /\ loop \in [Tasks -> [todo : Int, done : Nat, last : Nat, left : Nat]]
    /\ rest \in [Tasks -> Int]
    /\ now \in Nat /\ now <= Horizon
    /\ work \in [Tasks -> Nat] /\ late \in [Tasks -> Nat]

\* Which loops a task has, and that its job has a record.
WhereInv(t) ==
    /\ pc[t] \in {"chunk1", "lock", "blocked", "cs", "unlock", "chunk2"} => t \in Lockers
    /\ pc[t] = "spin" => t \notin Lockers
    /\ pc[t] \in InJob /\ t \in Files => cur[t] <= Len(Times[t])

\* The iteration under way is the first, or began when one like its
\* predecessor, which took MinCost(t) or more, still fitted.
LoopInv(t) ==
    LET l == loop[t]
    IN  pc[t] \in Loops =>
            /\ l.todo > 0 /\ l.last \in Costs[t] /\ l.left <= l.last
            /\ \/ l.done + l.left = l.last
               \/ l.done + l.left < l.todo + l.last - MinCost(t)

\* The chunks are both parts of the job, or both without length.
ChunkInv(t) ==
    t \in Lockers /\ pc[t] \in InJob =>
        \/ rest[t] > 0 /\ Chunk1(t) >= 0
        \/ rest[t] <= 0 /\ Chunk1(t) <= 0

\* What the job has used is what its loops were given and ran over.
WorkInv(t) ==
    LET first  == LoopMost(t, Chunk1(t))
        second == first + LoopMost(t, CsLength)
    IN  /\ pc[t] = "spin" => /\ loop[t].todo = ExecTime(t)
                             /\ work[t] <= loop[t].done
        /\ pc[t] = "chunk1" => /\ loop[t].todo = Chunk1(t)
                               /\ work[t] <= loop[t].done
        /\ pc[t] \in {"lock", "blocked"} => work[t] <= first
        /\ pc[t] = "cs" => /\ loop[t].todo = CsLength
                           /\ work[t] <= first + loop[t].done
        /\ pc[t] = "unlock" => work[t] <= second
        /\ pc[t] = "chunk2" => /\ loop[t].todo = rest[t]
                               /\ work[t] <= second + loop[t].done
        /\ pc[t] = "sleep" =>
               work[t] <= IF t \in Lockers THEN second + LoopMost(t, rest[t])
                                           ELSE LoopMost(t, ExecTime(t))

\* After the last deadline each loop has no more than the iteration in which
\* the deadline passed.
LateInv(t) ==
    /\ late[t] > 0 => now > Deadline(t)
    /\ pc[t] \in {"spin", "chunk1"} => late[t] + loop[t].left <= MaxCost(t)
    /\ pc[t] \in {"lock", "blocked"} => late[t] <= MaxCost(t)
    /\ pc[t] = "cs" => late[t] + loop[t].left <= 2 * MaxCost(t)
    /\ pc[t] = "unlock" => late[t] <= 2 * MaxCost(t)
    /\ pc[t] = "chunk2" => late[t] + loop[t].left <= 3 * MaxCost(t)
    /\ late[t] <= (IF t \in Lockers THEN 3 ELSE 1) * MaxCost(t)

TaskInv(t) == WhereInv(t) /\ LoopInv(t) /\ ChunkInv(t) /\ WorkInv(t) /\ LateInv(t)

\* The inductive invariant of the jobs' lengths.
JobInv == JobTypes /\ \A t \in Tasks : TaskInv(t)

\* A finite nonempty set of natural numbers has a greatest element: a smallest
\* set without one would, less an element, have one.
LEMMA GreatestElement ==
    ASSUME NEW S \in SUBSET Nat, S # {}, IsFiniteSet(S)
    PROVE  \E x \in S : \A y \in S : y <= x
<1> DEFINE Greatest(T) == \E x \in T : \A y \in T : y <= x
           Bad == {n \in Nat : \E T \in SUBSET Nat :
                      T # {} /\ IsFiniteSet(T) /\ Cardinality(T) = n /\ ~Greatest(T)}
<1>1. Cardinality(S) \in Nat
  BY FS_CardinalityType
<1> SUFFICES ASSUME Bad # {} PROVE FALSE
  BY <1>1
<1>2. PICK n \in Bad : \A m \in Bad : n <= m
  BY LeastElement
<1>3. PICK T \in SUBSET Nat :
          T # {} /\ IsFiniteSet(T) /\ Cardinality(T) = n /\ ~Greatest(T)
  BY <1>2
<1>4. PICK x \in T : TRUE
  BY <1>3
<1>5. IsFiniteSet(T \ {x}) /\ Cardinality(T \ {x}) = n - 1 /\ n \in Nat
  BY <1>2, <1>3, <1>4, FS_RemoveElement
<1>6. Cardinality(T \ {x}) \in Nat /\ n - 1 \in Nat
  BY <1>5, FS_CardinalityType
<1>7. T \ {x} # {}
  BY <1>3, <1>4
<1>8. Greatest(T \ {x})
  <2>1. n - 1 \notin Bad
    BY <1>2, <1>5
  <2> QED
    BY <1>5, <1>6, <1>7, <2>1
<1>9. PICK y \in T \ {x} : \A z \in T \ {x} : z <= y
  BY <1>8
<1>10. x \in Nat /\ y \in Nat
  BY <1>4, <1>9
<1>11. CASE x <= y
  BY <1>3, <1>9, <1>10, <1>11
<1>12. CASE y <= x
  BY <1>3, <1>4, <1>9, <1>10, <1>12
<1> QED
  BY <1>10, <1>11, <1>12

\* The bounds of the length of a task's iterations.
LEMMA CostBounds ==
    ASSUME NEW t \in Tasks
    PROVE  /\ MaxCost(t) \in Nat \ {0} /\ MinCost(t) \in Nat \ {0}
           /\ \A c \in Costs[t] : c \in Nat \ {0} /\ MinCost(t) <= c /\ c <= MaxCost(t)
<1>1. /\ IsFiniteSet(Costs[t]) /\ Costs[t] # {} /\ Costs[t] \subseteq Nat \ {0}
      /\ Costs[t] \in SUBSET Nat
  BY TimesTyped
<1>2. Max(Costs[t]) \in Costs[t] /\ \A c \in Costs[t] : c <= Max(Costs[t])
  <2>1. \E x \in Costs[t] : \A y \in Costs[t] : y <= x
    BY <1>1, GreatestElement
  <2>2. \E x \in Costs[t] : \A y \in Costs[t] : x >= y
    BY <1>1, <2>1
  <2>3. Max(Costs[t]) \in Costs[t] /\ \A c \in Costs[t] : Max(Costs[t]) >= c
    BY <2>2 DEF Max
  <2> QED
    BY <1>1, <2>3
<1>3. Min(Costs[t]) \in Costs[t] /\ \A c \in Costs[t] : Min(Costs[t]) <= c
  <2>1. \E x \in Costs[t] : \A y \in Costs[t] : x <= y
    BY <1>1, LeastElement
  <2> QED
    BY <2>1 DEF Min
<1> QED
  BY <1>1, <1>2, <1>3 DEF MaxCost, MinCost

\* A job has a length.
LEMMA ExecTimeType ==
    ASSUME JobTypes, NEW t \in Tasks, t \in Files => cur[t] <= Len(Times[t])
    PROVE  ExecTime(t) \in Nat
<1>1. Times[t] \in Seq(Nat) /\ Scale \in Nat /\ cur[t] \in Nat \ {0}
  BY TimesTyped DEF JobTypes
<1>2. Times[t][IF t \in Files THEN cur[t] ELSE 1] \in Nat
  BY <1>1, TimesTyped
<1>3. \A n \in Nat : Scale * n \in Nat
  BY <1>1
<1> QED
  BY <1>2, <1>3 DEF ExecTime

\* The initial state satisfies the inductive invariant.
LEMMA InitJobInv == Init => JobInv
<1> SUFFICES ASSUME Init PROVE JobInv
  OBVIOUS
<1>1. JobTypes
  BY EndsBeforeHorizon DEF Init, JobTypes, NoLoop, PCs, Blocked, Loops
<1>2. ASSUME NEW t \in Tasks PROVE TaskInv(t)
  <2>1. pc[t] = "open" /\ late[t] = 0
    BY DEF Init
  <2>2. WhereInv(t) /\ LoopInv(t) /\ ChunkInv(t) /\ WorkInv(t)
    BY <2>1 DEF WhereInv, LoopInv, ChunkInv, WorkInv, InJob, Loops
  <2>3. LateInv(t)
    BY <2>1, CostBounds DEF LateInv
  <2> QED
    BY <2>2, <2>3 DEF TaskInv
<1> QED
  BY <1>1, <1>2 DEF JobInv

\* What a task does at one time is nothing to the invariant of another.
LEMMA OthersKeep ==
    ASSUME NEW u \in Tasks, TaskInv(u), now' = now,
           pc'[u] = pc[u], cur'[u] = cur[u], loop'[u] = loop[u],
           rest'[u] = rest[u], work'[u] = work[u], late'[u] = late[u]
    PROVE  TaskInv(u)'
  BY DEF TaskInv, WhereInv, LoopInv, ChunkInv, WorkInv, LateInv, Chunk1, ExecTime,
         LoopMost

\* loop_for() begins with an iteration that its task's costs allow, or does
\* not begin.
LEMMA LoopForBegins ==
    ASSUME JobTypes, NEW t \in Tasks, NEW phase \in Loops, NEW length \in Int,
           LoopFor(t, phase, length)
    PROVE  /\ pc' = [pc EXCEPT ![t] = IF length > 0 THEN phase ELSE After[phase]]
           /\ loop' \in [Tasks -> [todo : Int, done : Nat, last : Nat, left : Nat]]
           /\ \A u \in Tasks \ {t} : loop'[u] = loop[u]
           /\ length > 0 =>
                  /\ loop'[t].todo = length /\ loop'[t].done = 0
                  /\ loop'[t].last \in Costs[t] /\ loop'[t].left = loop'[t].last
                  /\ loop'[t].left <= MaxCost(t)
<1> USE DEF JobTypes
<1>1. CASE length > 0
  <2>1. PICK c \in Costs[t] :
            loop' = [loop EXCEPT ![t] = [todo |-> length, done |-> 0,
                                         last |-> c, left |-> c]]
    BY <1>1 DEF LoopFor
  <2>2. c \in Nat /\ c <= MaxCost(t)
    BY CostBounds
  <2>3. pc' = [pc EXCEPT ![t] = phase]
    BY <1>1 DEF LoopFor, Goto
  <2> QED
    BY <1>1, <2>1, <2>2, <2>3
<1>2. CASE length <= 0
  <2>1. loop' = [loop EXCEPT ![t] = NoLoop]
    BY <1>2 DEF LoopFor
  <2>2. pc' = [pc EXCEPT ![t] = After[phase]]
    BY <1>2 DEF LoopFor, Goto
  <2>3. NoLoop \in [todo : Int, done : Nat, last : Nat, left : Nat]
    BY DEF NoLoop
  <2>4. loop' \in [Tasks -> [todo : Int, done : Nat, last : Nat, left : Nat]]
    BY <2>1, <2>3
  <2>5. ~(length > 0)
    BY <1>2
  <2>6. \A u \in Tasks \ {t} : loop'[u] = loop[u]
    BY <2>1
  <2> QED
    BY <2>2, <2>4, <2>5, <2>6
<1> QED
  BY <1>1, <1>2

\* A loop that ends with an iteration has used no more than it may.
LEMMA LoopOver ==
    ASSUME JobTypes, NEW t \in Tasks, LoopInv(t), pc[t] \in Loops, loop[t].left = 0
    PROVE  loop[t].done <= LoopMost(t, loop[t].todo)
<1>1. /\ loop[t].done \in Nat /\ loop[t].todo \in Int /\ loop[t].todo > 0
      /\ loop[t].last \in Costs[t]
      /\ \/ loop[t].done = loop[t].last
         \/ loop[t].done < loop[t].todo + loop[t].last - MinCost(t)
  BY DEF JobTypes, LoopInv
<1> QED
  BY <1>1, CostBounds DEF LoopMost

\* The deadlines of a task that is not late have not passed.
LEMMA NotLateYet ==
    ASSUME JobInv, NEW t \in Tasks, now <= Deadline(t)
    PROVE  late[t] = 0
<1>1. late[t] \in Nat /\ (late[t] > 0 => now > Deadline(t)) /\ now \in Nat
  BY DEF JobInv, JobTypes, TaskInv, LateInv
<1>2. Deadline(t) \in Nat
  BY EndsBeforeHorizon, TimesTyped DEF Deadline
<1> QED
  BY <1>1, <1>2

\* job() divides its execution time.
LEMMA StartJobJobInv ==
    ASSUME JobInv, NEW t \in Tasks, StartJob(t)
    PROVE  JobInv'
<1>1. JobTypes /\ TaskInv(t)
  BY DEF JobInv
<1>2. /\ pc[t] = "job" /\ (t \in Files => cur[t] <= Len(Times[t]))
      /\ work' = [work EXCEPT ![t] = 0]
      /\ UNCHANGED <<cur, now, late>>
  BY DEF StartJob
<1>3. late[t] = 0
  <2>1. now <= ProgramEnd(t) /\ now \in Nat /\ ProgramEnd(t) \in Nat /\ Second \in Nat
    BY <1>1, EndsBeforeHorizon, TimesTyped DEF StartJob, JobTypes
  <2> QED
    BY <2>1, NotLateYet DEF Deadline
<1>4. /\ ExecTime(t) \in Nat /\ CsLength \in Nat \ {0}
      /\ ExecTime(t)' = ExecTime(t)
  BY <1>1, <1>2, ExecTimeType, TimesTyped DEF ExecTime
<1>5. MaxCost(t) \in Nat \ {0} /\ MinCost(t) \in Nat \ {0}
  BY CostBounds
<1>6. work'[t] = 0 /\ work' \in [Tasks -> Nat]
  BY <1>1, <1>2 DEF JobTypes
<1>7. CASE t \in Lockers
  <2>1. PICK chunk1 \in Chunk1s(t) :
            /\ rest' = [rest EXCEPT ![t] = Chunk2(t, chunk1)]
            /\ LoopFor(t, "chunk1", chunk1)
    BY <1>7 DEF StartJob
  <2>2. /\ chunk1 \in Int /\ Chunk2(t, chunk1) \in Int
        /\ Chunk2(t, chunk1) = ExecTime(t) - CsLength - chunk1
        /\ \/ Chunk2(t, chunk1) > 0 /\ chunk1 >= 0
           \/ Chunk2(t, chunk1) <= 0 /\ chunk1 <= 0
    BY <1>4, <2>1 DEF Chunk1s, Chunk2
  <2>3. /\ rest' \in [Tasks -> Int] /\ rest'[t] = Chunk2(t, chunk1)
        /\ \A u \in Tasks \ {t} : rest'[u] = rest[u]
    BY <1>1, <2>1, <2>2 DEF JobTypes
  <2>4. Chunk1(t)' = chunk1
    BY <1>4, <2>2, <2>3 DEF Chunk1
  <2>5. /\ pc' = [pc EXCEPT ![t] = IF chunk1 > 0 THEN "chunk1" ELSE "lock"]
        /\ loop' \in [Tasks -> [todo : Int, done : Nat, last : Nat, left : Nat]]
        /\ \A u \in Tasks \ {t} : loop'[u] = loop[u]
        /\ chunk1 > 0 =>
                  /\ loop'[t].todo = chunk1 /\ loop'[t].done = 0
                  /\ loop'[t].last \in Costs[t] /\ loop'[t].left = loop'[t].last
                  /\ loop'[t].left <= MaxCost(t)
    <3>1. "chunk1" \in Loops /\ After["chunk1"] = "lock"
      BY DEF Loops, After
    <3> QED
      BY <1>1, <2>1, <2>2, <3>1, LoopForBegins
  <2>6. JobTypes'
    BY <1>1, <1>2, <1>6, <2>3, <2>5 DEF JobTypes, PCs, Loops
  <2>7. /\ pc'[t] = (IF chunk1 > 0 THEN "chunk1" ELSE "lock")
        /\ \A u \in Tasks \ {t} : pc'[u] = pc[u]
    BY <1>1, <2>5 DEF JobTypes
  <2>8. WhereInv(t)' /\ ChunkInv(t)'
    BY <1>2, <1>7, <2>2, <2>3, <2>4, <2>7 DEF WhereInv, ChunkInv
  <2>9. LoopInv(t)'
    BY <2>5, <2>6, <2>7, <1>5 DEF LoopInv, JobTypes, Loops
  <2>10. WorkInv(t)'
    <3>1. CASE chunk1 > 0
      BY <1>6, <2>4, <2>5, <2>7, <3>1 DEF WorkInv
    <3>2. CASE ~(chunk1 > 0)
      BY <1>6, <2>2, <2>4, <2>7, <3>2 DEF WorkInv, LoopMost
    <3> QED
      BY <3>1, <3>2
  <2>11. LateInv(t)'
    <3>1. late'[t] = 0
      BY <1>2, <1>3
    <3>2. CASE chunk1 > 0
      BY <1>5, <2>5, <2>6, <2>7, <3>1, <3>2 DEF LateInv, JobTypes
    <3>3. CASE ~(chunk1 > 0)
      BY <1>5, <2>7, <3>1, <3>3 DEF LateInv
    <3> QED
      BY <3>2, <3>3
  <2>12. ASSUME NEW u \in Tasks \ {t} PROVE TaskInv(u)'
    BY <1>1, <1>2, <2>3, <2>5, <2>7, OthersKeep DEF JobInv, JobTypes
  <2> QED
    BY <2>6, <2>8, <2>9, <2>10, <2>11, <2>12 DEF JobInv, TaskInv
<1>8. CASE t \notin Lockers
  <2>1. LoopFor(t, "spin", ExecTime(t)) /\ rest' = rest
    BY <1>8 DEF StartJob
  <2>2. /\ pc' = [pc EXCEPT ![t] = IF ExecTime(t) > 0 THEN "spin" ELSE "sleep"]
        /\ loop' \in [Tasks -> [todo : Int, done : Nat, last : Nat, left : Nat]]
        /\ \A u \in Tasks \ {t} : loop'[u] = loop[u]
        /\ ExecTime(t) > 0 =>
                  /\ loop'[t].todo = ExecTime(t) /\ loop'[t].done = 0
                  /\ loop'[t].last \in Costs[t] /\ loop'[t].left = loop'[t].last
                  /\ loop'[t].left <= MaxCost(t)
    <3>1. "spin" \in Loops /\ After["spin"] = "sleep" /\ ExecTime(t) \in Int
      BY <1>4 DEF Loops, After
    <3> QED
      BY <1>1, <2>1, <3>1, LoopForBegins
  <2>3. JobTypes'
    BY <1>1, <1>2, <1>6, <2>1, <2>2 DEF JobTypes, PCs, Loops
  <2>4. /\ pc'[t] = (IF ExecTime(t) > 0 THEN "spin" ELSE "sleep")
        /\ \A u \in Tasks \ {t} : pc'[u] = pc[u]
    BY <1>1, <2>2 DEF JobTypes
  <2>5. WhereInv(t)' /\ ChunkInv(t)'
    BY <1>2, <1>8, <2>4 DEF WhereInv, ChunkInv
  <2>6. LoopInv(t)'
    BY <1>5, <2>2, <2>3, <2>4 DEF LoopInv, JobTypes, Loops
  <2>7. WorkInv(t)'
    BY <1>4, <1>5, <1>6, <1>8, <2>2, <2>4 DEF WorkInv, LoopMost
  <2>8. LateInv(t)'
    <3>1. late'[t] = 0
      BY <1>2, <1>3
    <3> QED
      BY <1>5, <2>2, <2>3, <2>4, <3>1 DEF LateInv, JobTypes
  <2>9. ASSUME NEW u \in Tasks \ {t} PROVE TaskInv(u)'
    BY <1>1, <1>2, <2>1, <2>2, <2>4, OthersKeep DEF JobInv, JobTypes
  <2> QED
    BY <2>3, <2>5, <2>6, <2>7, <2>8, <2>9 DEF JobInv, TaskInv
<1> QED
  BY <1>7, <1>8

\* The critical section begins, with or without the lock.
LEMMA EnterCsJobInv ==
    ASSUME JobInv, NEW t \in Tasks, pc[t] \in {"lock", "blocked"},
           LoopFor(t, "cs", CsLength), UNCHANGED <<cur, rest, now, work, late>>
    PROVE  JobInv'
<1>1. JobTypes /\ TaskInv(t)
  BY DEF JobInv
<1>2. CsLength \in Int /\ CsLength > 0 /\ "cs" \in Loops
  BY TimesTyped DEF Loops
<1>3. MaxCost(t) \in Nat \ {0} /\ MinCost(t) \in Nat \ {0}
  BY CostBounds
<1>4. /\ pc' = [pc EXCEPT ![t] = "cs"]
      /\ loop' \in [Tasks -> [todo : Int, done : Nat, last : Nat, left : Nat]]
      /\ \A u \in Tasks \ {t} : loop'[u] = loop[u]
      /\ loop'[t].todo = CsLength /\ loop'[t].done = 0
      /\ loop'[t].last \in Costs[t] /\ loop'[t].left = loop'[t].last
      /\ loop'[t].left <= MaxCost(t)
  BY <1>1, <1>2, LoopForBegins
<1>5. JobTypes'
  BY <1>1, <1>4 DEF JobTypes, PCs, Loops
<1>6. pc'[t] = "cs" /\ \A u \in Tasks \ {t} : pc'[u] = pc[u]
  BY <1>1, <1>4 DEF JobTypes
<1>7. WhereInv(t)' /\ ChunkInv(t)'
  BY <1>1, <1>6 DEF TaskInv, WhereInv, ChunkInv, Chunk1, ExecTime, InJob, Loops
<1>8. LoopInv(t)'
  BY <1>2, <1>3, <1>4, <1>5, <1>6 DEF LoopInv, JobTypes
<1>9. WorkInv(t)'
  <2>1. work[t] <= LoopMost(t, Chunk1(t))
    BY <1>1 DEF TaskInv, WorkInv
  <2>2. LoopMost(t, Chunk1(t))' = LoopMost(t, Chunk1(t)) /\ work'[t] = work[t]
    BY DEF LoopMost, Chunk1, ExecTime
  <2>3. LoopMost(t, Chunk1(t)) \in Int
    <3>1. ExecTime(t) \in Nat
      BY <1>1, ExecTimeType DEF TaskInv, WhereInv, InJob
    <3> QED
      BY <1>1, <1>2, <1>3, <3>1 DEF LoopMost, Chunk1, JobTypes
  <2> QED
    BY <1>4, <1>6, <2>1, <2>2, <2>3 DEF WorkInv
<1>10. LateInv(t)'
  <2>1. late'[t] = late[t] /\ late[t] \in Nat /\ late[t] <= MaxCost(t)
    BY <1>1 DEF TaskInv, LateInv, JobTypes
  <2>2. late'[t] + loop'[t].left <= 2 * MaxCost(t)
    BY <1>3, <1>4, <1>5, <2>1 DEF JobTypes
  <2> QED
    BY <1>1, <1>6, <2>1, <2>2 DEF TaskInv, LateInv, Deadline
<1>11. ASSUME NEW u \in Tasks \ {t} PROVE TaskInv(u)'
  BY <1>4, <1>6, OthersKeep DEF JobInv
<1> QED
  BY <1>5, <1>7, <1>8, <1>9, <1>10, <1>11 DEF JobInv, TaskInv

\* The second chunk begins, or there is none.
LEMMA UnlockJobInv ==
    ASSUME JobInv, NEW t \in Tasks, Unlock(t)
    PROVE  JobInv'
<1>1. JobTypes /\ TaskInv(t)
  BY DEF JobInv
<1>2. /\ pc[t] = "unlock" /\ LoopFor(t, "chunk2", rest[t])
      /\ UNCHANGED <<cur, rest, now, work, late>>
  BY DEF Unlock, history
<1>3. MaxCost(t) \in Nat \ {0} /\ MinCost(t) \in Nat \ {0}
  BY CostBounds
<1>4. /\ pc' = [pc EXCEPT ![t] = IF rest[t] > 0 THEN "chunk2" ELSE "sleep"]
      /\ loop' \in [Tasks -> [todo : Int, done : Nat, last : Nat, left : Nat]]
      /\ \A u \in Tasks \ {t} : loop'[u] = loop[u]
      /\ rest[t] > 0 =>
                /\ loop'[t].todo = rest[t] /\ loop'[t].done = 0
                /\ loop'[t].last \in Costs[t] /\ loop'[t].left = loop'[t].last
                /\ loop'[t].left <= MaxCost(t)
  <2>1. rest[t] \in Int /\ "chunk2" \in Loops /\ After["chunk2"] = "sleep"
    BY <1>1 DEF JobTypes, Loops, After
  <2> QED
    BY <1>1, <1>2, <2>1, LoopForBegins
<1>5. JobTypes'
  BY <1>1, <1>2, <1>4 DEF JobTypes, PCs, Loops
<1>6. /\ pc'[t] = (IF rest[t] > 0 THEN "chunk2" ELSE "sleep")
      /\ \A u \in Tasks \ {t} : pc'[u] = pc[u]
  BY <1>1, <1>4 DEF JobTypes
<1>7. t \in Lockers
  BY <1>1, <1>2 DEF TaskInv, WhereInv
<1>8. WhereInv(t)' /\ ChunkInv(t)'
  BY <1>1, <1>2, <1>6, <1>7
     DEF TaskInv, WhereInv, ChunkInv, Chunk1, ExecTime, InJob, Loops
<1>9. LoopInv(t)'
  BY <1>3, <1>4, <1>5, <1>6 DEF LoopInv, JobTypes, Loops
<1>10. WorkInv(t)'
  <2> DEFINE second == LoopMost(t, Chunk1(t)) + LoopMost(t, CsLength)
  <2>1. work[t] <= second /\ work'[t] = work[t] /\ work[t] \in Nat
    BY <1>1, <1>2 DEF TaskInv, WorkInv, JobTypes
  <2>2. second' = second /\ LoopMost(t, rest[t])' = LoopMost(t, rest[t])
    BY <1>2 DEF LoopMost, Chunk1, ExecTime
  <2>3. second \in Int
    <3>1. ExecTime(t) \in Nat /\ CsLength \in Nat
      BY <1>1, <1>2, ExecTimeType, TimesTyped DEF TaskInv, WhereInv, InJob
    <3> QED
      BY <1>1, <1>3, <3>1 DEF LoopMost, Chunk1, JobTypes
  <2>4. CASE rest[t] > 0
    <3>1. pc'[t] = "chunk2" /\ loop'[t].todo = rest'[t] /\ loop'[t].done = 0
      BY <1>2, <1>4, <1>6, <2>4
    <3>2. work'[t] <= second' + loop'[t].done
      BY <2>1, <2>2, <2>3, <3>1
    <3> QED
      BY <3>1, <3>2 DEF WorkInv
  <2>5. CASE ~(rest[t] > 0)
    <3>1. pc'[t] = "sleep" /\ LoopMost(t, rest[t])' = 0
      BY <1>6, <2>2, <2>5 DEF LoopMost
    <3>2. work'[t] <= second' + LoopMost(t, rest[t])'
      BY <2>1, <2>2, <2>3, <3>1
    <3> QED
      BY <1>7, <3>1, <3>2 DEF WorkInv
  <2> QED
    BY <2>4, <2>5
<1>11. LateInv(t)'
  <2>1. late'[t] = late[t] /\ late[t] \in Nat /\ late[t] <= 2 * MaxCost(t)
    BY <1>1, <1>2 DEF TaskInv, LateInv, JobTypes
  <2>2. rest[t] > 0 => late'[t] + loop'[t].left <= 3 * MaxCost(t)
    BY <1>3, <1>4, <1>5, <2>1 DEF JobTypes
  <2> QED
    BY <1>1, <1>2, <1>6, <2>1, <2>2 DEF TaskInv, LateInv, Deadline
<1>12. ASSUME NEW u \in Tasks \ {t} PROVE TaskInv(u)'
  BY <1>2, <1>4, <1>6, OthersKeep DEF JobInv
<1> QED
  BY <1>5, <1>8, <1>9, <1>10, <1>11, <1>12 DEF JobInv, TaskInv

\* Steps of a task between its loops, or to a place outside job().
LEMMA MoveJobInv ==
    ASSUME JobInv, NEW t \in Tasks, NEW label \in PCs, Goto(t, label),
           \/ label \notin InJob
           \/ label = "blocked" /\ pc[t] = "lock" /\ cur' = cur
           \/ label = "asleep" /\ pc[t] = "sleep" /\ cur' = cur,
           cur' \in [Tasks -> Nat \ {0}],
           \A u \in Tasks \ {t} : cur'[u] = cur[u],
           UNCHANGED <<loop, rest, now, work, late>>
    PROVE  JobInv'
<1>1. JobTypes /\ TaskInv(t)
  BY DEF JobInv
<1>2. JobTypes'
  BY <1>1 DEF JobTypes, Goto
<1>3. pc'[t] = label /\ \A u \in Tasks \ {t} : pc'[u] = pc[u]
  BY <1>1 DEF JobTypes, Goto
<1>4. WhereInv(t)' /\ ChunkInv(t)' /\ LoopInv(t)'
  BY <1>1, <1>3
     DEF TaskInv, WhereInv, ChunkInv, LoopInv, Chunk1, ExecTime, InJob, Loops
<1>5. WorkInv(t)'
  BY <1>1, <1>3 DEF TaskInv, WorkInv, LoopMost, Chunk1, ExecTime, InJob, Loops
<1>6. LateInv(t)'
  BY <1>1, <1>3 DEF TaskInv, LateInv, Deadline, InJob, Loops
<1>7. ASSUME NEW u \in Tasks \ {t} PROVE TaskInv(u)'
  BY <1>3, OthersKeep DEF JobInv
<1> QED
  BY <1>2, <1>4, <1>5, <1>6, <1>7 DEF JobInv, TaskInv

\* A loop ends, by an emergency exit or because no iteration fits.
LEMMA LoopExitJobInv ==
    ASSUME JobInv, NEW t \in Tasks, pc[t] \in Loops, loop[t].left = 0,
           Goto(t, After[pc[t]]), UNCHANGED <<cur, loop, rest, now, work, late>>
    PROVE  JobInv'
<1>1. JobTypes /\ TaskInv(t)
  BY DEF JobInv
<1>2. /\ After[pc[t]] \in {"sleep", "lock", "unlock"}
      /\ pc'[t] = After[pc[t]] /\ \A u \in Tasks \ {t} : pc'[u] = pc[u]
      /\ \/ pc[t] \in {"spin", "chunk2"} /\ pc'[t] = "sleep"
         \/ pc[t] = "chunk1" /\ pc'[t] = "lock"
         \/ pc[t] = "cs" /\ pc'[t] = "unlock"
  BY <1>1 DEF JobTypes, Goto, After, Loops
<1>3. JobTypes'
  BY <1>1, <1>2 DEF JobTypes, Goto, PCs
<1>4. WhereInv(t)' /\ ChunkInv(t)' /\ LoopInv(t)'
  BY <1>1, <1>2
     DEF TaskInv, WhereInv, ChunkInv, LoopInv, Chunk1, ExecTime, InJob, Loops
<1>5. WorkInv(t)'
  <2> DEFINE first  == LoopMost(t, Chunk1(t))
             second == first + LoopMost(t, CsLength)
  <2>1. loop[t].done <= LoopMost(t, loop[t].todo)
    BY <1>1, LoopOver DEF TaskInv
  <2>2. /\ first' = first /\ second' = second /\ work'[t] = work[t]
        /\ LoopMost(t, rest[t])' = LoopMost(t, rest[t])
        /\ LoopMost(t, ExecTime(t))' = LoopMost(t, ExecTime(t))
    BY DEF LoopMost, Chunk1, ExecTime
  <2>3. /\ ExecTime(t) \in Nat /\ CsLength \in Nat /\ MaxCost(t) \in Nat
        /\ rest[t] \in Int /\ work[t] \in Nat /\ loop[t].done \in Nat
        /\ loop[t].todo \in Int
    BY <1>1, ExecTimeType, TimesTyped, CostBounds DEF TaskInv, WhereInv, InJob, JobTypes
  <2>4. /\ first \in Int /\ second \in Int /\ LoopMost(t, loop[t].todo) \in Int
        /\ LoopMost(t, CsLength) \in Int
    BY <2>3 DEF LoopMost, Chunk1
  <2>5. CASE pc[t] = "spin" /\ pc'[t] = "sleep"
    <3>1. t \notin Lockers /\ work[t] <= loop[t].done /\ loop[t].todo = ExecTime(t)
      BY <1>1, <2>5 DEF TaskInv, WhereInv, WorkInv
    <3>2. work'[t] <= LoopMost(t, ExecTime(t))'
      BY <2>1, <2>2, <2>3, <2>4, <3>1
    <3> QED
      BY <2>5, <3>1, <3>2 DEF WorkInv
  <2>6. CASE pc[t] = "chunk1" /\ pc'[t] = "lock"
    <3>1. work[t] <= loop[t].done /\ loop[t].todo = Chunk1(t)
      BY <1>1, <2>6 DEF TaskInv, WorkInv
    <3>2. work'[t] <= first'
      BY <2>1, <2>2, <2>3, <2>4, <3>1
    <3> QED
      BY <2>6, <3>2 DEF WorkInv
  <2>7. CASE pc[t] = "cs" /\ pc'[t] = "unlock"
    <3>1. work[t] <= first + loop[t].done /\ loop[t].todo = CsLength
      BY <1>1, <2>7 DEF TaskInv, WorkInv
    <3>2. work'[t] <= second'
      BY <2>1, <2>2, <2>3, <2>4, <3>1
    <3> QED
      BY <2>7, <3>2 DEF WorkInv
  <2>8. CASE pc[t] = "chunk2" /\ pc'[t] = "sleep"
    <3>1. t \in Lockers /\ work[t] <= second + loop[t].done /\ loop[t].todo = rest[t]
      BY <1>1, <2>8 DEF TaskInv, WhereInv, WorkInv
    <3>2. work'[t] <= second' + LoopMost(t, rest[t])'
      BY <2>1, <2>2, <2>3, <2>4, <3>1
    <3> QED
      BY <2>8, <3>1, <3>2 DEF WorkInv
  <2> QED
    BY <1>2, <2>5, <2>6, <2>7, <2>8
<1>6. LateInv(t)'
  <2>1. late[t] + loop[t].left = late[t] /\ late[t] \in Nat
    BY <1>1 DEF JobTypes
  <2> QED
    BY <1>1, <1>2, <2>1 DEF TaskInv, LateInv, Deadline
<1>7. ASSUME NEW u \in Tasks \ {t} PROVE TaskInv(u)'
  BY <1>2, OthersKeep DEF JobInv
<1> QED
  BY <1>3, <1>4, <1>5, <1>6, <1>7 DEF JobInv, TaskInv

\* Another iteration fits, and no deadline has passed.
LEMMA LoopTurnJobInv ==
    ASSUME JobInv, NEW t \in Tasks, pc[t] \in Loops, loop[t].left = 0, Fits(t),
           ~(now > EmergencyExit(t)), NEW c \in Costs[t],
           loop' = [loop EXCEPT ![t].last = c, ![t].left = c],
           UNCHANGED <<pc, cur, rest, now, work, late>>
    PROVE  JobInv'
<1>1. JobTypes /\ TaskInv(t)
  BY DEF JobInv
<1>2. c \in Nat /\ MinCost(t) <= c /\ c <= MaxCost(t) /\ MaxCost(t) \in Nat
  BY CostBounds
<1>3. /\ loop'[t].todo = loop[t].todo /\ loop'[t].done = loop[t].done
      /\ loop'[t].last = c /\ loop'[t].left = c
      /\ \A u \in Tasks \ {t} : loop'[u] = loop[u]
  BY <1>1 DEF JobTypes
<1>4. loop' \in [Tasks -> [todo : Int, done : Nat, last : Nat, left : Nat]]
  BY <1>1, <1>2 DEF JobTypes
<1>5. JobTypes'
  BY <1>1, <1>4 DEF JobTypes
<1>6. WhereInv(t)' /\ ChunkInv(t)'
  BY <1>1 DEF TaskInv, WhereInv, ChunkInv, Chunk1, ExecTime
<1>7. LoopInv(t)'
  <2>1. /\ loop[t].todo \in Int /\ loop[t].done \in Nat /\ loop[t].last \in Nat
        /\ loop[t].todo > 0 /\ loop[t].last \in Costs[t]
        /\ loop[t].done + loop[t].last < loop[t].todo
    BY <1>1 DEF JobTypes, TaskInv, LoopInv, Fits
  <2>2. MinCost(t) <= loop[t].last /\ MinCost(t) \in Nat
    BY <2>1, CostBounds
  <2>3. loop[t].done + c < loop[t].todo + c - MinCost(t)
    BY <1>2, <2>1, <2>2
  <2> QED
    BY <1>2, <1>3, <2>1, <2>3 DEF LoopInv
<1>8. WorkInv(t)'
  BY <1>1, <1>3 DEF TaskInv, WorkInv, LoopMost, Chunk1, ExecTime
<1>9. LateInv(t)'
  <2>1. now <= Deadline(t)
    <3>1. now \in Nat /\ ProgramEnd(t) \in Nat /\ Second \in Nat
      BY <1>1, EndsBeforeHorizon, TimesTyped DEF JobTypes
    <3> QED
      BY <3>1 DEF EmergencyExit, Deadline
  <2>2. late'[t] = 0
    BY <2>1, NotLateYet
  <2> QED
    BY <1>1, <1>2, <1>3, <2>2 DEF TaskInv, LateInv, Deadline
<1>10. ASSUME NEW u \in Tasks \ {t} PROVE TaskInv(u)'
  BY <1>3, OthersKeep DEF JobInv
<1> QED
  BY <1>5, <1>6, <1>7, <1>8, <1>9, <1>10 DEF JobInv, TaskInv

\* Every step of a task keeps the invariant.
LEMMA TaskJobInv ==
    ASSUME JobInv, NEW t \in Tasks, Task(t)
    PROVE  JobInv'
<1> USE DEF history
<1>0. cur \in [Tasks -> Nat \ {0}] /\ {"job", "done", "blocked", "asleep"} \subseteq PCs
  BY DEF JobInv, JobTypes, PCs, Blocked
<1>1. CASE OpenLock(t)
  BY <1>0, <1>1, MoveJobInv DEF OpenLock, InJob, Loops
<1>2. CASE StartJob(t)
  BY <1>2, StartJobJobInv
<1>3. CASE SkipJob(t)
  <2>1. CASE Goto(t, "done") /\ cur' = cur
    BY <1>0, <1>3, <2>1, MoveJobInv DEF SkipJob, InJob, Loops
  <2>2. CASE cur' = [cur EXCEPT ![t] = @ + 1] /\ pc' = pc
    <3>1. Goto(t, "job")
      BY <1>3, <2>2 DEF SkipJob, Goto, JobInv, JobTypes
    <3>2. cur' \in [Tasks -> Nat \ {0}] /\ \A u \in Tasks \ {t} : cur'[u] = cur[u]
      BY <1>0, <2>2
    <3> QED
      BY <1>0, <1>3, <3>1, <3>2, MoveJobInv DEF SkipJob, InJob, Loops
  <2> QED
    BY <1>3, <2>1, <2>2 DEF SkipJob
<1>4. CASE Finish(t)
  BY <1>0, <1>4, MoveJobInv DEF Finish, InJob, Loops
<1>5. CASE LoopEnd(t)
  <2>1. /\ pc[t] \in Loops /\ loop[t].left = 0
        /\ UNCHANGED <<cur, rest, now, work, late>>
    BY <1>5 DEF LoopEnd, EndIteration
  <2>2. CASE Goto(t, After[pc[t]]) /\ loop' = loop
    BY <2>1, <2>2, LoopExitJobInv
  <2>3. CASE /\ ~(now > EmergencyExit(t)) /\ Fits(t) /\ pc' = pc
             /\ \E c \in Costs[t] :
                    loop' = [loop EXCEPT ![t].last = c, ![t].left = c]
    BY <2>1, <2>3, LoopTurnJobInv
  <2> QED
    BY <1>5, <2>2, <2>3 DEF LoopEnd, EndIteration
<1>6. CASE Lock(t)
  <2>1. CASE LoopFor(t, "cs", CsLength)
    BY <1>6, <2>1, EnterCsJobInv DEF Lock
  <2>2. CASE Goto(t, "blocked") /\ loop' = loop
    BY <1>0, <1>6, <2>2, MoveJobInv DEF Lock
  <2> QED
    BY <1>6, <2>1, <2>2 DEF Lock
<1>7. CASE Granted(t)
  BY <1>7, EnterCsJobInv DEF Granted
<1>8. CASE Unlock(t)
  BY <1>8, UnlockJobInv
<1>9. CASE SleepNextPeriod(t)
  BY <1>0, <1>9, MoveJobInv DEF SleepNextPeriod
<1>10. CASE Release(t)
  <2>1. cur' \in [Tasks -> Nat \ {0}] /\ \A u \in Tasks \ {t} : cur'[u] = cur[u]
    BY <1>0, <1>10 DEF Release
  <2> QED
    BY <1>0, <1>10, <2>1, MoveJobInv DEF Release, InJob, Loops
<1> QED
  BY <1>1, <1>2, <1>3, <1>4, <1>5, <1>6, <1>7, <1>8, <1>9, <1>10 DEF Task

\* The clock advances until it stands at Horizon.
LEMMA ClockAdvances ==
    ASSUME JobTypes, now' = Min({now + 1, Horizon})
    PROVE  now' \in Nat /\ now <= now' /\ now' <= Horizon
<1>1. now \in Nat /\ Horizon \in Nat /\ now <= Horizon
  BY EndsBeforeHorizon DEF JobTypes
<1>2. \A a, b \in Nat : Min({a, b}) = IF a <= b THEN a ELSE b
  BY DEF Min
<1>3. now' = IF now + 1 <= Horizon THEN now + 1 ELSE Horizon
  BY <1>1, <1>2
<1> QED
  BY <1>1, <1>3

\* A tick: what the loops have left goes down as what they have used goes up.
LEMMA TickJobInv ==
    ASSUME JobInv, NEW S \in SUBSET Tasks, Tick(S)
    PROVE  JobInv'
<1>1. JobTypes
  BY DEF JobInv
<1>2. now' \in Nat /\ now <= now' /\ now' <= Horizon
  BY <1>1, ClockAdvances DEF Tick
<1>3. S \subseteq Spinning /\ UNCHANGED <<pc, cur, rest>>
  BY DEF Tick
<1>4. ASSUME NEW t \in Tasks \ S
      PROVE  loop'[t] = loop[t] /\ work'[t] = work[t] /\ late'[t] = late[t]
  BY <1>4 DEF Tick
<1>5. ASSUME NEW t \in S
      PROVE  /\ pc[t] \in Loops /\ loop[t].left > 0
             /\ loop'[t] = [loop[t] EXCEPT !.done = @ + 1, !.left = @ - 1]
             /\ work'[t] = work[t] + 1
             /\ late'[t] = IF now > Deadline(t) THEN late[t] + 1 ELSE late[t]
  BY <1>3, <1>5 DEF Tick, Spinning, Deadline
<1>6. ASSUME NEW t \in S
      PROVE  /\ loop'[t] \in [todo : Int, done : Nat, last : Nat, left : Nat]
             /\ loop'[t].todo = loop[t].todo /\ loop'[t].last = loop[t].last
             /\ loop'[t].done = loop[t].done + 1 /\ loop'[t].left = loop[t].left - 1
  <2>1. loop[t] \in [todo : Int, done : Nat, last : Nat, left : Nat]
    BY <1>1 DEF JobTypes
  <2>2. loop[t].left > 0 /\ loop'[t] = [loop[t] EXCEPT !.done = @ + 1, !.left = @ - 1]
    BY <1>5
  <2>3. /\ loop[t].todo \in Int /\ loop[t].done \in Nat /\ loop[t].last \in Nat
        /\ loop[t].left \in Nat
        /\ loop[t].done + 1 \in Nat /\ loop[t].left - 1 \in Nat
    BY <2>1, <2>2
  <2>4. loop'[t] = [todo |-> loop[t].todo, done |-> loop[t].done + 1,
                    last |-> loop[t].last, left |-> loop[t].left - 1]
    BY <2>1, <2>2
  <2> QED
    BY <2>3, <2>4
<1>7. JobTypes'
  <2>1. loop' \in [Tasks -> [todo : Int, done : Nat, last : Nat, left : Nat]]
    <3>1. \A t \in Tasks :
              loop'[t] \in [todo : Int, done : Nat, last : Nat, left : Nat]
      BY <1>1, <1>4, <1>6 DEF JobTypes
    <3> QED
      BY <3>1 DEF Tick
  <2>2. work' \in [Tasks -> Nat]
    <3>1. \A t \in Tasks : work[t] \in Nat /\ work[t] + 1 \in Nat
      BY <1>1 DEF JobTypes
    <3>2. \A t \in Tasks : work'[t] \in Nat
      BY <1>4, <1>5, <3>1
    <3> QED
      BY <3>2 DEF Tick
  <2>3. late' \in [Tasks -> Nat]
    <3>1. \A t \in Tasks : late[t] \in Nat /\ late[t] + 1 \in Nat
      BY <1>1 DEF JobTypes
    <3>2. \A t \in Tasks : late'[t] \in Nat
      BY <1>4, <1>5, <3>1
    <3> QED
      BY <3>2 DEF Tick
  <2> QED
    BY <1>1, <1>2, <1>3, <2>1, <2>2, <2>3 DEF JobTypes
<1>8. ASSUME NEW t \in Tasks PROVE TaskInv(t)'
  <2>1. TaskInv(t)
    BY DEF JobInv
  <2>2. /\ late[t] \in Nat /\ work[t] \in Nat /\ loop[t].done \in Nat
        /\ loop[t].left \in Nat /\ loop[t].todo \in Int /\ loop[t].last \in Nat
        /\ now \in Nat /\ Deadline(t) \in Nat
        /\ MaxCost(t) \in Nat /\ MinCost(t) \in Nat
    <3>1. /\ late[t] \in Nat /\ work[t] \in Nat /\ loop[t].done \in Nat
          /\ loop[t].left \in Nat /\ loop[t].todo \in Int /\ loop[t].last \in Nat
          /\ now \in Nat
      BY <1>1 DEF JobTypes
    <3>2. Deadline(t) \in Nat
      BY EndsBeforeHorizon, TimesTyped DEF Deadline
    <3> QED
      BY <3>1, <3>2, CostBounds
  <2>3. WhereInv(t)' /\ ChunkInv(t)'
    BY <1>3, <2>1 DEF TaskInv, WhereInv, ChunkInv, Chunk1, ExecTime
  <2>4. /\ Chunk1(t)' = Chunk1(t) /\ ExecTime(t)' = ExecTime(t)
        /\ LoopMost(t, Chunk1(t))' = LoopMost(t, Chunk1(t))
        /\ LoopMost(t, rest[t])' = LoopMost(t, rest[t])
        /\ LoopMost(t, ExecTime(t))' = LoopMost(t, ExecTime(t))
    BY <1>3 DEF Chunk1, ExecTime, LoopMost
  <2>5. CASE t \notin S
    <3>1. loop'[t] = loop[t] /\ work'[t] = work[t] /\ late'[t] = late[t]
      BY <1>4, <2>5
    <3>2. LoopInv(t)' /\ WorkInv(t)'
      BY <1>3, <2>1, <2>4, <3>1 DEF TaskInv, LoopInv, WorkInv
    <3>3. LateInv(t)'
      BY <1>2, <1>3, <2>1, <2>2, <3>1 DEF TaskInv, LateInv, Deadline
    <3> QED
      BY <2>3, <3>2, <3>3 DEF TaskInv
  <2>6. CASE t \in S
    <3>1. /\ pc[t] \in Loops /\ loop[t].left > 0 /\ work'[t] = work[t] + 1
          /\ late'[t] = IF now > Deadline(t) THEN late[t] + 1 ELSE late[t]
          /\ loop'[t].todo = loop[t].todo /\ loop'[t].last = loop[t].last
          /\ loop'[t].done = loop[t].done + 1 /\ loop'[t].left = loop[t].left - 1
      BY <1>5, <1>6, <2>6
    <3>2. LoopInv(t)'
      BY <1>3, <2>1, <2>2, <3>1 DEF TaskInv, LoopInv
    <3>3. WorkInv(t)'
      <4>1. ExecTime(t) \in Nat /\ CsLength \in Nat
        BY <1>1, <2>1, <3>1, ExecTimeType, TimesTyped DEF TaskInv, WhereInv, InJob
      <4>2. LoopMost(t, Chunk1(t)) \in Int /\ LoopMost(t, CsLength) \in Int
        BY <1>1, <2>2, <4>1 DEF LoopMost, Chunk1, JobTypes
      <4> QED
        BY <1>3, <2>1, <2>2, <2>4, <3>1, <4>2 DEF TaskInv, WorkInv, Loops
    <3>4. LateInv(t)'
      <4>1. late'[t] > 0 => now' > Deadline(t)
        BY <1>2, <2>1, <2>2, <3>1 DEF TaskInv, LateInv
      <4>2. late'[t] + loop'[t].left <= late[t] + loop[t].left /\ late'[t] <= late[t] + loop[t].left
        BY <2>2, <3>1
      <4>3. late'[t] \in Nat /\ loop'[t].left \in Nat
        BY <2>2, <3>1
      <4>4. /\ t \in Lockers => late'[t] <= 3 * MaxCost(t)
            /\ t \notin Lockers => late'[t] <= MaxCost(t)
        <5>1. /\ pc[t] = "spin" => t \notin Lockers
              /\ pc[t] \in {"chunk1", "cs", "chunk2"} => t \in Lockers
          BY <2>1 DEF TaskInv, WhereInv
        <5>2. /\ pc[t] \in {"spin", "chunk1"} => late[t] + loop[t].left <= MaxCost(t)
              /\ pc[t] \in {"cs", "chunk2"} => late[t] + loop[t].left <= 3 * MaxCost(t)
          BY <2>1, <2>2 DEF TaskInv, LateInv
        <5>3. pc[t] \in {"spin", "chunk1", "cs", "chunk2"}
          BY <3>1 DEF Loops
        <5>4. CASE pc[t] \in {"spin", "chunk1"}
          BY <2>2, <4>2, <4>3, <5>2, <5>4
        <5>5. CASE pc[t] \in {"cs", "chunk2"}
          BY <2>2, <4>2, <4>3, <5>1, <5>2, <5>5
        <5> QED
          BY <5>3, <5>4, <5>5
      <4> QED
        BY <1>3, <2>1, <2>2, <3>1, <4>1, <4>2, <4>3, <4>4
           DEF TaskInv, LateInv, Deadline, Loops
    <3> QED
      BY <2>3, <3>2, <3>3, <3>4 DEF TaskInv
  <2> QED
    BY <2>5, <2>6
<1> QED
  BY <1>7, <1>8 DEF JobInv

\* Every step keeps the invariant.
LEMMA NextJobInv == JobInv /\ [Next]_vars => JobInv'
<1> SUFFICES ASSUME JobInv, [Next]_vars PROVE JobInv'
  OBVIOUS
<1>1. CASE UNCHANGED vars
  <2>1. JobTypes'
    BY <1>1 DEF vars, history, JobInv, JobTypes
  <2>2. ASSUME NEW t \in Tasks PROVE TaskInv(t)'
    BY <1>1, OthersKeep DEF vars, history, JobInv
  <2> QED
    BY <2>1, <2>2 DEF JobInv
<1> QED
  BY <1>1, TaskJobInv, TickJobInv DEF Next

\* The invariant of the jobs' lengths, for any tasks, times and schedules.
THEOREM JobInvariant == Spec => []JobInv
  BY InitJobInv, NextJobInv, PTL DEF Spec

\* loop_for() exceeds the time it was given by less than its first iteration,
\* or by less than iterations differ in.
THEOREM LoopLengthHolds == Spec => []LoopLength
<1>1. ASSUME JobInv PROVE LoopLength
  <2> SUFFICES ASSUME NEW t \in Tasks, pc[t] \in Loops,
                      loop[t].done - loop[t].todo > 0
               PROVE  \/ /\ loop[t].done + loop[t].left = loop[t].last
                         /\ loop[t].done - loop[t].todo < MaxCost(t)
                      \/ loop[t].done - loop[t].todo < MaxCost(t) - MinCost(t)
    BY DEF LoopLength
  <2>1. /\ loop[t].done \in Nat /\ loop[t].left \in Nat /\ loop[t].todo \in Int
        /\ LoopInv(t)
    BY <1>1 DEF JobInv, JobTypes, TaskInv
  <2>2. loop[t].last \in Costs[t]
    BY <2>1 DEF LoopInv
  <2>3. /\ loop[t].last \in Nat /\ loop[t].last <= MaxCost(t)
        /\ MaxCost(t) \in Nat /\ MinCost(t) \in Nat
    BY <2>2, CostBounds
  <2> QED
    BY <2>1, <2>3 DEF LoopInv
<1>2. JobInv => LoopLength
  BY <1>1
<1> QED
  BY <1>2, JobInvariant, PTL

\* The invariant bounds what a job has used when it is over.
LEMMA JobsKeepLength ==
    ASSUME JobInv
    PROVE  JobLength
<1> SUFFICES ASSUME NEW t \in Tasks, pc[t] = "sleep"
             PROVE  work[t] <= Demand(t, ExecTime(t))
  BY DEF JobLength
<1>1. JobTypes /\ WhereInv(t) /\ ChunkInv(t) /\ WorkInv(t)
  BY DEF JobInv, TaskInv
<1>2. /\ ExecTime(t) \in Nat /\ CsLength \in Nat \ {0} /\ rest[t] \in Int
      /\ work[t] \in Nat /\ MaxCost(t) \in Nat \ {0}
  BY <1>1, ExecTimeType, TimesTyped, CostBounds DEF WhereInv, InJob, JobTypes
<1>3. \A a, b \in Nat : Max({a, b}) = IF a >= b THEN a ELSE b
  BY DEF Max
<1>4. Max({ExecTime(t), CsLength}) =
          IF ExecTime(t) >= CsLength THEN ExecTime(t) ELSE CsLength
  BY <1>2, <1>3
<1>5. CASE t \in Lockers
  <2>1. \/ rest[t] > 0 /\ Chunk1(t) >= 0
        \/ rest[t] <= 0 /\ Chunk1(t) <= 0
    BY <1>1, <1>5 DEF ChunkInv, InJob
  <2>2. work[t] <= LoopMost(t, Chunk1(t)) + LoopMost(t, CsLength)
                       + LoopMost(t, rest[t])
    BY <1>1, <1>5 DEF WorkInv
  <2> QED
    BY <1>2, <1>4, <1>5, <2>1, <2>2 DEF LoopMost, Chunk1, Demand
<1>6. CASE t \notin Lockers
  BY <1>1, <1>2, <1>6 DEF WorkInv, LoopMost, Demand
<1> QED
  BY <1>5, <1>6

\* What a job may use is a number.
LEMMA DemandType ==
    ASSUME NEW t \in Tasks, NEW n \in 1 .. Len(Times[t])
    PROVE  Demand(t, Scale * Times[t][n]) \in Nat
<1>1. Scale * Times[t][n] \in Nat
  <2>1. Times[t][n] \in Nat /\ Scale \in Nat
    BY PrefixFacts, TimesTyped
  <2>2. \A a, b \in Nat : a * b \in Nat
    OBVIOUS
  <2> QED
    BY <2>1, <2>2
<1>2. CsLength \in Nat /\ MaxCost(t) \in Nat \ {0}
  BY TimesTyped, CostBounds
<1>3. \A a, b \in Nat : Max({a, b}) = IF a >= b THEN a ELSE b
  BY DEF Max
<1>4. Max({Scale * Times[t][n], CsLength}) \in Nat
  BY <1>1, <1>2, <1>3
<1> QED
  BY <1>1, <1>2, <1>4 DEF Demand

\* A job uses no more processor time than its execution time, or the critical
\* section's length, and an iteration for each of its loops, however job()
\* divides it and however the tasks are scheduled.
THEOREM JobLengthHolds == Spec => []JobLength
<1>1. JobInv => JobLength
  BY JobsKeepLength
<1> QED
  BY <1>1, JobInvariant, PTL

\* After its last emergency deadline a task uses at most an iteration for each
\* of its loops.
THEOREM StopsLateHolds == Spec => []StopsLate
<1>1. JobInv => StopsLate
  BY DEF JobInv, TaskInv, LateInv, StopsLate
<1> QED
  BY <1>1, JobInvariant, PTL
-------------------------------------------------------------------------------
(* Every record runs *)

\* When the nth job of a task that keeps up begins at the latest: after the
\* records before it and as many periods.
Start(t, n) == Prefix(t, n - 1) + Period[t] * (n - 1)

\* No job but the last overruns its record by more than a period.
KeepsUp(t) ==
    \A n \in 1 .. Len(Times[t]) - 1 :
        Demand(t, Scale * Times[t][n]) <= Times[t][n] + Period[t]

\* A task that nothing delays is not late: a job that has used n ticks began at
\* most n ticks ago, and the next is released no later than it may begin.
PaceInv(t) ==
    /\ pc[t] = "open" => cur[t] = 1 /\ now = 0 /\ next[t] = 0
    /\ pc[t] = "job" /\ cur[t] <= Len(Times[t]) =>
           now <= Start(t, cur[t]) /\ next[t] <= Period[t] * (cur[t] - 1)
    /\ pc[t] \in InJob \ {"asleep"} =>
           /\ now <= Start(t, cur[t]) + work[t]
           /\ next[t] <= Period[t] * (cur[t] - 1)
    /\ pc[t] = "asleep" /\ cur[t] < Len(Times[t]) =>
           now <= Start(t, cur[t] + 1) /\ next[t] <= Period[t] * cur[t]

\* The inductive invariant.
RecordInv ==
    /\ JobInv /\ next \in [Tasks -> Nat]
    /\ \A t \in Files \ delayed : KeepsUp(t) => PaceInv(t)

\* The latest beginnings are a record and a period apart, and the last of them
\* lies before the program's end.
LEMMA StartFacts ==
    ASSUME NEW t \in Files
    PROVE  /\ Len(Times[t]) \in Nat /\ Period[t] \in Nat /\ Start(t, 1) = 0
           /\ \A n \in 1 .. Len(Times[t]) :
                  /\ Start(t, n) \in Nat /\ Start(t, n) <= ProgramEnd(t)
                  /\ Period[t] * (n - 1) \in Nat /\ Period[t] * (n - 1) <= Start(t, n)
           /\ \A n \in 1 .. Len(Times[t]) - 1 :
                  /\ Start(t, n + 1) = Start(t, n) + Times[t][n] + Period[t]
                  /\ Period[t] * n = Period[t] * (n - 1) + Period[t]
<1> DEFINE len == Len(Times[t])
           P(n) == Prefix(t, n)
           Q(n) == Period[t] * n
<1>1. t \in Tasks /\ Period[t] \in Nat
  BY TaskSets, TimesTyped
<1>2. /\ len \in Nat /\ P(0) = 0
      /\ \A n \in 0 .. len : P(n) \in Nat
      /\ \A n \in 1 .. len : Times[t][n] \in Nat /\ P(n) = Times[t][n] + P(n - 1)
  BY <1>1, PrefixFacts
<1>3. /\ Q(0) = 0
      /\ \A n \in Nat : Q(n) \in Nat /\ Q(n + 1) = Q(n) + Period[t]
  <2>1. \A p \in Nat : p * 0 = 0
    OBVIOUS
  <2>2. \A p, n \in Nat : p * n \in Nat /\ p * (n + 1) = p * n + p
    OBVIOUS
  <2> QED
    BY <1>1, <2>1, <2>2
<1>4. \A n : Start(t, n) = P(n - 1) + Q(n - 1)
  BY DEF Start
<1>5. len > 0 => ProgramEnd(t) = P(len) + Q(len - 1)
  <2>1. ProgramEnd(t) = P(len) + (IF len > 1 THEN Q(len - 1) ELSE 0)
    BY <1>1, FoldIsPrefix DEF ProgramEnd
  <2>2. len = 1 => Q(len - 1) = 0
    BY <1>3
  <2> HIDE DEF Q, P, len
  <2> QED
    BY <1>2, <1>3, <2>1, <2>2
<1> HIDE DEF P, Q, len
<1>6. ASSUME NEW n \in 1 .. len
      PROVE  Start(t, n) \in Nat /\ Q(n - 1) \in Nat /\ Q(n - 1) <= Start(t, n)
  <2>1. n - 1 \in Nat /\ n - 1 \in 0 .. len
    BY <1>2
  <2>2. P(n - 1) \in Nat /\ Q(n - 1) \in Nat
    BY <1>2, <1>3, <2>1
  <2> QED
    BY <1>4, <2>2
<1>7. ASSUME NEW n \in 1 .. len - 1
      PROVE  /\ Start(t, n + 1) = Start(t, n) + Times[t][n] + Period[t]
             /\ Q(n) = Q(n - 1) + Period[t]
  <2>1. /\ n \in Nat /\ n - 1 \in Nat /\ (n - 1) + 1 = n /\ (n + 1) - 1 = n
        /\ n \in 1 .. len /\ n - 1 \in 0 .. len
    BY <1>2
  <2>2. Q(n) = Q(n - 1) + Period[t] /\ Q(n - 1) \in Nat
    BY <1>3, <2>1
  <2>3. P(n) = Times[t][n] + P(n - 1) /\ P(n - 1) \in Nat /\ Times[t][n] \in Nat
    BY <1>2, <2>1
  <2>4. Start(t, n + 1) = P(n) + Q(n)
    BY <1>4, <2>1
  <2> QED
    BY <1>1, <1>4, <2>2, <2>3, <2>4
<1>8. ASSUME NEW n \in 1 .. len PROVE Start(t, n) <= ProgramEnd(t)
  <2> DEFINE A == {d \in Nat : d < len => Start(t, len - d) <= ProgramEnd(t)}
  <2>1. ProgramEnd(t) \in Nat
    BY <1>1, EndsBeforeHorizon
  <2>2. 0 \in A
    <3> SUFFICES ASSUME 0 < len PROVE Start(t, len - 0) <= ProgramEnd(t)
      OBVIOUS
    <3>1. len - 0 = len /\ len \in 1 .. len /\ len - 1 \in 0 .. len /\ len - 1 \in Nat
      BY <1>2
    <3>2. /\ P(len) = Times[t][len] + P(len - 1) /\ P(len - 1) \in Nat
          /\ Times[t][len] \in Nat /\ Q(len - 1) \in Nat
      BY <1>2, <1>3, <3>1
    <3>3. Start(t, len) = P(len - 1) + Q(len - 1)
      BY <1>4
    <3>4. Start(t, len) <= ProgramEnd(t)
      BY <1>5, <3>2, <3>3
    <3> QED
      BY <3>1, <3>4
  <2>3. ASSUME NEW d \in Nat, d \in A PROVE d + 1 \in A
    <3> SUFFICES ASSUME d + 1 < len PROVE Start(t, len - (d + 1)) <= ProgramEnd(t)
      OBVIOUS
    <3> DEFINE m == len - (d + 1)
    <3>1. m \in 1 .. len - 1 /\ m \in 1 .. len /\ m + 1 = len - d /\ d < len
      BY <1>2
    <3>2. Start(t, m + 1) = Start(t, m) + Times[t][m] + Period[t]
      BY <1>7, <3>1
    <3>3. Start(t, m) \in Nat /\ Times[t][m] \in Nat
      BY <1>2, <1>6, <3>1
    <3>4. Start(t, m + 1) <= ProgramEnd(t)
      BY <2>3, <3>1
    <3> HIDE DEF m
    <3>5. Start(t, m) <= ProgramEnd(t)
      BY <1>1, <2>1, <3>2, <3>3, <3>4
    <3> QED
      BY <3>5 DEF m
  <2>4. Nat \subseteq A
    <3> HIDE DEF A
    <3> QED
      BY <2>2, <2>3, InductionSet
  <2>5. len - n \in Nat /\ len - n < len /\ len - (len - n) = n
    BY <1>2
  <2> QED
    BY <2>4, <2>5
<1>9. Start(t, 1) = 0
  BY <1>2, <1>3, <1>4
<1>10. \A n \in 1 .. len :
          /\ Start(t, n) \in Nat /\ Start(t, n) <= ProgramEnd(t)
          /\ Period[t] * (n - 1) \in Nat /\ Period[t] * (n - 1) <= Start(t, n)
  BY <1>6, <1>8 DEF Q
<1>11. \A n \in 1 .. len - 1 :
          /\ Start(t, n + 1) = Start(t, n) + Times[t][n] + Period[t]
          /\ Period[t] * n = Period[t] * (n - 1) + Period[t]
  BY <1>7 DEF Q
<1> QED
  BY ONLY <1>1, <1>2, <1>9, <1>10, <1>11, Zenon DEF len

\* The initial state satisfies the inductive invariant.
LEMMA InitRecordInv == Init => RecordInv
<1> SUFFICES ASSUME Init PROVE RecordInv
  OBVIOUS
<1>1. JobInv /\ next \in [Tasks -> Nat]
  BY InitJobInv DEF Init
<1>2. ASSUME NEW t \in Tasks PROVE PaceInv(t)
  <2>1. pc[t] = "open" /\ cur[t] = 1 /\ now = 0 /\ next[t] = 0
    BY DEF Init
  <2> QED
    BY <2>1 DEF PaceInv, InJob, Loops
<1> QED
  BY <1>1, <1>2, TaskSets DEF RecordInv

\* What a task does at one time does not delay another.
LEMMA OthersPace ==
    ASSUME NEW u \in Tasks, PaceInv(u), now' = now, pc'[u] = pc[u],
           cur'[u] = cur[u], work'[u] = work[u], next'[u] = next[u]
    PROVE  PaceInv(u)'
  BY DEF PaceInv

\* The steps of a job from its first loop to its last leave it a job.
LEMMA JobSteps ==
    ASSUME JobInv, NEW t \in Tasks,
           LoopEnd(t) \/ Lock(t) \/ Granted(t) \/ Unlock(t)
    PROVE  /\ pc[t] \in InJob \ {"asleep"} /\ pc' \in [Tasks -> PCs]
           /\ pc'[t] \in InJob \ {"asleep"} /\ \A u \in Tasks \ {t} : pc'[u] = pc[u]
           /\ UNCHANGED <<cur, next, now, work, delayed>>
<1>1. pc \in [Tasks -> PCs]
  BY DEF JobInv, JobTypes
<1>2. \A phase \in Loops : After[phase] \in InJob \ {"asleep"} /\ phase \in InJob \ {"asleep"}
  BY DEF After, Loops, InJob
<1>3. UNCHANGED <<cur, next, now, work, delayed>>
  BY DEF LoopEnd, EndIteration, Lock, Granted, Unlock, history
<1>4. pc[t] \in InJob \ {"asleep"}
  BY DEF LoopEnd, EndIteration, Lock, Granted, Unlock, InJob, Loops
<1>5. \/ pc' = pc
      \/ \E to \in InJob \ {"asleep"} : pc' = [pc EXCEPT ![t] = to]
  <2>1. CASE LoopEnd(t)
    BY <1>2, <2>1 DEF LoopEnd, EndIteration, Goto
  <2>2. CASE Lock(t)
    BY <1>2, <2>2 DEF Lock, LoopFor, Goto, Loops, InJob
  <2>3. CASE Granted(t)
    BY <1>2, <2>3 DEF Granted, LoopFor, Goto, Loops
  <2>4. CASE Unlock(t)
    BY <1>2, <2>4 DEF Unlock, LoopFor, Goto, Loops
  <2> QED
    BY <2>1, <2>2, <2>3, <2>4
<1>6. InJob \subseteq PCs
  BY DEF InJob, PCs, Blocked
<1> QED
  BY <1>1, <1>3, <1>4, <1>5, <1>6

\* A step of a task keeps it on time.
LEMMA TaskRecordInv ==
    ASSUME RecordInv, NEW t \in Tasks, Task(t)
    PROVE  RecordInv'
<1>1. /\ JobInv /\ JobInv' /\ JobTypes /\ next \in [Tasks -> Nat]
      /\ \A u \in Files \ delayed : KeepsUp(u) => PaceInv(u)
  BY TaskJobInv DEF RecordInv, JobInv
<1>2. now' = now /\ delayed' = delayed
  BY DEF Task, OpenLock, StartJob, SkipJob, Finish, LoopEnd, EndIteration, Lock,
         Granted, Unlock, SleepNextPeriod, Release, history
<1>3. pc \in [Tasks -> PCs] /\ cur \in [Tasks -> Nat \ {0}] /\ now \in Nat
      /\ work \in [Tasks -> Nat]
  BY <1>1 DEF JobTypes
<1>4. ASSUME t \in Files, t \notin delayed, KeepsUp(t)
      PROVE  /\ PaceInv(t) /\ Len(Times[t]) \in Nat /\ Period[t] \in Nat
             /\ Start(t, 1) = 0
             /\ \A n \in 1 .. Len(Times[t]) :
                    Start(t, n) \in Nat /\ Start(t, n) <= ProgramEnd(t)
  BY <1>1, <1>4, StartFacts
<1>5. CASE OpenLock(t)
  <2>1. /\ UNCHANGED <<cur, next, work>> /\ pc[t] = "open"
        /\ pc'[t] \in {"job", "done"} /\ \A u \in Tasks \ {t} : pc'[u] = pc[u]
    BY <1>3, <1>5 DEF OpenLock, Goto, history
  <2>2. ASSUME t \in Files, t \notin delayed, KeepsUp(t) PROVE PaceInv(t)'
    <3>1. cur[t] = 1 /\ now = 0 /\ next[t] = 0
      BY <1>4, <2>1, <2>2 DEF PaceInv
    <3>2. Period[t] * (cur[t] - 1) = 0
      BY <1>4, <2>2, <3>1
    <3> QED
      BY <1>2, <1>4, <2>1, <2>2, <3>1, <3>2 DEF PaceInv, InJob, Loops
  <2>3. ASSUME NEW u \in Files \ delayed, u # t, KeepsUp(u) PROVE PaceInv(u)'
    BY <1>1, <1>2, <2>1, <2>3, TaskSets, OthersPace
  <2> QED
    BY <1>1, <1>2, <2>1, <2>2, <2>3 DEF RecordInv, KeepsUp
<1>6. CASE StartJob(t)
  <2>1. /\ UNCHANGED <<cur, next>> /\ pc[t] = "job" /\ work'[t] = 0
        /\ t \in Files => cur[t] <= Len(Times[t])
        /\ \A u \in Tasks \ {t} : work'[u] = work[u]
    BY <1>3, <1>6 DEF StartJob
  <2>2. pc'[t] \in InJob \ {"asleep"} /\ \A u \in Tasks \ {t} : pc'[u] = pc[u]
    BY <1>3, <1>6 DEF StartJob, LoopFor, Goto, After, InJob, Loops
  <2>3. ASSUME t \in Files, t \notin delayed, KeepsUp(t) PROVE PaceInv(t)'
    <3>1. now <= Start(t, cur[t]) /\ next[t] <= Period[t] * (cur[t] - 1)
      BY <1>4, <2>1, <2>3 DEF PaceInv
    <3>2. Start(t, cur[t]) \in Nat
      BY <1>3, <1>4, <2>1, <2>3
    <3>3. now <= Start(t, cur[t]) + 0
      BY <1>3, <3>1, <3>2
    <3> QED
      BY <1>2, <2>1, <2>2, <3>1, <3>3 DEF PaceInv, InJob, Loops
  <2>4. ASSUME NEW u \in Files \ delayed, u # t, KeepsUp(u) PROVE PaceInv(u)'
    BY <1>1, <1>2, <2>1, <2>2, <2>4, TaskSets, OthersPace
  <2> QED
    BY <1>1, <1>2, <2>1, <2>3, <2>4 DEF RecordInv, KeepsUp
<1>7. CASE SkipJob(t)
  <2>1. /\ UNCHANGED <<next, work>> /\ pc[t] = "job" /\ now > ProgramEnd(t)
        /\ t \in Files => cur[t] <= Len(Times[t])
        /\ \A u \in Tasks \ {t} : pc'[u] = pc[u] /\ cur'[u] = cur[u]
    BY <1>3, <1>7 DEF SkipJob, Goto, history
  <2>2. ASSUME t \in Files, t \notin delayed, KeepsUp(t) PROVE FALSE
    <3>1. cur[t] \in 1 .. Len(Times[t]) /\ now <= Start(t, cur[t])
      BY <1>3, <1>4, <2>1, <2>2 DEF PaceInv
    <3>2. Start(t, cur[t]) \in Nat /\ Start(t, cur[t]) <= ProgramEnd(t)
      BY <1>4, <2>2, <3>1
    <3>3. ProgramEnd(t) \in Nat
      BY EndsBeforeHorizon
    <3> QED
      BY <1>3, <2>1, <3>1, <3>2, <3>3
  <2>3. ASSUME NEW u \in Files \ delayed, u # t, KeepsUp(u) PROVE PaceInv(u)'
    BY <1>1, <1>2, <2>1, <2>3, TaskSets, OthersPace
  <2> QED
    BY <1>1, <1>2, <2>1, <2>2, <2>3 DEF RecordInv, KeepsUp
<1>8. CASE Finish(t)
  <2>1. /\ UNCHANGED <<cur, next, work>> /\ pc'[t] = "done"
        /\ \A u \in Tasks \ {t} : pc'[u] = pc[u]
    BY <1>3, <1>8 DEF Finish, Goto, history
  <2>2. PaceInv(t)'
    BY <2>1 DEF PaceInv, InJob, Loops
  <2>3. ASSUME NEW u \in Files \ delayed, u # t, KeepsUp(u) PROVE PaceInv(u)'
    BY <1>1, <1>2, <2>1, <2>3, TaskSets, OthersPace
  <2> QED
    BY <1>1, <1>2, <2>1, <2>2, <2>3 DEF RecordInv, KeepsUp
<1>9. CASE LoopEnd(t) \/ Lock(t) \/ Granted(t) \/ Unlock(t)
  <2>1. /\ pc[t] \in InJob \ {"asleep"} /\ pc'[t] \in InJob \ {"asleep"}
        /\ \A u \in Tasks \ {t} : pc'[u] = pc[u]
        /\ UNCHANGED <<cur, next, work>>
    BY <1>1, <1>9, JobSteps
  <2>2. ASSUME t \in Files, t \notin delayed, KeepsUp(t) PROVE PaceInv(t)'
    BY <1>2, <1>4, <2>1, <2>2 DEF PaceInv, InJob, Loops
  <2>3. ASSUME NEW u \in Files \ delayed, u # t, KeepsUp(u) PROVE PaceInv(u)'
    BY <1>1, <1>2, <2>1, <2>3, TaskSets, OthersPace
  <2> QED
    BY <1>1, <1>2, <2>1, <2>2, <2>3 DEF RecordInv, KeepsUp
<1>10. CASE SleepNextPeriod(t)
  <2>1. /\ UNCHANGED <<cur, work>> /\ pc[t] = "sleep" /\ pc'[t] = "asleep"
        /\ next' = [next EXCEPT ![t] = Min({next[t] + Period[t], Horizon})]
        /\ \A u \in Tasks \ {t} : pc'[u] = pc[u] /\ next'[u] = next[u]
    BY <1>1, <1>3, <1>10 DEF SleepNextPeriod, Goto, history
  <2>2. next'[t] \in Nat /\ next'[t] <= next[t] + Period[t] /\ next' \in [Tasks -> Nat]
    <3>1. \A a, b \in Nat : Min({a, b}) = IF a <= b THEN a ELSE b
      BY DEF Min
    <3>2. next[t] \in Nat /\ Period[t] \in Nat /\ Horizon \in Nat
      BY <1>1, TimesTyped, EndsBeforeHorizon
    <3>3. next[t] + Period[t] \in Nat
      BY <3>2
    <3>4. next'[t] = Min({next[t] + Period[t], Horizon})
      BY <1>1, <2>1
    <3>5. next'[t] = IF next[t] + Period[t] <= Horizon THEN next[t] + Period[t]
                                                       ELSE Horizon
      BY <3>1, <3>2, <3>3, <3>4
    <3>6. next'[t] \in Nat /\ next'[t] <= next[t] + Period[t]
      BY <3>2, <3>3, <3>5
    <3> QED
      BY <1>1, <2>1, <3>4, <3>6
  <2>3. ASSUME t \in Files, t \notin delayed, KeepsUp(t) PROVE PaceInv(t)'
    <3> SUFFICES ASSUME cur[t] < Len(Times[t])
                 PROVE  /\ now <= Start(t, cur[t] + 1)
                        /\ next'[t] <= Period[t] * cur[t]
      BY <1>2, <2>1 DEF PaceInv, InJob, Loops
    <3> DEFINE n == cur[t]
    <3>1. n \in 1 .. Len(Times[t]) - 1 /\ n \in 1 .. Len(Times[t])
      BY <1>3, <1>4, <2>3
    <3>2. now <= Start(t, n) + work[t] /\ next[t] <= Period[t] * (n - 1)
      BY <1>4, <2>1, <2>3 DEF PaceInv, InJob
    <3>3. work[t] <= Demand(t, Scale * Times[t][n])
      <4>1. JobLength
        BY <1>1, JobsKeepLength
      <4> QED
        BY <2>1, <2>3, <4>1 DEF JobLength, ExecTime
    <3>4. Demand(t, Scale * Times[t][n]) <= Times[t][n] + Period[t]
      BY <2>3, <3>1 DEF KeepsUp
    <3>5. /\ Start(t, n + 1) = Start(t, n) + Times[t][n] + Period[t]
          /\ Period[t] * n = Period[t] * (n - 1) + Period[t]
          /\ Start(t, n) \in Nat /\ Period[t] * (n - 1) \in Nat
      BY <2>3, <3>1, StartFacts
    <3>6. /\ Demand(t, Scale * Times[t][n]) \in Int /\ Times[t][n] \in Nat
          /\ Period[t] \in Nat /\ next[t] \in Nat /\ work[t] \in Nat
      BY <1>1, <1>3, <2>3, <3>1, DemandType, PrefixFacts, TimesTyped
    <3> HIDE DEF n
    <3>7. now <= Start(t, n + 1)
      <4> DEFINE d == Demand(t, Scale * Times[t][n])
                 s == Start(t, n)
                 e == Times[t][n]
      <4>1. /\ d \in Int /\ s \in Nat /\ e \in Nat /\ Period[t] \in Nat
            /\ work[t] \in Nat /\ now \in Nat /\ now <= s + work[t]
            /\ work[t] <= d /\ d <= e + Period[t]
            /\ Start(t, n + 1) = s + e + Period[t]
        BY <1>3, <3>2, <3>3, <3>4, <3>5, <3>6
      <4> HIDE DEF d, s, e
      <4> QED
        BY ONLY <4>1
    <3>8. next'[t] <= Period[t] * n
      BY <2>2, <3>2, <3>5, <3>6
    <3> QED
      BY <3>7, <3>8 DEF n
  <2>4. ASSUME NEW u \in Files \ delayed, u # t, KeepsUp(u) PROVE PaceInv(u)'
    BY <1>1, <1>2, <2>1, <2>4, TaskSets, OthersPace
  <2> QED
    BY <1>1, <1>2, <2>1, <2>2, <2>3, <2>4 DEF RecordInv, KeepsUp
<1>11. CASE Release(t)
  <2>1. /\ UNCHANGED <<next, work>> /\ pc[t] = "asleep" /\ pc'[t] = "job"
        /\ t \in Files => cur'[t] = cur[t] + 1
        /\ \A u \in Tasks \ {t} : pc'[u] = pc[u] /\ cur'[u] = cur[u]
    BY <1>3, <1>11 DEF Release, Goto, history
  <2>2. ASSUME t \in Files, t \notin delayed, KeepsUp(t) PROVE PaceInv(t)'
    <3>1. cur[t] \in Nat /\ cur'[t] = cur[t] + 1 /\ cur'[t] - 1 = cur[t]
      BY <1>3, <2>1, <2>2
    <3>2. cur'[t] <= Len(Times[t]) => cur[t] < Len(Times[t])
      BY <1>4, <2>2, <3>1
    <3>3. cur'[t] <= Len(Times[t]) =>
              now <= Start(t, cur'[t]) /\ next[t] <= Period[t] * (cur'[t] - 1)
      BY <1>4, <2>1, <2>2, <3>1, <3>2 DEF PaceInv
    <3> QED
      BY <1>2, <2>1, <3>3 DEF PaceInv, InJob, Loops
  <2>3. ASSUME NEW u \in Files \ delayed, u # t, KeepsUp(u) PROVE PaceInv(u)'
    BY <1>1, <1>2, <2>1, <2>3, TaskSets, OthersPace
  <2> QED
    BY <1>1, <1>2, <2>1, <2>2, <2>3 DEF RecordInv, KeepsUp
<1> QED
  BY <1>5, <1>6, <1>7, <1>8, <1>9, <1>10, <1>11 DEF Task

\* A tick: a task that is not delayed spins in it or sleeps.
LEMMA TickRecordInv ==
    ASSUME RecordInv, NEW S \in SUBSET Tasks, Tick(S)
    PROVE  RecordInv'
<1>1. /\ JobInv /\ JobInv' /\ JobTypes /\ next \in [Tasks -> Nat]
      /\ \A t \in Files \ delayed : KeepsUp(t) => PaceInv(t)
  BY TickJobInv DEF RecordInv, JobInv
<1>2. /\ pc \in [Tasks -> PCs] /\ cur \in [Tasks -> Nat \ {0}] /\ now \in Nat
      /\ work \in [Tasks -> Nat]
  BY <1>1 DEF JobTypes
<1>3. /\ UNCHANGED <<pc, cur, next>> /\ now' = Min({now + 1, Horizon})
      /\ S \subseteq Spinning
      /\ work' = [t \in Tasks |-> IF t \in S THEN work[t] + 1 ELSE work[t]]
      /\ delayed' = delayed \cup (Spinning \ S) \cup Ready
                        \cup {t \in Tasks : pc[t] = "blocked"}
  BY DEF Tick
<1>4. now' \in Nat /\ now' <= now + 1
  <2>1. \A a, b \in Nat : Min({a, b}) = IF a <= b THEN a ELSE b
    BY DEF Min
  <2>2. Horizon \in Nat /\ now + 1 \in Nat
    BY <1>2, EndsBeforeHorizon
  <2>3. now' = IF now + 1 <= Horizon THEN now + 1 ELSE Horizon
    BY <1>3, <2>1, <2>2
  <2> QED
    BY <1>2, <2>2, <2>3
<1>5. ASSUME NEW t \in Files \ delayed', KeepsUp(t) PROVE PaceInv(t)'
  <2>1. t \in Tasks /\ t \in Files \ delayed /\ PaceInv(t)
    BY <1>1, <1>3, <1>5, TaskSets
  <2>2. \/ pc[t] \in Loops /\ t \in S
        \/ pc[t] = "asleep" /\ ~(now >= next[t])
        \/ pc[t] = "done"
    BY <1>3, <1>5, <2>1 DEF Ready, Blocked, Spinning
  <2>3. CASE pc[t] \in Loops /\ t \in S
    <3>1. work'[t] = work[t] + 1 /\ work[t] \in Nat
      BY <1>2, <1>3, <2>1, <2>3
    <3>2. now <= Start(t, cur[t]) + work[t] /\ next[t] <= Period[t] * (cur[t] - 1)
      BY <2>1, <2>3 DEF PaceInv, InJob, Loops
    <3>3. Start(t, cur[t]) \in Nat
      <4>1. pc[t] \in InJob
        BY <2>3 DEF InJob
      <4>2. cur[t] <= Len(Times[t])
        BY <1>1, <2>1, <4>1 DEF JobInv, TaskInv, WhereInv
      <4>3. Len(Times[t]) \in Nat
        BY <2>1, StartFacts
      <4>4. cur[t] \in 1 .. Len(Times[t])
        BY <1>2, <2>1, <4>2, <4>3
      <4> QED
        BY <2>1, <4>4, StartFacts
    <3>4. now' <= Start(t, cur[t]) + work'[t]
      BY <1>2, <1>4, <3>1, <3>2, <3>3
    <3> QED
      BY <1>3, <2>3, <3>2, <3>4 DEF PaceInv, Loops
  <2>4. CASE pc[t] = "asleep" /\ ~(now >= next[t])
    <3> SUFFICES ASSUME cur[t] < Len(Times[t])
                 PROVE  /\ now' <= Start(t, cur[t] + 1)
                        /\ next[t] <= Period[t] * cur[t]
      BY <1>3, <2>4 DEF PaceInv, InJob, Loops
    <3>1. next[t] <= Period[t] * cur[t]
      BY <2>1, <2>4 DEF PaceInv
    <3>2. Len(Times[t]) \in Nat /\ cur[t] \in Nat \ {0}
      BY <1>2, <2>1, StartFacts
    <3>3. cur[t] + 1 \in 1 .. Len(Times[t]) /\ (cur[t] + 1) - 1 = cur[t]
      BY <3>2
    <3>4. /\ Start(t, cur[t] + 1) \in Nat /\ Period[t] * ((cur[t] + 1) - 1) \in Nat
          /\ Period[t] * ((cur[t] + 1) - 1) <= Start(t, cur[t] + 1)
      BY <2>1, <3>3, StartFacts
    <3>5. Period[t] * cur[t] \in Nat /\ Period[t] * cur[t] <= Start(t, cur[t] + 1)
      BY <3>3, <3>4
    <3>6. next[t] \in Nat /\ now + 1 <= next[t]
      BY <1>1, <1>2, <2>1, <2>4
    <3>7. now' <= Start(t, cur[t] + 1)
      BY <1>2, <1>4, <3>1, <3>4, <3>5, <3>6
    <3> QED
      BY <3>1, <3>7
  <2>5. CASE pc[t] = "done"
    BY <1>3, <2>5 DEF PaceInv, InJob, Loops
  <2> QED
    BY <2>2, <2>3, <2>4, <2>5
<1> QED
  BY <1>1, <1>3, <1>5 DEF RecordInv, KeepsUp

\* Every step keeps the invariant.
LEMMA NextRecordInv == RecordInv /\ [Next]_vars => RecordInv'
<1> SUFFICES ASSUME RecordInv, [Next]_vars PROVE RecordInv'
  OBVIOUS
<1>1. CASE UNCHANGED vars
  <2>1. JobInv'
    BY NextJobInv DEF RecordInv
  <2>2. ASSUME NEW t \in Files \ delayed, KeepsUp(t) PROVE PaceInv(t)'
    BY <1>1, <2>2, TaskSets, OthersPace DEF vars, history, RecordInv
  <2> QED
    BY <1>1, <2>1, <2>2 DEF vars, history, RecordInv, KeepsUp
<1> QED
  BY <1>1, TaskRecordInv, TickRecordInv DEF Next

\* rtspin -f executes every record: a task that nothing delays and whose jobs
\* keep up never finds its program's end passed while records are left, for any
\* records, periods and schedules.
THEOREM EveryRecordRunsHolds == Spec => []EveryRecordRuns
<1>1. ASSUME RecordInv PROVE EveryRecordRuns
  <2> SUFFICES ASSUME NEW t \in Files \ delayed, pc[t] = "job",
                      cur[t] <= Len(Times[t]), KeepsUp(t)
               PROVE  now <= ProgramEnd(t)
    BY DEF EveryRecordRuns, KeepsUp
  <2>1. PaceInv(t) /\ t \in Tasks /\ now \in Nat /\ cur[t] \in Nat \ {0}
    BY <1>1, TaskSets DEF RecordInv, JobInv, JobTypes
  <2>2. cur[t] \in 1 .. Len(Times[t]) /\ now <= Start(t, cur[t])
    BY <2>1, StartFacts DEF PaceInv
  <2>3. /\ Start(t, cur[t]) \in Nat /\ Start(t, cur[t]) <= ProgramEnd(t)
        /\ ProgramEnd(t) \in Nat
    BY <2>1, <2>2, StartFacts, EndsBeforeHorizon
  <2> QED
    BY <2>1, <2>2, <2>3
<1>2. RecordInv => EveryRecordRuns
  BY <1>1
<1>3. Spec => []RecordInv
  BY InitRecordInv, NextRecordInv, PTL DEF Spec
<1> QED
  BY <1>2, <1>3, PTL
===============================================================================
