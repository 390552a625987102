--------------------------- MODULE SkeletonsProofs ---------------------------
(***************************************************************************)
(* Proofs about Skeletons, for any number of threads, any results of       *)
(* job() and any failures.                                                 *)
(***************************************************************************)
EXTENDS Skeletons, TLAPS

\* Between the two system calls of task_mode() the class that was read is the
\* thread's class, unless another process has changed it.
ReadInv ==
    \A t \in Threads : pc[t] \in {"entering", "leaving"} /\ t \notin meddled =>
        old[t] = policy[t]

\* main() has joined the threads before its index; none is created any more.
JoinInv ==
    main.pc = "join" => \A t \in Threads : t < main.i => pc[t] \in Over

\* The inductive invariant.
SkInv ==
    /\ TypeOK /\ ReadInv /\ JoinInv
    /\ ModeAsAsked /\ Paced /\ FrameOutlivesThreads

\* The initial state satisfies the inductive invariant.
LEMMA InitSkInv == Init => SkInv
  BY NumThreadsNat
     DEF Init, SkInv, TypeOK, ReadInv, JoinInv, ModeAsAsked, Paced,
         FrameOutlivesThreads, Threads, Policies, Over, Loop

\* The steps of main() keep it: the first join that is not over stops the loop.
LEMMA MainSkInv ==
    ASSUME SkInv, Main
    PROVE  SkInv'
<1> USE NumThreadsNat DEF SkInv, kernel, Threads, Over, Loop
<1>1. CASE Create
  <2>1. TypeOK'
    <3>1. main.i \in 1 .. NumThreads /\ main'.i = main.i + 1 /\ main'.pc = main.pc
      BY <1>1 DEF Create, TypeOK
    <3>2. main' \in [pc : {"create", "join", "exit"}, i : 1 .. NumThreads + 1]
      BY <1>1, <3>1 DEF Create, TypeOK
    <3>3. pc' \in [Threads -> Over \cup Loop
                       \cup {"params", "enter", "entering", "leave", "leaving"}]
      BY <1>1 DEF Create, TypeOK
    <3> QED
      BY <1>1, <3>2, <3>3 DEF Create, TypeOK
  <2>2. ReadInv' /\ ModeAsAsked' /\ Paced'
    BY <1>1 DEF Create, TypeOK, ReadInv, ModeAsAsked, Paced
  <2>3. JoinInv' /\ FrameOutlivesThreads'
    BY <1>1 DEF Create, TypeOK, JoinInv, FrameOutlivesThreads
  <2> QED
    BY <2>1, <2>2, <2>3
<1>2. CASE CreateEnd
  <2>1. TypeOK'
    BY <1>2 DEF CreateEnd, TypeOK
  <2>2. ReadInv' /\ ModeAsAsked' /\ Paced'
    BY <1>2 DEF CreateEnd, ReadInv, ModeAsAsked, Paced
  <2>3. JoinInv' /\ FrameOutlivesThreads'
    BY <1>2 DEF CreateEnd, TypeOK, JoinInv, FrameOutlivesThreads
  <2> QED
    BY <2>1, <2>2, <2>3
<1>3. CASE Join
  <2>1. TypeOK'
    <3>1. main.i \in 1 .. NumThreads
      BY <1>3 DEF Join, TypeOK
    <3>2. main' \in [pc : {"create", "join", "exit"}, i : 1 .. NumThreads + 1]
      <4>1. main.i + 1 \in 1 .. NumThreads + 1
        BY <3>1
      <4>2. CASE main' = [main EXCEPT !.i = main.i + 1]
        BY <4>1, <4>2 DEF TypeOK
      <4>3. CASE main' = [main EXCEPT !.pc = "exit"]
        BY <4>3 DEF TypeOK
      <4> QED
        BY <1>3, <4>2, <4>3 DEF Join
    <3>3. pc' \in [Threads -> Over \cup Loop
                       \cup {"params", "enter", "entering", "leave", "leaving"}]
      BY <1>3 DEF Join, TypeOK
    <3> QED
      BY <1>3, <3>2, <3>3 DEF Join, TypeOK
  <2>2. ReadInv' /\ ModeAsAsked' /\ Paced'
    BY <1>3 DEF Join, TypeOK, ReadInv, ModeAsAsked, Paced
  <2>3. CASE pc[main.i] \in Over /\ main' = [main EXCEPT !.i = @ + 1] /\ pc' = pc
    <3>1. main'.pc = "join" /\ main'.i = main.i + 1 /\ main.i \in 1 .. NumThreads
      BY <1>3, <2>3 DEF Join, TypeOK
    <3>2. \A t \in Threads : t < main.i + 1 => t < main.i \/ t = main.i
      BY <3>1
    <3>3. JoinInv'
      BY <1>3, <2>3, <3>1, <3>2 DEF Join, JoinInv
    <3> QED
      BY <2>1, <2>2, <3>1, <3>3 DEF FrameOutlivesThreads
  <2>4. CASE /\ main' = [main EXCEPT !.pc = "exit"]
             /\ pc' = [t \in Threads |-> IF pc[t] \in Over THEN pc[t] ELSE "killed"]
    <3>1. main'.pc = "exit"
      BY <2>4 DEF TypeOK
    <3>2. JoinInv' /\ FrameOutlivesThreads'
      BY <2>4, <3>1 DEF JoinInv, FrameOutlivesThreads
    <3> QED
      BY <2>1, <2>2, <3>2
  <2> QED
    BY <1>3, <2>3, <2>4 DEF Join
<1>4. CASE Exit
  <2>1. TypeOK'
    BY <1>4 DEF Exit, TypeOK
  <2>2. ReadInv' /\ ModeAsAsked' /\ Paced'
    BY <1>4 DEF Exit, ReadInv, ModeAsAsked, Paced
  <2>3. JoinInv' /\ FrameOutlivesThreads'
    BY <1>4 DEF Exit, JoinedAll, TypeOK, JoinInv, FrameOutlivesThreads
  <2> QED
    BY <2>1, <2>2, <2>3
<1> QED
  BY <1>1, <1>2, <1>3, <1>4 DEF Main

\* A step of one thread, or of another process, changes nothing of main() and
\* takes no thread out of its last state: what is left is about the thread.
LEMMA ThreadSkInv ==
    ASSUME NEW t \in Threads, SkInv, Thread(t)
    PROVE  SkInv'
<1> USE NumThreadsNat DEF SkInv, Goto, Over, Loop, Policies
<1>1. CASE SetParams(t)
  BY <1>1 DEF SetParams, TypeOK, ReadInv, JoinInv, ModeAsAsked, Paced,
              FrameOutlivesThreads
<1>2. CASE EnterRead(t)
  BY <1>2 DEF EnterRead, Read, TypeOK, ReadInv, JoinInv, ModeAsAsked, Paced,
              FrameOutlivesThreads
<1>3. CASE EnterSet(t)
  BY <1>3 DEF EnterSet, Set, Mode, ClassOf, Admits, TypeOK, ReadInv, JoinInv,
              ModeAsAsked, Paced, FrameOutlivesThreads
<1>4. CASE SleepNextPeriod(t)
  BY <1>4 DEF SleepNextPeriod, TypeOK, ReadInv, JoinInv, ModeAsAsked, Paced,
              FrameOutlivesThreads
<1>5. CASE Release(t)
  BY <1>5 DEF Release, TypeOK, ReadInv, JoinInv, ModeAsAsked, Paced,
              FrameOutlivesThreads
<1>6. CASE Job(t)
  BY <1>6 DEF Job, TypeOK, ReadInv, JoinInv, ModeAsAsked, Paced,
              FrameOutlivesThreads
<1>7. CASE LeaveRead(t)
  BY <1>7 DEF LeaveRead, Read, TypeOK, ReadInv, JoinInv, ModeAsAsked, Paced,
              FrameOutlivesThreads
<1>8. CASE LeaveSet(t)
  BY <1>8 DEF LeaveSet, Set, Mode, ClassOf, Admits, TypeOK, ReadInv, JoinInv,
              ModeAsAsked, Paced, FrameOutlivesThreads
<1> QED
  BY <1>1, <1>2, <1>3, <1>4, <1>5, <1>6, <1>7, <1>8 DEF Thread

\* Another process changes a thread's class or parameters.
LEMMA OtherSkInv ==
    ASSUME NEW t \in Threads, SkInv,
           OtherSetsParams(t) \/ \E p \in Policies : OtherSets(t, p)
    PROVE  SkInv'
  BY DEF OtherSetsParams, OtherSets, SkInv, TypeOK, ReadInv, JoinInv,
         ModeAsAsked, Paced, FrameOutlivesThreads

\* Every step keeps the invariant.
LEMMA NextSkInv == SkInv /\ [Next]_vars => SkInv'
<1> SUFFICES ASSUME SkInv, [Next]_vars PROVE SkInv'
  OBVIOUS
<1>1. CASE UNCHANGED vars
  BY <1>1 DEF vars, SkInv, TypeOK, ReadInv, JoinInv, ModeAsAsked, Paced,
              FrameOutlivesThreads
<1> QED
  BY <1>1, MainSkInv, ThreadSkInv, OtherSkInv DEF Next

\* The invariant of the example programs over task_mode(), for any number of
\* threads.
THEOREM SkeletonsInvariant == Spec => []SkInv
  BY InitSkInv, NextSkInv, PTL DEF Spec

\* task_mode() leaves the thread in the mode it asked for, whatever others do
\* between its two system calls.
THEOREM ModeAsAskedHolds == Spec => []ModeAsAsked
<1>1. SkInv => ModeAsAsked
  BY DEF SkInv
<1> QED
  BY <1>1, SkeletonsInvariant, PTL

\* A job without a release has a failed task_mode() or another process behind
\* it.
THEOREM PacedHolds == Spec => []Paced
<1>1. SkInv => Paced
  BY DEF SkInv
<1> QED
  BY <1>1, SkeletonsInvariant, PTL

\* main() outlives its threads, whichever could not be created.
THEOREM FrameOutlivesThreadsHolds == Spec => []FrameOutlivesThreads
<1>1. SkInv => FrameOutlivesThreads
  BY DEF SkInv
<1> QED
  BY <1>1, SkeletonsInvariant, PTL
===============================================================================
