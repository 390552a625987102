-------------------------- MODULE ControlPageProofs --------------------------
(***************************************************************************)
(* Proofs about ControlPage, for any set of threads, any nesting bound,    *)
(* any mapping failures and both layouts of the np word.                   *)
(***************************************************************************)
EXTENDS ControlPage, TLAPS

\* What a step of thread t leaves alone: the state of every other thread.
Others(t) ==
    \A u \in Threads \ {t} :
        /\ ctrl_page'[u] = ctrl_page[u]
        /\ np'[u] = np[u]
        /\ reg'[u] = reg[u]
        /\ pc'[u] = pc[u]
        /\ deferred'[u] = deferred[u]
        /\ raced'[u] = raced[u]
        /\ section'[u] = section[u]
        /\ missed'[u] = missed[u]
        /\ polled'[u] = polled[u]

\* A step of the running thread, or of the kernel on its behalf, cannot disturb
\* another thread's invariant, even when it hands over the processor.
LEMMA OthersKept ==
    ASSUME NEW t \in Threads, NEW u \in Threads \ {t},
           IInv, Others(t), running = t
    PROVE  ThreadInv(u)'
<1>1. ThreadInv(u) /\ ~deferred[u]
  BY DEF IInv, ThreadInv, RequestInv
<1>2. /\ ctrl_page'[u] = ctrl_page[u] /\ np'[u] = np[u] /\ reg'[u] = reg[u]
      /\ pc'[u] = pc[u] /\ deferred'[u] = deferred[u]
      /\ section'[u] = section[u] /\ missed'[u] = missed[u]
      /\ polled'[u] = polled[u] /\ raced'[u] = raced[u]
  BY DEF Others
<1> QED
  BY <1>1, <1>2 DEF ThreadInv, PointerInv, CountInv, RegInv, RequestInv,
                    KeptInv, Kept, Counting, Closing, Open

\* The initial state satisfies the inductive invariant.
LEMMA InitIInv == Init => IInv
<1> SUFFICES ASSUME Init PROVE IInv
  OBVIOUS
<1>1. TypeOK
  BY MaxNestPositive DEF Init, TypeOK, Word, ZeroWord, Pointers, PCs
<1>2. ASSUME NEW t \in Threads PROVE ThreadInv(t)
  BY DEF Init, ZeroWord, ThreadInv, PointerInv, CountInv, RegInv, RequestInv,
         KeptInv, Kept, Counting, Closing, Open
<1> QED
  BY <1>1, <1>2 DEF IInv

\* Every library call of the running thread keeps the invariant.
LEMMA CallIInv ==
    ASSUME NEW t \in Threads, IInv, Call(t)
    PROVE  IInv'
<1> USE MapErrorsKnown, MaxNestPositive
<1>0. TypeOK /\ ThreadInv(t) /\ running = t
  BY DEF IInv, Call, InitKernelIface, EnterNp, EnterNpUnmapped, ExitNp,
         RequestedToPreempt, GetCtrlPage, DereferenceMapFailed, At
<1>1. TypeOK' /\ Others(t) /\ ThreadInv(t)'
  <2>1. CASE InitKernelIface(t)
    BY <1>0, <2>1 DEF InitKernelIface, TypeOK, Others, ThreadInv, PointerInv, CountInv,
         RegInv, RequestInv, KeptInv, Kept, Counting, Closing, Open, At, AssignCtrlPage,
         MapFile, Outcomes, Pointers, Word, PCs, kernVars, progVars
  <2>2. CASE EnterNp(t)
    BY <1>0, <2>2 DEF EnterNp, Goto, TypeOK, Others, ThreadInv, PointerInv, CountInv,
         RegInv, RequestInv, KeptInv, Kept, Counting, Closing, Open, At, AssignCtrlPage,
         MapFile, Pointers, Word, PCs, kernVars, progVars
  <2>3. CASE EnterNpUnmapped(t)
    BY <1>0, <2>3 DEF EnterNpUnmapped, CountSection, TypeOK, Others, ThreadInv, PointerInv,
         CountInv, RegInv, RequestInv, KeptInv, Kept, Counting, Closing, Open, At,
         AssignCtrlPage, MapFile, Pointers, Word, PCs, kernVars
  <2>4. CASE ExitNp(t)
    <3>1. /\ UNCHANGED <<layout, ctrl_page, np, reg, running, deferred, raced,
                         polled>>
          /\ section' = [section EXCEPT ![t] = IF @ > 0 THEN @ - 1 ELSE 0]
          /\ missed' = [missed EXCEPT ![t] = IF section[t] > 1 THEN @ ELSE FALSE]
          /\ pc[t] = "user" /\ ctrl_page[t] # "MAP_FAILED"
      BY <2>4 DEF ExitNp, CloseSection, At, kernVars
    <3>2. TypeOK' /\ Others(t)
      <4>1. section' \in [Threads -> 0..MaxNest]
        BY <1>0, <3>1 DEF TypeOK
      <4>2. missed' \in [Threads -> BOOLEAN]
        <5>1. CASE section[t] > 1
          BY <1>0, <3>1, <5>1 DEF TypeOK
        <5>2. CASE ~(section[t] > 1)
          BY <1>0, <3>1, <5>2 DEF TypeOK
        <5> QED
          BY <5>1, <5>2
      <4>3. pc' \in [Threads -> PCs]
        BY <1>0, <2>4 DEF ExitNp, Goto, TypeOK, PCs
      <4>4. Others(t)
        BY <1>0, <2>4, <3>1 DEF ExitNp, Goto, TypeOK, Others
      <4> QED
        BY <1>0, <3>1, <4>1, <4>2, <4>3, <4>4 DEF TypeOK
    <3>3. CASE ctrl_page[t] = "page" /\ np[t].flag # 0
      <4>1. pc' = [pc EXCEPT ![t] = "exit_load"]
        BY <2>4, <3>3 DEF ExitNp, Goto
      <4>2. /\ pc'[t] = "exit_load" /\ np[t].flag \in 1..MaxNest
            /\ section[t] \in Nat /\ np[t].flag <= section[t]
            /\ section'[t] = section[t] - 1
        BY <1>0, <3>1, <3>3, <4>1
           DEF TypeOK, Word, ThreadInv, CountInv, Open, Closing
      <4>3. CountInv(t)'
        BY <1>0, <3>1, <4>2 DEF TypeOK, ThreadInv, CountInv, Open, Closing
      <4> QED
        BY <1>0, <3>1, <3>2, <3>3, <4>2, <4>3
           DEF ThreadInv, PointerInv, RegInv, RequestInv, KeptInv,
               Kept, Counting
    <3>4. CASE ctrl_page[t] = "NULL" \/ np[t].flag = 0
      <4>1. pc' = pc /\ np[t].flag = 0
        BY <1>0, <2>4, <3>4 DEF ExitNp, ThreadInv, PointerInv
      <4>2. /\ section[t] \in Nat
            /\ section'[t] = IF section[t] > 0 THEN section[t] - 1 ELSE 0
            /\ missed'[t] = IF section[t] > 1 THEN missed[t] ELSE FALSE
        BY <1>0, <3>1 DEF TypeOK
      <4>3. CASE section[t] > 1
        BY <1>0, <3>1, <3>2, <4>1, <4>2, <4>3
           DEF ThreadInv, PointerInv, CountInv, RegInv, RequestInv, KeptInv,
               Kept, Counting, Open, Closing
      <4>4. CASE ~(section[t] > 1)
        <5>1. section'[t] = 0 /\ missed'[t] = FALSE
          BY <4>2, <4>4
        <5>2. CountInv(t)'
          BY <3>1, <4>1, <5>1 DEF CountInv, Open, Closing
        <5> QED
          BY <1>0, <3>1, <3>2, <4>1, <5>2
             DEF ThreadInv, PointerInv, RegInv, RequestInv, KeptInv,
               Kept, Counting
      <4> QED
        BY <4>3, <4>4
    <3> QED
      BY <1>0, <3>1, <3>3, <3>4 DEF TypeOK, Pointers
  <2>5. CASE RequestedToPreempt(t)
    BY <1>0, <2>5 DEF RequestedToPreempt, TypeOK, Others, ThreadInv, PointerInv, CountInv,
         RegInv, RequestInv, KeptInv, Kept, Counting, Closing, Open, At, Word, libVars, kernVars
  <2>6. CASE GetCtrlPage(t)
    BY <1>0, <2>6 DEF GetCtrlPage, TypeOK, Others, ThreadInv, PointerInv, CountInv,
         RegInv, RequestInv, KeptInv, Kept, Counting, Closing, Open, At, AssignCtrlPage,
         MapFile, Outcomes, Pointers, Word, PCs, kernVars, progVars
  <2>7. CASE DereferenceMapFailed(t)
    BY <1>0, <2>7 DEF DereferenceMapFailed, Crash, Goto, TypeOK, Others, ThreadInv,
         PointerInv, CountInv, RegInv, RequestInv, KeptInv, Kept, Counting, Closing, Open, At,
         Word, PCs, kernVars, progVars
  <2> QED
    BY <2>1, <2>2, <2>3, <2>4, <2>5, <2>6, <2>7 DEF Call
<1> QED
  BY <1>0, <1>1, OthersKept DEF IInv

\* So does every machine step inside the library, however the kernel's
\* interrupts fall between the load and the store of a count.
LEMMA LibStepIInv ==
    ASSUME NEW t \in Threads, IInv, LibStep(t)
    PROVE  IInv'
<1> USE MaxNestPositive
<1>0. TypeOK /\ ThreadInv(t) /\ running = t
  BY DEF IInv, LibStep, EnterLoad, EnterStore, ExitLoad, ExitStore, ExitTest,
         SchedYield, Load, At
<1>1. TypeOK' /\ Others(t) /\ ThreadInv(t)'
  <2>1. CASE EnterLoad(t)
    BY <1>0, <2>1 DEF EnterLoad, Load, Goto, TypeOK, Others, ThreadInv, PointerInv,
         CountInv, RegInv, RequestInv, KeptInv, Kept, Counting, Closing, Open, At, Word, PCs,
         kernVars, progVars
  <2>2. CASE EnterStore(t)
    BY <1>0, <2>2 DEF EnterStore, StoreFlag, CountSection, Goto, TypeOK, Others, ThreadInv,
         PointerInv, CountInv, RegInv, RequestInv, KeptInv, Kept, Counting, Closing, Open, At,
         Word, PCs, kernVars
  <2>3. CASE ExitLoad(t)
    BY <1>0, <2>3 DEF ExitLoad, Load, Goto, TypeOK, Others, ThreadInv, PointerInv,
         CountInv, RegInv, RequestInv, KeptInv, Kept, Counting, Closing, Open, At, Word, PCs,
         kernVars, progVars
  <2>4. CASE ExitStore(t)
    <3>1. /\ pc[t] = "exit_store"
          /\ reg[t].flag = np[t].flag /\ np[t].flag \in 1..MaxNest
          /\ UNCHANGED <<layout, ctrl_page, reg, running, deferred, raced,
                         section, missed>>
          /\ StoreFlag(t, reg[t].flag - 1)
      BY <1>0, <2>4 DEF ExitStore, At, kernVars, ThreadInv, RegInv, CountInv,
                        Counting, Closing, TypeOK, Word
    <3>2. /\ np' \in [Threads -> Word]
          /\ np'[t].flag = np[t].flag - 1
          /\ np'[t].preempt = IF layout = "word" THEN reg[t].preempt
                                                 ELSE np[t].preempt
          /\ \A u \in Threads \ {t} : np'[u] = np[u]
      BY <1>0, <3>1 DEF StoreFlag, TypeOK, Word
    <3>3. CASE reg[t].flag = 1
      <4>1. /\ polled' = [polled EXCEPT ![t] = FALSE]
            /\ pc' = [pc EXCEPT ![t] = "exit_test"]
        BY <2>4, <3>3 DEF ExitStore, Goto
      <4> QED
        BY <1>0, <3>1, <3>2, <3>3, <4>1
           DEF TypeOK, PCs, Others, ThreadInv, PointerInv, CountInv, RegInv,
               RequestInv, KeptInv, Kept, Counting, Closing, Open
    <3>4. CASE reg[t].flag # 1
      <4>1. polled' = polled /\ pc' = [pc EXCEPT ![t] = "user"]
        BY <2>4, <3>4 DEF ExitStore, Goto
      <4> QED
        BY <1>0, <3>1, <3>2, <3>4, <4>1
           DEF TypeOK, PCs, Others, ThreadInv, PointerInv, CountInv, RegInv,
               RequestInv, KeptInv, Kept, Counting, Closing, Open
    <3> QED
      BY <3>3, <3>4
  <2>5. CASE ExitTest(t)
    BY <1>0, <2>5 DEF ExitTest, Goto, TypeOK, Others, ThreadInv,
         PointerInv, CountInv, RegInv, RequestInv, KeptInv, Kept, Counting, Closing, Open, At,
         Word, PCs, kernVars, progVars
  <2>6. CASE SchedYield(t)
    BY <1>0, <2>6 DEF SchedYield, SwitchFrom, Alive, Goto, TypeOK, Others, ThreadInv,
         PointerInv, CountInv, RegInv, RequestInv, KeptInv, Kept, Counting, Closing, Open, At,
         Word, PCs, progVars
  <2> QED
    BY <2>1, <2>2, <2>3, <2>4, <2>5, <2>6 DEF LibStep
<1> QED
  BY <1>0, <1>1, OthersKept DEF IInv

\* And so does a preemption, deferred or immediate.
LEMMA KernelIInv ==
    ASSUME NEW t \in Threads, IInv, Kernel(t)
    PROVE  IInv'
<1>0. TypeOK /\ ThreadInv(t) /\ running = t
  BY DEF IInv, Kernel, Request, Preempt
<1>1. TypeOK' /\ Others(t) /\ ThreadInv(t)'
  <2>1. CASE Request(t)
    BY <1>0, <2>1 DEF Request, Overwritten, TypeOK, Others,
         ThreadInv, PointerInv, CountInv, RegInv, RequestInv, KeptInv, Kept, Counting,
         Closing, Open, Word, progVars
  <2>2. CASE Preempt(t)
    BY <1>0, <2>2 DEF Preempt, SwitchFrom, Alive, TypeOK, Others, ThreadInv,
         PointerInv, CountInv, RegInv, RequestInv, KeptInv, Kept, Counting, Closing, Open,
         Word, progVars
  <2> QED
    BY <2>1, <2>2 DEF Kernel
<1> QED
  BY <1>0, <1>1, OthersKept DEF IInv

\* A stuttering step changes nothing the invariant speaks of.
LEMMA StutterIInv == IInv /\ UNCHANGED vars => IInv'
  BY DEF vars, libVars, kernVars, progVars, IInv, TypeOK, ThreadInv, PointerInv,
         CountInv, RegInv, RequestInv, KeptInv, Kept, Counting, Closing, Open

\* Every step keeps the inductive invariant.
LEMMA NextIInv == IInv /\ [Next]_vars => IInv'
  BY CallIInv, LibStepIInv, KernelIInv, StutterIInv DEF Next

\* The inductive invariant holds in every reachable state, for either layout of
\* the np word.
THEOREM InductiveInvariant == Spec => []IInv
  BY InitIInv, NextIInv, PTL DEF Spec

\* exit_np() never leaves the kernel with a section the program has closed,
\* whichever mappings failed and however the calls were (un)balanced.
THEOREM NoStuckSectionHolds == Spec => []NoStuckSection
<1>1. IInv => NoStuckSection
  <2> SUFFICES ASSUME IInv, NEW t \in Threads, section[t] = 0, pc[t] = "user"
               PROVE  np[t].flag = 0
    BY DEF NoStuckSection
  <2> QED
    BY DEF IInv, TypeOK, Word, ThreadInv, CountInv, Open, Closing
<1> QED
  BY <1>1, InductiveInvariant, PTL

\* requested_to_preempt() never answers 1 without a request that stands until
\* the section ends, even when stores rewrite the whole word.
THEOREM PollHonestHolds == Spec => []PollHonest
<1>1. IInv => PollHonest
  BY DEF IInv, ThreadInv, RequestInv, PollHonest
<1> QED
  BY <1>1, InductiveInvariant, PTL

\* Whatever the layout of the word, no thread returns from its outermost
\* exit_np() with a preemption still due, but for one that was asked for only
\* between the load and the store of a count.
THEOREM DelayedPreemptionHolds == Spec => []DelayedPreemptionHonoured
<1>1. IInv => DelayedPreemptionHonoured
  BY DEF IInv, ThreadInv, RequestInv, KeptInv, Kept, DelayedPreemptionHonoured
<1> QED
  BY <1>1, InductiveInvariant, PTL

\* A thread is never descheduled inside a section that enter_np() has marked:
\* the protocol's promise, as an action property.
THEOREM NonPreemptiveHolds == Spec => NonPreemptive
<1> DEFINE Unmarked == running' # running =>
                           section[running] = 0 \/ missed[running]
<1>1. IInv /\ [Next]_vars => [Unmarked]_vars
  <2> SUFFICES ASSUME IInv, Next, running' # running
               PROVE  section[running] = 0 \/ missed[running]
    BY DEF vars, kernVars
  <2>1. PICK t \in Threads : Call(t) \/ LibStep(t) \/ Kernel(t)
    BY DEF Next
  <2>2. SchedYield(t) \/ Preempt(t)
    BY <2>1 DEF Call, LibStep, Kernel, InitKernelIface, EnterNp,
       EnterNpUnmapped, ExitNp, RequestedToPreempt, GetCtrlPage,
       DereferenceMapFailed, Crash, EnterLoad, EnterStore, ExitLoad, ExitStore,
       ExitTest, Load, Request, kernVars
  <2>3. running = t /\ np[t].flag = 0 /\ ~Closing(t)
    <3>1. CASE SchedYield(t)
      BY <3>1 DEF SchedYield, At, IInv, ThreadInv, CountInv, Closing
    <3>2. CASE Preempt(t)
      BY <3>2 DEF Preempt, IInv, TypeOK, Word, ThreadInv, CountInv, Closing
    <3> QED
      BY <2>2, <3>1, <3>2
  <2> QED
    BY <2>3 DEF IInv, TypeOK, ThreadInv, CountInv, Open
<1> QED
  BY <1>1, InductiveInvariant, PTL DEF Spec, NonPreemptive

\* In either layout of the word the control-page protocol implements deferred
\* preemption (NPSections): a section excludes preemption, and a request made
\* meanwhile, other than between the load and the store of a count, is served
\* before the next section can open.
THEOREM Refinement == Spec => ImplementsNPSections
<1> DEFINE inNPbar == {t \in Threads : np[t].flag # 0}
           defbar  == [t \in Threads |-> Kept(t)]
<1>1. Init => NPS!Init
  <2> SUFFICES ASSUME Init PROVE NPS!Init
    OBVIOUS
  <2>1. inNPbar = {}
    BY DEF Init, ZeroWord
  <2>2. \A t \in Threads : Kept(t) = FALSE
    BY DEF Init, Kept
  <2>3. defbar = [t \in Threads |-> FALSE]
    BY <2>2
  <2> QED
    BY <2>1, <2>3 DEF Init, NPS!Init
<1>2. IInv /\ [Next]_vars => [NPS!Next]_(NPS!absVars)
  <2> SUFFICES ASSUME IInv, [Next]_vars
               PROVE  NPS!Next \/ UNCHANGED NPS!absVars
    OBVIOUS
  <2> USE MaxNestPositive
  <2>0. TypeOK
    BY DEF IInv
  <2>a. UNCHANGED <<deferred, raced>> => defbar' = defbar
    BY DEF Kept
  <2>b. UNCHANGED np => inNPbar' = inNPbar
    OBVIOUS
  <2>1. CASE UNCHANGED vars
    BY <2>1, <2>a, <2>b DEF vars, libVars, kernVars, NPS!absVars
  <2>2. ASSUME NEW t \in Threads, Call(t) PROVE UNCHANGED NPS!absVars
    <3>1. UNCHANGED <<np, running, deferred, raced>>
      BY <2>2 DEF Call, InitKernelIface, EnterNp, EnterNpUnmapped, ExitNp,
         RequestedToPreempt, GetCtrlPage, DereferenceMapFailed, Crash,
         libVars, kernVars
    <3> QED
      BY <2>a, <2>b, <3>1 DEF NPS!absVars
  <2>3. ASSUME NEW t \in Threads, LibStep(t)
        PROVE  NPS!Next \/ UNCHANGED NPS!absVars
    <3>0. ThreadInv(t)
      BY DEF IInv
    <3>1. CASE EnterLoad(t) \/ ExitLoad(t) \/ ExitTest(t)
      <4>1. UNCHANGED <<np, running, deferred, raced>>
        BY <3>1 DEF EnterLoad, ExitLoad, ExitTest, Load, kernVars
      <4> QED
        BY <2>a, <2>b, <4>1 DEF NPS!absVars
    <3>2. CASE EnterStore(t)
      <4>1. /\ running = t /\ UNCHANGED <<running, deferred, raced>>
            /\ np[t].flag \in Nat /\ np'[t].flag = np[t].flag + 1
            /\ \A u \in Threads \ {t} : np'[u] = np[u]
        BY <2>0, <3>0, <3>2 DEF EnterStore, At, StoreFlag, kernVars, TypeOK,
           Word, ThreadInv, RegInv, Counting
      <4>a. defbar' = defbar
        BY <2>a, <4>1
      <4>2. CASE np[t].flag = 0
        <5>1. ~Kept(t)
          BY <3>0, <3>2, <4>2
             DEF EnterStore, At, ThreadInv, RequestInv, KeptInv
        <5>2. inNPbar' = inNPbar \cup {t} /\ t \notin inNPbar
          BY <4>1, <4>2
        <5>3. ~defbar[t]
          BY <5>1
        <5>4. NPS!Enter(t)
          BY <4>1, <4>a, <5>2, <5>3 DEF NPS!Enter
        <5> QED
          BY <5>4 DEF NPS!Next
      <4>3. CASE np[t].flag # 0
        <5>1. inNPbar' = inNPbar
          BY <4>1, <4>3
        <5> QED
          BY <4>1, <4>a, <5>1 DEF NPS!absVars
      <4> QED
        BY <4>2, <4>3
    <3>3. CASE ExitStore(t)
      <4>1. /\ running = t /\ UNCHANGED <<running, deferred, raced>>
            /\ np[t].flag \in Nat \ {0} /\ np'[t].flag = np[t].flag - 1
            /\ \A u \in Threads \ {t} : np'[u] = np[u]
        BY <2>0, <3>0, <3>3 DEF ExitStore, At, StoreFlag, kernVars, TypeOK,
           Word, ThreadInv, RegInv, CountInv, Counting, Closing
      <4>a. defbar' = defbar
        BY <2>a, <4>1
      <4>2. CASE np[t].flag = 1
        <5>1. inNPbar' = inNPbar \ {t} /\ t \in inNPbar
          BY <4>1, <4>2
        <5>2. NPS!Leave(t)
          BY <4>1, <4>a, <5>1 DEF NPS!Leave
        <5> QED
          BY <5>2 DEF NPS!Next
      <4>3. CASE np[t].flag # 1
        <5>1. inNPbar' = inNPbar
          BY <4>1, <4>3
        <5> QED
          BY <4>1, <4>a, <5>1 DEF NPS!absVars
      <4> QED
        BY <4>2, <4>3
    <3>4. CASE SchedYield(t)
      <4>1. running = t /\ np[t].flag = 0 /\ SwitchFrom(t)
        BY <3>0, <3>4 DEF SchedYield, At, ThreadInv, CountInv
      <4>2. inNPbar' = inNPbar /\ t \notin inNPbar
        BY <2>0, <4>1 DEF SwitchFrom, TypeOK, Word
      <4>3. defbar' = [defbar EXCEPT ![t] = FALSE]
        BY <2>0, <4>1 DEF SwitchFrom, Kept, TypeOK
      <4>4. NPS!Serve(t)
        BY <4>1, <4>2, <4>3 DEF SwitchFrom, Alive, NPS!Serve
      <4> QED
        BY <4>4 DEF NPS!Next
    <3> QED
      BY <2>3, <3>1, <3>2, <3>3, <3>4 DEF LibStep
  <2>4. ASSUME NEW t \in Threads, Kernel(t)
        PROVE  NPS!Next \/ UNCHANGED NPS!absVars
    <3>1. CASE Request(t)
      <4>1. inNPbar' = inNPbar /\ t \in inNPbar
        BY <2>0, <3>1 DEF Request, TypeOK, Word
      <4>2. /\ running = t /\ running' = running /\ deferred'[t]
            /\ raced'[t] = (Overwritten(t) /\ (deferred[t] => raced[t]))
            /\ \A u \in Threads \ {t} : deferred'[u] = deferred[u]
                                        /\ raced'[u] = raced[u]
        BY <2>0, <3>1 DEF Request, TypeOK
      <4>3. CASE raced'[t]
        \* It will be overwritten, and nothing else was due.
        <5>1. ~Kept(t) /\ ~Kept(t)'
          BY <4>2, <4>3 DEF Kept
        <5>2. \A u \in Threads : Kept(u)' = Kept(u)
          BY <2>0, <4>2, <5>1 DEF Kept, TypeOK
        <5>3. defbar' = defbar
          BY <5>2
        <5> QED
          BY <4>1, <4>2, <5>3 DEF NPS!absVars
      <4>4. CASE ~raced'[t]
        <5>1. Kept(t)' = TRUE
          BY <4>2, <4>4 DEF Kept
        <5>2. \A u \in Threads \ {t} : Kept(u)' = Kept(u)
          BY <4>2 DEF Kept
        <5>3. defbar' = [defbar EXCEPT ![t] = TRUE]
          BY <5>1, <5>2
        <5>4. NPS!Defer(t)
          BY <4>1, <4>2, <5>3 DEF NPS!Defer
        <5> QED
          BY <5>4 DEF NPS!Next
      <4> QED
        BY <4>3, <4>4
    <3>2. CASE Preempt(t)
      <4>1. inNPbar' = inNPbar /\ t \notin inNPbar
        BY <2>0, <3>2 DEF Preempt, SwitchFrom, TypeOK, Word
      <4>2. defbar' = [defbar EXCEPT ![t] = FALSE]
        BY <2>0, <3>2 DEF Preempt, SwitchFrom, Kept, TypeOK
      <4>3. NPS!Serve(t)
        BY <3>2, <4>1, <4>2 DEF Preempt, SwitchFrom, Alive, NPS!Serve
      <4> QED
        BY <4>3 DEF NPS!Next
    <3> QED
      BY <2>4, <3>1, <3>2 DEF Kernel
  <2> QED
    BY <2>1, <2>2, <2>3, <2>4 DEF Next
<1> QED
  BY <1>1, <1>2, InductiveInvariant, PTL DEF Spec, ImplementsNPSections, NPS!Spec
===============================================================================
