----------------------------- MODULE ControlPage -----------------------------
(***************************************************************************)
(* The control page shared by a thread and the LITMUS^RT kernel            *)
(* (src/src/kernel_iface.c): the thread-local pointer ctrl_page, how it is *)
(* mapped, and the np word in which enter_np() and exit_np() count         *)
(* non-preemptive sections while the kernel asks for preemptions.          *)
(*                                                                         *)
(* The threads share one processor.  A kernel interrupt may come between   *)
(* any two machine steps of the running thread, so flag++ and --flag are a *)
(* load and a store.  What the store does to preempt depends on the        *)
(* kernel's header: both layouts of the word that it allows are covered.   *)
(***************************************************************************)
EXTENDS Integers

CONSTANTS
    Threads,     \* the threads that share the processor
    MaxNest,     \* bound: sections a program nests
    MapErrors    \* which of the calls in map_file() may fail here

ASSUME ThreadsNonEmpty == Threads # {}
ASSUME MaxNestPositive == MaxNest \in Nat \ {0}
ASSUME MapErrorsKnown == MapErrors \subseteq {"open", "mmap"}

VARIABLES
    layout,     \* "fields": a store to np.flag leaves np.preempt alone; "word":
                \* they are bit-fields, and it stores the whole word loaded
    ctrl_page,  \* ctrl_page[t]: t's thread-local pointer
    np,         \* np[t]: the np word in t's page, as the kernel sees it
    reg,        \* reg[t]: the word t has loaded and not yet stored
    pc,         \* pc[t]: where t is in the library
    running,    \* the thread on the processor
    deferred,   \* deferred[t]: the kernel wants to preempt t and has not yet
    section,    \* section[t]: sections t has open, as its program counts them
    missed,     \* missed[t]: one of their enter_np() calls found no page
    polled,     \* polled[t]: requested_to_preempt() said 1 in this section
    raced       \* history, raced[t]: the preemption due was asked for between
                \* the load and the store of the word that holds the count

libVars  == <<layout, ctrl_page, np, reg, pc>>
kernVars == <<running, deferred, raced>>
progVars == <<section, missed, polled>>
vars     == <<libVars, kernVars, progVars>>

Pointers == {"NULL", "MAP_FAILED", "page"}
Word     == [flag : 0..MaxNest, preempt : BOOLEAN]
PCs      == {"user", "enter_load", "enter_store", "exit_load", "exit_store",
             "exit_test", "exit_yield", "crashed"}

TypeOK ==
    /\ layout \in {"fields", "word"}
    /\ ctrl_page \in [Threads -> Pointers]
    /\ np \in [Threads -> Word]
    /\ reg \in [Threads -> Word]
    /\ pc \in [Threads -> PCs]
    /\ running \in Threads
    /\ deferred \in [Threads -> BOOLEAN]
    /\ section \in [Threads -> 0..MaxNest]
    /\ missed \in [Threads -> BOOLEAN]
    /\ polled \in [Threads -> BOOLEAN]
    /\ raced \in [Threads -> BOOLEAN]

ZeroWord == [flag |-> 0, preempt |-> FALSE]

Init ==
    /\ layout \in {"fields", "word"}
    /\ ctrl_page = [t \in Threads |-> "NULL"]
    /\ np = [t \in Threads |-> ZeroWord]
    /\ reg = [t \in Threads |-> ZeroWord]
    /\ pc = [t \in Threads |-> "user"]
    /\ running \in Threads
    /\ deferred = [t \in Threads |-> FALSE]
    /\ section = [t \in Threads |-> 0]
    /\ missed = [t \in Threads |-> FALSE]
    /\ polled = [t \in Threads |-> FALSE]
    /\ raced = [t \in Threads |-> FALSE]

-------------------------------------------------------------------------------
(* Helpers *)

At(t, label)   == running = t /\ pc[t] = label
Goto(t, label) == pc' = [pc EXCEPT ![t] = label]

\* Dereferencing MAP_FAILED: SIGSEGV, the thread is gone.
Crash(t) ==
    /\ Goto(t, "crashed")
    /\ UNCHANGED <<layout, ctrl_page, np, reg, kernVars, progVars>>

\* What map_file() leaves in the pointer it was given: NULL, as initialised by
\* its caller, when open() fails, MAP_FAILED when mmap() fails.
MapFile == [ok |-> "page", open |-> "NULL", mmap |-> "MAP_FAILED"]

Outcomes == {"ok"} \cup MapErrors

\* init_kernel_iface(): the pointer is assigned whatever map_file() returned.
AssignCtrlPage(t, outcome) ==
    ctrl_page' = [ctrl_page EXCEPT ![t] = MapFile[outcome]]

\* A store to np.flag: of the field alone, or of the word that was loaded.
StoreFlag(t, value) ==
    np' = [np EXCEPT ![t] =
              [flag    |-> value,
               preempt |-> IF layout = "word" THEN reg[t].preempt ELSE @.preempt]]

-------------------------------------------------------------------------------
(* Library calls of the running thread *)

\* init_rt_thread() or init_litmus(), outside any section (their failure is
\* reported to the caller, which may go on: rtspin does).
InitKernelIface(t) ==
    /\ At(t, "user")
    /\ section[t] = 0
    /\ \E outcome \in Outcomes : AssignCtrlPage(t, outcome)
    /\ UNCHANGED <<layout, np, reg, pc, kernVars, progVars>>

\* The program believes it has one more section open.
CountSection(t) == section' = [section EXCEPT ![t] = @ + 1]

\* enter_np() finds no page and cannot map one: it prints and returns.
EnterNpUnmapped(t) ==
    /\ At(t, "user")
    /\ section[t] < MaxNest
    /\ ctrl_page[t] = "NULL"
    /\ \E outcome \in MapErrors : AssignCtrlPage(t, outcome)
    /\ CountSection(t)
    /\ missed' = [missed EXCEPT ![t] = TRUE]
    /\ UNCHANGED <<layout, np, reg, pc, kernVars, polled>>

\* enter_np() has a non-NULL pointer, or maps the page now.
EnterNp(t) ==
    /\ At(t, "user")
    /\ section[t] < MaxNest
    /\ \/ /\ ctrl_page[t] = "NULL"
          /\ AssignCtrlPage(t, "ok")
          /\ Goto(t, "enter_load")
       \/ /\ ctrl_page[t] = "page"
          /\ Goto(t, "enter_load")
          /\ UNCHANGED ctrl_page
    /\ UNCHANGED <<layout, np, reg, kernVars, progVars>>

Load(t, from, to) ==
    /\ At(t, from)
    /\ reg' = [reg EXCEPT ![t] = np[t]]
    /\ Goto(t, to)
    /\ UNCHANGED <<layout, ctrl_page, np, kernVars, progVars>>

EnterLoad(t) == Load(t, "enter_load", "enter_store")

\* Mutant: flag = 1 instead of flag++.
EnterStoreOne(t) ==
    /\ At(t, "enter_store")
    /\ StoreFlag(t, 1)
    /\ CountSection(t)
    /\ Goto(t, "user")
    /\ UNCHANGED <<layout, ctrl_page, reg, kernVars, missed, polled>>

EnterStore(t) ==
    /\ At(t, "enter_store")
    /\ StoreFlag(t, reg[t].flag + 1)
    /\ CountSection(t)
    /\ Goto(t, "user")
    /\ UNCHANGED <<layout, ctrl_page, reg, kernVars, missed, polled>>

\* The program closes a section (or calls exit_np() without one open).
CloseSection(t) ==
    /\ section' = [section EXCEPT ![t] = IF @ > 0 THEN @ - 1 ELSE 0]
    /\ missed' = [missed EXCEPT ![t] = IF section[t] > 1 THEN @ ELSE FALSE]

\* exit_np() with another test of flag in place of flag # 0.
ExitNpTesting(t, Marked(_)) ==
    /\ At(t, "user")
    /\ ctrl_page[t] # "MAP_FAILED"
    /\ CloseSection(t)
    /\ \/ /\ ctrl_page[t] = "page" /\ Marked(np[t].flag)
          /\ Goto(t, "exit_load")
       \/ /\ ctrl_page[t] = "NULL" \/ ~Marked(np[t].flag)
          /\ UNCHANGED pc
    /\ UNCHANGED <<layout, ctrl_page, np, reg, kernVars, polled>>

\* Mutants: no test of flag; flag > 1.
ExitNpUntested(t) == ExitNpTesting(t, LAMBDA flag : TRUE)
ExitNpOffByOne(t) == ExitNpTesting(t, LAMBDA flag : flag > 1)

\* exit_np(), up to the test of flag: without a page, or with flag 0, it
\* returns at once.
ExitNp(t) ==
    /\ At(t, "user")
    /\ ctrl_page[t] # "MAP_FAILED"
    /\ CloseSection(t)
    /\ \/ /\ ctrl_page[t] = "page" /\ np[t].flag # 0
          /\ Goto(t, "exit_load")
       \/ /\ ctrl_page[t] = "NULL" \/ np[t].flag = 0
          /\ UNCHANGED pc
    /\ UNCHANGED <<layout, ctrl_page, np, reg, kernVars, polled>>

ExitLoad(t) == Load(t, "exit_load", "exit_store")

\* Mutant: preempt is looked at before flag is cleared.
ExitStoreTestFirst(t) ==
    /\ At(t, "exit_store")
    /\ StoreFlag(t, reg[t].flag - 1)
    /\ polled' = [polled EXCEPT ![t] = @ /\ reg[t].flag # 1]
    /\ Goto(t, IF reg[t].flag = 1 /\ reg[t].preempt THEN "exit_yield" ELSE "user")
    /\ UNCHANGED <<layout, ctrl_page, reg, kernVars, section, missed>>

\* --flag; only the outermost exit goes on to look at preempt.
ExitStore(t) ==
    /\ At(t, "exit_store")
    /\ StoreFlag(t, reg[t].flag - 1)
    /\ \/ /\ reg[t].flag = 1
          /\ polled' = [polled EXCEPT ![t] = FALSE]
          /\ Goto(t, "exit_test")
       \/ /\ reg[t].flag # 1
          /\ UNCHANGED polled
          /\ Goto(t, "user")
    /\ UNCHANGED <<layout, ctrl_page, reg, kernVars, section, missed>>

\* Mutants: the request is never looked at; the thread waits for the kernel to
\* withdraw it instead of yielding.
ExitTestNever(t) ==
    /\ At(t, "exit_test")
    /\ Goto(t, "user")
    /\ UNCHANGED <<layout, ctrl_page, np, reg, kernVars, progVars>>

ExitTestSpin(t) ==
    /\ At(t, "exit_test")
    /\ Goto(t, IF np[t].preempt THEN "exit_test" ELSE "user")
    /\ UNCHANGED <<layout, ctrl_page, np, reg, kernVars, progVars>>

\* After the memory barrier: was a preemption delayed?
ExitTest(t) ==
    /\ At(t, "exit_test")
    /\ Goto(t, IF np[t].preempt THEN "exit_yield" ELSE "user")
    /\ UNCHANGED <<layout, ctrl_page, np, reg, kernVars, progVars>>

\* Mutant: requested_to_preempt() tests the whole word.
RequestedToPreemptRaw(t) ==
    /\ At(t, "user")
    /\ ctrl_page[t] # "MAP_FAILED"
    /\ polled' = [polled EXCEPT ![t] = ctrl_page[t] = "page" /\ np[t] # ZeroWord]
    /\ UNCHANGED <<libVars, kernVars, section, missed>>

\* requested_to_preempt(); FALSE without a page.
RequestedToPreempt(t) ==
    /\ At(t, "user")
    /\ ctrl_page[t] # "MAP_FAILED"
    /\ polled' = [polled EXCEPT ![t] = ctrl_page[t] = "page" /\ np[t].preempt]
    /\ UNCHANGED <<libVars, kernVars, section, missed>>

\* get_ctrl_page() maps the page if the pointer is still NULL.
GetCtrlPage(t) ==
    /\ At(t, "user")
    /\ ctrl_page[t] = "NULL"
    /\ \E outcome \in Outcomes : AssignCtrlPage(t, outcome)
    /\ UNCHANGED <<layout, np, reg, pc, kernVars, progVars>>

\* MAP_FAILED is not NULL: enter_np(), exit_np(), requested_to_preempt() and
\* the caller of get_ctrl_page() dereference it.
DereferenceMapFailed(t) ==
    /\ At(t, "user")
    /\ ctrl_page[t] = "MAP_FAILED"
    /\ Crash(t)

-------------------------------------------------------------------------------
(* The kernel: external, as the code above relies on it *)

Alive == {u \in Threads : pc[u] # "crashed"}

\* The kernel takes the processor from t and forgets what it asked of t.
SwitchFrom(t) ==
    /\ running' \in Alive
    /\ deferred' = [deferred EXCEPT ![t] = FALSE]
    /\ raced' = [raced EXCEPT ![t] = FALSE]
    /\ np' = [np EXCEPT ![t].preempt = FALSE]

\* sched_yield() at the end of exit_np().
SchedYield(t) ==
    /\ At(t, "exit_yield")
    /\ SwitchFrom(t)
    /\ Goto(t, "user")
    /\ UNCHANGED <<layout, ctrl_page, reg, progVars>>

\* t is between the load and the store of a count.
Counting(t) == pc[t] \in {"enter_store", "exit_store"}

\* What the kernel writes to the word now, t will overwrite.
Overwritten(t) == layout = "word" /\ Counting(t)

\* An interrupt finds that t should be preempted; t is in a section, so the
\* kernel leaves a request in t's page, again if need be.
Request(t) ==
    /\ running = t
    /\ np[t].flag # 0
    /\ np' = [np EXCEPT ![t].preempt = TRUE]
    /\ deferred' = [deferred EXCEPT ![t] = TRUE]
    /\ raced' = [raced EXCEPT ![t] =
                    Overwritten(t) /\ (deferred[t] => raced[t])]
    /\ UNCHANGED <<layout, ctrl_page, reg, pc, running, progVars>>

\* The same interrupt outside a section: t is preempted on the spot.
Preempt(t) ==
    /\ running = t
    /\ np[t].flag = 0
    /\ SwitchFrom(t)
    /\ UNCHANGED <<layout, ctrl_page, reg, pc, progVars>>

-------------------------------------------------------------------------------
Call(t) ==
    \/ InitKernelIface(t) \/ EnterNp(t) \/ EnterNpUnmapped(t) \/ ExitNp(t)
    \/ RequestedToPreempt(t) \/ GetCtrlPage(t) \/ DereferenceMapFailed(t)

\* What the thread does inside the library, once it has called.
LibStep(t) ==
    \/ EnterLoad(t) \/ EnterStore(t)
    \/ ExitLoad(t) \/ ExitStore(t) \/ ExitTest(t) \/ SchedYield(t)

Kernel(t) == Request(t) \/ Preempt(t)

Next == \E t \in Threads : Call(t) \/ LibStep(t) \/ Kernel(t)

Spec == Init /\ [][Next]_vars

\* The running thread executes its next instruction.
FairSpec == Spec /\ \A t \in Threads : WF_vars(LibStep(t))

-------------------------------------------------------------------------------
(* The inductive invariant behind the properties *)

Closing(t) == pc[t] \in {"exit_load", "exit_store"}

\* Sections whose end the kernel has not seen yet.
Open(t) == section[t] + (IF Closing(t) THEN 1 ELSE 0)

\* Library code past the pointer test runs with a mapped page; without one the
\* kernel has no section on record.
PointerInv(t) ==
    /\ pc[t] \notin {"user", "crashed"} => ctrl_page[t] = "page"
    /\ ctrl_page[t] # "page" => np[t].flag = 0

\* flag counts the open sections, short of the enter_np() calls that missed.
CountInv(t) ==
    /\ pc[t] \in {"enter_load", "enter_store"} => section[t] < MaxNest
    /\ Closing(t) => np[t].flag > 0
    /\ pc[t] \in {"exit_test", "exit_yield"} => np[t].flag = 0
    /\ np[t].flag <= Open(t)
    /\ ~missed[t] => np[t].flag = Open(t)
    /\ section[t] = 0 => ~missed[t]

\* A preemption is due, and the request for it was not to be overwritten.
Kept(t) == deferred[t] /\ ~raced[t]

\* A word between its load and its store is still the current count, holds no
\* preemption request that is not outstanding, and those a store must keep.
RegInv(t) ==
    Counting(t) =>
        /\ reg[t].flag = np[t].flag
        /\ reg[t].preempt => deferred[t] /\ np[t].flag # 0
        /\ layout = "word" /\ Kept(t) => reg[t].preempt

\* Requests are made of the running thread, and a bit that is set is a request
\* which the thread, once out of its section, is about to serve.
RequestInv(t) ==
    /\ deferred[t] => running = t
    /\ np[t].preempt => deferred[t]
    /\ np[t].preempt /\ np[t].flag = 0 => pc[t] \in {"exit_test", "exit_yield"}
    /\ polled[t] => deferred[t] /\ np[t].flag # 0

\* It is not lost.
KeptInv(t) == Kept(t) => np[t].preempt

ThreadInv(t) ==
    PointerInv(t) /\ CountInv(t) /\ RegInv(t) /\ RequestInv(t) /\ KeptInv(t)

\* The page protocol's inductive invariant: every thread's page, word in flight
\* and pending request agree with what its program has open.
IInv == TypeOK /\ \A t \in Threads : ThreadInv(t)

-------------------------------------------------------------------------------
(* Properties *)

\* enter_np()/exit_np(): a thread loses the processor inside a section only if
\* some enter_np() of that section found no page to mark.
NonPreemptive ==
    [][running' # running =>
          section[running] = 0 \/ missed[running]]_vars

\* exit_np(): once a program has closed every section it opened, and also when
\* it called exit_np() too often or some enter_np() failed, the kernel sees a
\* preemptable thread: flag never outlives the sections.
NoStuckSection ==
    \A t \in Threads : section[t] = 0 /\ pc[t] = "user" => np[t].flag = 0

\* exit_np(), "let's check for delayed preemptions": a thread does not return
\* from the outermost exit_np() with a preemption still due.  With the fields in
\* one word this holds unless the kernel asked for it only while the thread was
\* between the load and the store of a count, and not again since.
DelayedPreemptionHonoured ==
    \A t \in Threads :
        deferred[t] /\ ~raced[t] /\ pc[t] = "user" => np[t].flag # 0

\* requested_to_preempt(): an answer of 1 stays true until the section ends.
PollHonest == \A t \in Threads : polled[t] => deferred[t] /\ np[t].flag # 0

\* requested_to_preempt() returns "1 iff the task was requested to preempt
\* while running non-preemptive": the bit it reads is the kernel's request.
RequestVisible ==
    \A t \in Threads :
        pc[t] = "user" /\ ctrl_page[t] = "page" =>
            (np[t].preempt <=> deferred[t])

\* get_ctrl_page() and enter_np() "should work without page faults": no thread
\* dereferences the pointer a failed mmap() left behind.
NoPageFault == \A t \in Threads : pc[t] # "crashed"

NPS == INSTANCE NPSections WITH
           inNP     <- {t \in Threads : np[t].flag # 0},
           deferred <- [t \in Threads |-> Kept(t)]

\* The page protocol implements deferred preemption: no preemption inside a
\* section, and one that became due there is served at its end and before the
\* next section.  With the fields in one word, a request that only ever came
\* between the load and the store of a count does not count as one.
ImplementsNPSections == NPS!Spec

\* With the running thread making progress, a deferred preemption is served.
ImplementsFairNPSections == NPS!FairSpec
===============================================================================
