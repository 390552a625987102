# A TLA+ verification of liblitmus

liblitmus is the user-space library of LITMUS^RT, a real-time Linux kernel,
with the tools that start and release real-time tasks. This directory holds
TLA+ models of its parts, the TLC runs that check them and TLAPS proofs about
the most important ones. The kernel is not part of the repository: it appears
in the models as the library's code uses it, marked *external* in
`PROJECT.json`.

## 1. Inventory

| Part | State | Operations | Interacts with |
|---|---|---|---|
| Control page (`src/src/kernel_iface.c`) | thread-local pointer `ctrl_page`; the page's `np` word (`flag`, `preempt`) | `init_kernel_iface`, `enter_np`, `exit_np`, `requested_to_preempt`, `get_ctrl_page` | shares the word with the kernel, which writes it at any time |
| Task life cycle (`src/bin/rtspin.c`, `rt_launch.c`) | the task's progress, its scheduling class | migrate, set parameters, become RT, open lock, wait for release, jobs, leave RT | kernel, `release_ts` |
| Release (`src/bin/release_ts.c`, `read_litmus_stats`) | `ready`, `all`, the loop | poll `/proc/litmus/stats`, `release_ts()` | every waiting task |
| CPU sets (`read_mapping` in `src/src/migration.c`) | text buffer, set, cursor | decode | `/proc/litmus/{domains,cpus}` |
| Placement (`migration.c`, `sporadic_*` in `src/src/litmus.c`) | affinity, `param.cpu` | `be_migrate_*`, `domain_to_*`, `sporadic_*` | plugin's domains, online CPUs, the operator's `setsched` |
| Task mode (`src/src/task.c`) | scheduling class | `task_mode` (read, then set) | other processes that set it |
| rtspin jobs and locks | time, lock descriptor | `job`, `loop_for`, `litmus_lock/unlock` | other tasks through locks |
| rtspin execution-time files | file position, array | `get_exec_times` | - |
| Example programs (`src/bin/base_task.c`, `base_mt_task.c`) | threads, their class | create and join threads, set up, jobs | `task_mode`, other processes |
| uncache (`src/bin/uncache.c`) | mappings, descriptor, time stamps | data tests, comparison, allocation search | the uncache device |
| Tests and runner (`src/tests`) | children, count of passed tests | `run_test`, polling parents | the release, the children of earlier tests |
| Tables and defaults, stubs, clocks, scripts | none | - | - |

What is hard here, and hard to test: a kernel interrupt between two
instructions of the library; calls that fail half-way and are not looked at;
values read from `/proc` that are stale when used; tasks that start late, fail
or are killed while others wait for them; index arithmetic on masks. The list
with lines is under `hazards` in `PROJECT.json`.

What makes each part correct: a non-preemptive section excludes preemption,
ends when the program ends it, and a preemption that came due meanwhile is
served at its end; a common release is a barrier and reaches every task that is
ready; a decoded mask is the kernel's mask; a placed task may run on the CPU
its parameters name; a mode that was set is the mode asked for; a lock is given
back on every way out of a job; a test is counted as passed only if everything
it asserts happened.

## 2. Modules

### `NPSections`, `ControlPage`, `ControlPageProofs`

`ControlPage` models `kernel_iface.c` for any number of threads on one
processor. Per thread: `ctrl_page` (NULL, `MAP_FAILED` or the page), the `np`
word, the word loaded and not yet stored (`reg`), and `pc`. `flag++` and
`--flag` are a load step and a store step; the kernel (`Request`, `Preempt`)
may act between any two. `exit_np()` is five steps: test of `flag`
(`ExitNp`), load, store, test of `preempt` after the barrier (`ExitTest`),
`sched_yield()`. `map_file()` may fail in `open()` (pointer stays NULL) or in
`mmap()` (pointer is `MAP_FAILED`); as in the code the pointer is assigned
either way. `deferred`, `section`, `missed` and `polled` record what the
kernel wants and what the program believes; no step of the library reads them.

How the two members of `union np_flag` share its 32 bits is fixed by a kernel
header outside the repository, so `Init` chooses: in the layout `"fields"` a
store to `flag` leaves `preempt` alone, in `"word"` they are bit-fields and the
store writes both as they were loaded. Every run and every theorem covers both.
In `"word"` the code loses requests (`cp_lost_request`); the other properties say
what it still guarantees. For them the history variable `raced` marks a
preemption that the kernel has asked for only between the load and the store of a
count (`Overwritten`), where the store will wipe out the request; a request at any
other moment, before or after, clears the mark.

Programs are assumed to call `init_litmus()`/`init_rt_thread()` outside
sections and not to block inside one. Everything else (nesting, surplus
`exit_np()`, lazy mapping by `enter_np()`) is allowed.

`NPSections` is the promise without the page: `Enter`, `Leave`, `Defer`,
`Serve`. `ControlPage` implements it with `inNP <- {t : np[t].flag # 0}` and
`deferred <- Kept`, the preemptions due that are not `raced`.

### `TaskSystem`, `TaskSystemProofs`

The mains of `rtspin` and `rt_launch` as one state machine per task (the two
set up in the same order; `Launched` tasks end in `exec`), and `release_ts` as
another. `Init` stands for the parsing of command lines; the options of tasks
are constants, those of `release_ts` are chosen in `Init` from `Releases`, with
whether the statistics can become unreadable. `bail_out()` and a signal end a task
(`Exit`), which the kernel then forgets. Each step that the code checks can fail if its kind is in `Faults`;
`init_litmus()`, whose result both programs ignore, is part of the step it
follows. `PollStats` and `PollFails` are one turn of the loop in
`wait_until_ready()`. `seen` records the real-time tasks at the last turn.
The jobs of a task are one step here. The properties are conditional on the
options: `ForAll` (`-f` for at least as many tasks as wait), `Informed` (`-w` or
such an `-f`, and statistics that can be read).

### `ReadMapping`, `TextProofs`

The loop of `read_mapping()`, one step per group, over texts produced by
`Format` (the format its comment describes). Pointers are offsets and may
become negative as in the code. A CPU set is a set of numbers, a digit the number
whose bits (`Bit`) say which CPUs are in the set; `strtoul()` and the `ffsl()`
loop together are `StrtoulBits`; `CPU_SET_S()` ignores what is
beyond the allocated size. Group size, digit size, buffer size and word size
are constants (the code: 8, 4, 4096, 64).

### `Domains`, `DomainsProofs`

Placement of tasks by `sporadic_partitioned()`/`sporadic_clustered()` (which
are the same code) with `be_migrate_to_domain()`, `domain_to_first_cpu()`,
`set_rt_task_param()` and `task_mode()`; also `sporadic_global()`,
`be_migrate_to_cpu()`, `domain_to_cpus()` and `cpu_to_domains()`. CPUs go on and
off line at any time, and their numbers may have gaps. The operator switches
plugins (`setsched`) whenever no task is real-time; then, and only then, the kernel
allows it. So a switch may fall between the two reads of the mapping, which the
code does not notice; the history variable `switched` records whether one has
come since a task moved to its domain, before or after its lookup of the CPU.
`FewDomains` is the condition under which the code's test of the number of CPUs
is also enough for a mask of domains. That `read_mapping()` returns the kernel's
set is what `ReadMapping` establishes.

### `RtspinJobs`, `RtspinJobsProofs`

`job()` and `loop_for()` of several rtspin tasks against a wall clock and the
kernel. A tick lets the kernel run any of the spinning tasks (at most `Procs`);
everything else takes no processor time but may be delayed by any number of
ticks. `loop[t]` is the `loop_for()` in progress: the time asked for (`todo`),
the processor time used (`done`), the last iteration's length (`last`), what is
left of this one (`left`). The test of the emergency deadline and the loop's
condition after it are one step, since the condition reads no clock. `chunk1`
is any whole part of `exec_time - cs_length`, which may be negative. Results of
`litmus_lock()`, `litmus_unlock()` and, with `-f`, of `job()` are ignored, as
in the code: a task in `LockErrors` may run its critical section unlocked. The
kernel's lock is a FIFO queue. The clock stops at `Horizon`, beyond every
deadline. `work`, `late` and `delayed` are history; no step reads them.
Results that the code drops are kept in `denied` for the properties only.
`Demand` is the processor time a job may use: its scaled record, or the critical
section if that is longer, and for each loop what an iteration may take beyond
the last tick it was given.

### `ExecTimes`, `TextProofs`

`get_exec_times()` over every text of five kinds of characters up to a length.
The time read is represented by its position in the text, so that reading the
wrong field is visible. `skip_comments()` and `skip_to_next_line()` are
functions of the position; `fscanf("%*s,")` and `fscanf("%lf")` are modelled by
what they skip and match. Records and fields are defined a second time without
the code, for the properties to compare with. `CommentsApart` names the files
whose comments cannot be taken for columns: column 1 is read, there are none, or
the file is well-formed. Its specification is `FileSpec`; its names differ from
those of `ReadMapping` because `TextProofs` and `MCText`, the proofs and the run
about the two readers of texts, extend both.

### `Skeletons`, `SkeletonsProofs`

The two example programs as threads over `task_mode()`, which is two steps:
`sched_getscheduler()` (`Read`) and `sched_setscheduler()` or an error (`Set`).
Other processes change the class of a thread at any time (`OtherSets`), as two
tests in `core_api.c` do. Every call may fail; as in the code the results are
printed and ignored. `pthread_join()` of a thread that could not be created is
undefined and returns or ends the process. `JobResults` are the results that
`job()` may have: its declaration promises 0 to go on and 1 to leave, and the
examples' own returns 0 for ever. The run allows both, for the programs built
from them. That a program ends is no property: as shipped it does not.
`meddled` and `fresh` record what others did and whether a release preceded a
job; no step of the programs reads them.

### `Uncache`, `UncacheProofs`

`main()` over each command line, `do_data()` with its failing calls,
`do_data_compare()` and the allocation search. Stamps are nanoseconds of a small
second; `timespec_normalize()` gives the rounds of its two loops in closed form,
with the `>` of the code. The device has a number of pages; an `mmap()` succeeds
if they suffice. `real` records what really passed, `shown` what the search
prints. `LimitFound` is about what the search has found when its loop ends,
`MaxedOut` about what it prints.

### `TestRunner`, `TestRunnerProofs`

`run_tests()` with one process per test; a test is the number of children it
forks. The polling tests of `sched.c` and `pcp.c` share one shape: fork the
children, poll `get_nr_ts_release_waiters()` until it equals their number,
release, wait for the child of highest priority (which kills the others) and
then for the others. Children of a test that failed are not killed and go on
during the next tests, as in the code; they count as waiters there. `fork()`
results are not looked at, so a `kill()` may get -1 (`HighKillsAll`).

## 3. Runs

| Run | Question | Bounds |
|---|---|---|
| `cp_protocol` | both layouts: all properties and the refinement, with fairness | 2 threads, 3 nested sections, both mapping failures |
| `cp_lost_request` | is every request visible? **violated** in the one-word layout | same, no `mmap` failure |
| `cp_page_fault` | is `MAP_FAILED` ever dereferenced? **violated** | 1 thread |
| `ts_release` | `release_ts` plain, `-w` and `-f`: barrier, whom it releases, does everything end? | 4 tasks, 3 waiting, one by `rt_launch`, all failures; unreadable statistics with `-f` |
| `tx_read` | is every mask decoded? which execution-time files are read, and is it the right column? | masks of 1 to 6 digits in 2-digit groups of 2-bit digits; all texts of up to 8 characters, columns 1 and 2 |
| `dom_place` | placement and queries while CPUs and plugins change | 2 tasks, 3 CPUs (one online set with a gap), 3 plugins, 2-bit masks |
| `rj_jobs` | locking, lengths of loops and jobs, emergency exits, end | 3 tasks, 2 processors, 7 ticks; a critical section shorter and one longer than the job; lock calls that fail; iterations of 1 or 3 ticks in a job of 2 |
| `uc_tests` | what is given back, exact times, verdicts, the end of the search | 8 command lines, devices of 0 to 12 pages, seconds of 4 ns and microseconds of 2 |
| `uc_maxed` | does the search print what it counted? **violated** | same |
| `sk_threads` | mode and pace of the threads, and the frame they share | 2 threads, any number of jobs, `job()` returning 0 or 1, all failures, any change by others |
| `tr_runner` | what is counted, who is released, does the suite end? | tests with 2, 0 and 3 children, any process failing |
| `et_csv` | is a comma-separated column found, and in its own line? **violated** | texts of up to 5 characters, column 2 |

The bounds: two threads are enough to lose and get back the processor, and
three levels distinguish the outermost section, an inner one and one with both
above and below it. Four tasks allow one in setup, one waiting, one dead and
one that never waits at the same time. Masks of six digits have one, two and
three groups, with full and short first groups. The plugins differ in the
shape and in the number of their domains, so that a switch can take a task's CPU
out of its domain or its domain away, and with three CPUs online two bits are too
few for a mask. Eight characters hold two records of
two columns, or short and empty lines and comments around one. Jobs of up to
five ticks have all three loops, with several iterations in one of them, and a
first iteration of 3 ticks exceeds a job of 2 (the overrun that `LoopLength`
bounds; a later iteration longer than guessed is left to its proof). Time
stamps reach over two full seconds, so that differences borrow and do not.
The devices end the search in the first, second and third round, with and
without a mapping in it. A test of three children after one of two has
enough children left over to be released early by them.

Runs switch deadlock checking off: tasks, threads and calls end. The type
invariants of `ControlPage` and `TaskSystem` are parts of the inductive
invariants that are checked; those of `Domains`, `Skeletons`, `Uncache` and
`TestRunner` are proved; in `RtspinJobs` `TypeOK` documents the variables, of
which the proofs use their own typing (`JobTypes`).

Fairness. `ControlPage!FairSpec`: the running thread executes its next
instruction inside the library; nothing is assumed of what programs call or
when the kernel preempts. `TaskSystem!FairSpec`: processes that can run do, and
a statistics file that can be read is read eventually; failures are never
forced. `RtspinJobs!FairSpec`: time passes, a task that spins gets processor
time again and again, and a task that can take its next step does.
`Uncache!FairSpec`: the tool gets processor time. `TestRunner!FairSpec`: the
runner, tests and children run; failures, and the end of a child that waits to
be killed, are never forced.

### What the violated runs show

* `cp_lost_request`: the kernel's request falls between the load and the store
  of a count; the store writes the old `preempt` back. `exit_np()` then returns
  without yielding and `requested_to_preempt()` says 0. `cp_protocol` and the
  proofs show that this is all that goes wrong: `NoStuckSection`, `PollHonest` and
  `NonPreemptive` hold in either layout, and a preemption asked for at any other
  moment is served at the end of the section.
* `cp_page_fault`: `init_kernel_iface()` returns an error but leaves
  `MAP_FAILED` in `ctrl_page`; every later test is against NULL.
* `et_csv`: `"%*s,"` swallows commas and skips newlines, so a column after the
  first is looked for in the lines that follow. In the trace, `1,2` with `-o 2`,
  there is none and the call fails. Where a comment follows, a number in it is
  returned as if it were the column: `1,2,3`, `# 4` with `-o 3` gives 4, and so
  does an empty line before `# 4` with `-o 2`. The premises of `RecordsRead`
  (`Complete`, `CommentsApart`) name the files for which a call that returns has
  read the right fields; a last line without newline is no record for the code.
* `uc_maxed`: the size is doubled before the loop is left, so the message names
  twice the size of the mappings it counts. What was counted is right
  (`LimitFound`).

Met while modelling, without a run of its own: a job that starts before the
program's end and takes more than a second passes `program_end + 1` and takes
the emergency exit with nothing wrong in the kernel, which its comment rules
out (`LockReturned` and `StopsLate` show that no harm comes of it); `srand()`
does not seed `drand48()`, so every rtspin places its critical sections at the
same sequence of offsets; the program end of `-f` is computed from unscaled
records, so with `-s` above 1 it comes early once jobs overrun their records by
more than a period (the premise of `EveryRecordRuns`).
A failed read of the statistics leaves `ready = all = 0`, which ends the loop of
`release_ts -w` at once, while `-f` goes on (the condition `Informed`).
`domain_to_first_cpu()` scans numbers below the *count* of online CPUs, so with a
gap it may find none or an offline one; no task is misplaced by it, as the kernel
refuses such a CPU (`RunsInItsDomain` covers gaps). A plugin switch between the
two reads of the mapping leaves a task with the affinity of one plugin's domain
and a CPU of another's: the one case `RunsInItsDomain` has to excuse for the
affinity. Without the
device `do_max_alloc()` reports 0 mappings and success. `task_mode()` sets `errno` to
`-EINVAL`. A test child that fails before it waits leaves its parent polling for
ever, and a test that fails before its release leaves children that are counted
by later tests: the conditions of `SuiteEnds` and `OwnWaiters`.

## 4. Proofs

`ControlPageProofs`, for every non-empty set of threads, nesting bound, set of
mapping failures and layout:

* `InductiveInvariant`: `Spec => []IInv`. None of the properties is inductive.
  The invariant adds that library code past the pointer test has the page
  (`PointerInv`), that `flag` equals the open sections plus the one being
  closed, less the missed ones (`CountInv`), that a loaded word is current and
  carries no request that is not outstanding, and in the one-word layout every
  one that is not `raced` (`RegInv`), where a request can be (`RequestInv`), and
  that one which is not `raced` is still in the word (`KeptInv`). A step changes one
  thread's state, so `OthersKept` deals with the other threads once, and each
  action is proved for its own thread.
* `NoStuckSectionHolds`, `PollHonestHolds`, `NonPreemptiveHolds`,
  `DelayedPreemptionHolds` and `Refinement`, all without an assumption about the
  layout. The last two are about the preemptions that are not `raced`; in the
  layout `"fields"` none is.

`TaskSystemProofs`, for every finite set of tasks, all options and failures:

* `TaskSystemInvariant`: `Spec => []TSInv`. The key step is `PollTSInv`: the
  tasks that wait are among those expected, so equal counts make them the same
  set (`FullSubset`); afterwards a waiting task can only be killed.
* `CommonReleaseHolds` and `AllTasksReadyHolds`.

`DomainsProofs`, for every set of tasks, CPUs, plugins and online sets:
`RunsInItsDomainHolds` and `MaskCompleteHolds` from `DomInv`, which adds that a
task between its two reads of the mapping has moved to its domain, unless plugins
were switched since (`PlaceInv`); `FirstCpuOfDomain` is about
`domain_to_first_cpu()` itself. A mask is complete because without gaps the CPUs are below their
number, which the code has compared with the bits of the mask.

`SkeletonsProofs`, for every number of threads, all results of `job()` and all
failures:
`ModeAsAskedHolds`, `PacedHolds`, `FrameOutlivesThreadsHolds` from `SkInv`. It
adds that what `task_mode()` has read is still the thread's class unless somebody
changed it (`ReadInv`), and that the threads before the index of the join loop
are over (`JoinInv`).

`RtspinJobsProofs`, for every set of tasks, times, iteration lengths, failing
lock calls and schedules:

* `ExclusiveHolds` and `LockReturnedHolds` from `LockInv`: the owner is between
  its lock and unlock calls and was not denied, a task that believes to be inside
  owns the lock, and the queue holds waiting tasks, each once.
* `LoopLengthHolds`, `JobLengthHolds` and `StopsLateHolds` from `JobInv`. A bound
  at the end of a job says nothing about its middle, so `WorkInv` says at each
  step what the loops so far may have used, and `ChunkInv` that the two parts
  around the critical section have the same sign (their sum may be negative);
  `LateInv` counts the iterations that may begin past a deadline. The greatest
  and least iteration exist because `Costs[t]` is finite (`GreatestElement`,
  `LeastElement`).
* `EveryRecordRunsHolds` from `RecordInv`: of a task that nothing delayed and
  whose jobs keep up (`KeepsUp`, the premise of the property), `PaceInv` says that
  job `n` starts no later than the records and periods before it allow
  (`Start(t, n)`). The program's end is a fold over the records; `SumsExist` and
  `PartSumsFacts` establish what the fold computes and `FoldIsPrefix` that it is
  the sum of the records, from which `StartFacts` and `EndsBeforeHorizon` follow.

`UncacheProofs`, for every number of pages, trials, clock rate, device and last
stamp: `AllReturnedHolds`, `TimeExactHolds`, `VerdictFairHolds` and
`LimitFoundHolds` from `UncacheInv`. It adds which pages are held at each step
(`PagesInv`), that a time is unknown or exact (`TimesInv`), the order of the
stamps and of the tests (`OrderInv`), and what the last round of the search has
established when `Report` finds its size already doubled, the round before
included (`RoundInv`). Exactness rests on
`DivUnique`: a quotient is what divides with a remainder below the divisor.
`StepsBounded` is about the tool's end: each step lowers `StepsLeft`, a natural
number. A round of the search that goes well has mapped at least its size, which
doubles, so the rounds that can go well become fewer; in each of them `count`
rises.

`TestRunnerProofs`, for every suite and all failures: `OkMeansPassedHolds`,
`OwnWaitersHolds` and `AllOkHolds` from `RunnerInv`. It adds that later tests have
not begun (`ProgressInv`), that a test that reaps has seen its first children end
as it asserts and nobody is left to change that (`PassedInv`), that the count is
at most the tests that passed (`CountInv`), whose the waiting tasks can be
(`WaitInv`; a poll then compares two finite sets of which one includes the
other), and what holds while nothing has failed (`CleanInv`).

`TextProofs`, about `ReadMapping`, for every width that fits the buffer and every size of
groups, digits and longs: `DecodedSoFarHolds` and `DecodesMaskHolds` from
`DecodeInv`. While the loop runs the pointer is where group `i` from the right
begins, or before the buffer if that group is short (`Decoding`). `TextShape` and
`BitsOfText` relate the length of the text to its digits and commas and show that
`nbits` is exact, `CapacityEnough` that no CPU is beyond the allocated size, and
`BitsMakeDigit`, by induction on the bits, that each set of bits is a digit, so
that the `CHOOSE` in `Digit` finds one. `DecodingEnds`: each step lowers
`CharsLeft`, since the pointer moves back or the group was the last.

`TextProofs`, about `ExecTimes`, for files of every length and every column:
`RecordsReadHolds` and `GoodFilesAcceptedHolds` from `FileInv`.

* `PassInv`: both passes stop at beginnings of lines only, and the first one
  counts the records before its position (`FirstRecord`, `NoRecordsLeft`).
* `StepInv`: a turn of the second loop takes at least one record (`ReadsRecord`),
  because the number it finds is in a record ahead of it (`LineOfNumber`); if no
  turn so far has taken two, the times are those of the first records. It assumes
  what `RecordsRead` does: elsewhere the number may be in a comment. That the
  times are right is not an invariant by itself: a short line makes the loop run
  on, and only the equal counts that the assertion at the end compares exclude it.
* `GoodInv`: in a well-formed file a turn takes exactly one record (`ReadsGood`).

The columns are a walk of positions, of which `WalkExists` shows that the
recursive function in `ColumnAt` is one. `StaysInLine` and `ReachesField` say, by
induction over the columns, that a walk that ends in the line where it began has
found the wanted field, and that it finds the field if there is one.
`FileReadingEnds`: each step lowers `TurnsLeft`, because each turn of the first
loop counts a record and each turn of the second one reads a time for one.

Assumptions on constants, all evaluated by TLC on the runs: their types;
`WidthsFit` (the kernel prints no more than `MaxCPUs`); `LongsFit` (a group is a
whole part of a long or the other way round); `PowersOfTwo`, the law of `^` for
the exponents digits need, which the provers do not know; `HorizonFar` (the
modelled clock stops behind every deadline); `FaultsKnown`.

Induction. The library's induction theorems take an operator and cannot be
instantiated here. Where a proof needs induction over numbers it takes the least
counterexample instead: `LeastElement`, from the well-foundedness of `<` on the
natural numbers, and `InductionSet`, which states the same for a set.

Only model-checked is liveness (`ImplementsFairNPSections`, `AllComplete`,
`WaitTerminates`, `Terminates`, `Finishes`, `SuiteEnds`), which the
prover does not handle: that processes go on rests on fairness. What can be proved
of it without fairness is proved where a process runs by itself: the steps of
`uncache`, `read_mapping()` and `get_exec_times()` are bounded (`StepsBounded`,
`DecodingEnds`, `FileReadingEnds`). That none of them is stuck before its end is
checked by TLC for `uncache` (`Finishes`); in the other two the guards of the
actions are complementary. Every invariant and action property of a passing run is proved.

## 5. Not modelled, and the plan

Not modelled: printing and usage messages, clock reading and overhead tools
(`cycles`, `null_call`, `clocks.c`), constant tables and parameter defaults,
`release_master()` (which reads a number), menus of the scripts, the tests that
check one kernel call after the other, the generated test catalogue, memory
ordering weaker than the barrier in `exit_np()` provides. Sizes of C types are
not modelled where only a build could tell (`calloc()` of pointers for doubles
in `rtspin.c`).

What would come next:

1. Mutual exclusion as an abstract specification that `RtspinJobs` implements,
   with the refinement proved from `LockInv`.
2. The lock protocol table as operators, if a property of it turns out to matter.
