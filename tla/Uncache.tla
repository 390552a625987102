------------------------------- MODULE Uncache -------------------------------
(***************************************************************************)
(* The tool uncache (src/bin/uncache.c): it times accesses to cacheable    *)
(* and to uncacheable pages, compares the two, or allocates uncacheable    *)
(* pages until the device has no more.  Calls that fail end a test half-   *)
(* way; what it mapped and opened must be given back all the same.         *)
(***************************************************************************)
EXTENDS Integers, Sequences, FiniteSetsExt

CONSTANTS
    CommandLines,  \* sequences of options, "?" for one getopt() rejects
    Memory,        \* Memory: the numbers of pages the device may have
    NrPages,       \* NR_PAGES
    MaxMmaps,      \* max_mmaps
    Trials,        \* trials
    NsPerSec,      \* nanoseconds in a second (1000000000)
    NsPerUs,       \* nanoseconds in a microsecond (1000)
    LastStamp      \* where the processor-time clock stands still

ASSUME Sizes ==
    /\ {NrPages, MaxMmaps, Trials, NsPerSec, NsPerUs} \subseteq Nat \ {0}
    /\ Memory \subseteq Nat /\ LastStamp \in Nat
    /\ NsPerSec % NsPerUs = 0
ASSUME OptionsTyped == CommandLines \subseteq Seq(STRING)

VARIABLES
    pc,
    argv,     \* the options not yet parsed
    test,     \* the test main() will run
    memory,   \* the device's pages
    fd,       \* the device's descriptor: "none", "open" or "bad" (-1)
    held,     \* pages the process has mapped
    kind,     \* the pages do_data() times
    trial,    \* t in test()
    clock,    \* the thread's processor time, in nanoseconds
    start,    \* the clock at start
    elapsed,  \* elapsed[k]: what do_data() returned in *time
    real,     \* real[k]: the nanoseconds the accesses took
    count,    \* count and mmap_size, in pages, of do_max_alloc()
    size,
    shown,    \* the figures of its last message
    ret       \* the result of the test

data  == <<kind, trial, clock, start, elapsed, real>>
alloc == <<count, size, shown>>
vars  == <<pc, argv, test, memory, fd, held, data, alloc, ret>>

Kinds == {"cache", "uncache"}
Tests == [c |-> "CACHE", u |-> "UNCACHE", x |-> "COMPARE", a |-> "MAX_ALLOC"]
Unknown == -1
Nothing == [count |-> 0, pages |-> 0]

TypeOK ==
    /\ pc \in {"options", "map", "begin", "trial", "end", "ratio", "alloc",
               "mmap", "report", "exit"}
    /\ test \in {Tests[o] : o \in DOMAIN Tests} /\ memory \in Memory
    /\ fd \in {"none", "open", "bad"} /\ held \in Nat
    /\ kind \in Kinds /\ trial \in 0 .. Trials
    /\ clock \in 0 .. LastStamp /\ start \in 0 .. LastStamp
    /\ elapsed \in [Kinds -> Int] /\ real \in [Kinds -> Int]
    /\ count \in 0 .. MaxMmaps /\ size \in Nat \ {0}
    /\ shown \in [count : Nat, pages : Nat] /\ ret \in {0, -1}

Init ==
    /\ pc = "options" /\ argv \in CommandLines /\ test = "UNCACHE"
    /\ memory \in Memory /\ fd = "none" /\ held = 0
    /\ kind = "cache" /\ trial = 0 /\ clock = 0 /\ start = 0
    /\ elapsed = [k \in Kinds |-> Unknown] /\ real = [k \in Kinds |-> Unknown]
    /\ count = 0 /\ size = 1 /\ shown = Nothing /\ ret = 0

-------------------------------------------------------------------------------
(* main() *)

\* One option; the last one counts, and one that is not known ends the tool.
ParseOption ==
    /\ pc = "options" /\ argv # <<>>
    /\ argv' = Tail(argv)
    /\ \/ /\ Head(argv) \in DOMAIN Tests
          /\ test' = Tests[Head(argv)]
          /\ UNCHANGED <<pc, ret>>
       \/ /\ Head(argv) \notin DOMAIN Tests
          /\ pc' = "exit" /\ ret' = -1
          /\ UNCHANGED test
    /\ UNCHANGED <<memory, fd, held, data, alloc>>

RunTest ==
    /\ pc = "options" /\ argv = <<>>
    /\ pc' = IF test = "MAX_ALLOC" THEN "alloc" ELSE "map"
    /\ kind' = IF test = "UNCACHE" THEN "uncache" ELSE "cache"
    /\ UNCHANGED <<argv, test, memory, fd, held, trial, clock, start, elapsed,
                   real, alloc, ret>>

-------------------------------------------------------------------------------
(* Time stamps *)

timespec(ns) == [sec |-> ns \div NsPerSec, nsec |-> ns % NsPerSec]

\* Mutant: nanoseconds below zero are left as they are.
NoBorrow(sec, nsec) ==
    LET over == Max({0, (nsec - 1) \div NsPerSec})
    IN  [sec |-> sec + over, nsec |-> nsec - over * NsPerSec]

\* The rounds of the first loop, which a full second does not enter, and of
\* the second.
timespec_normalize(sec, nsec) ==
    LET over  == Max({0, (nsec - 1) \div NsPerSec})
        under == Max({0, (NsPerSec - 1 - nsec) \div NsPerSec})
    IN  [sec  |-> sec + over - under,
         nsec |-> nsec + (under - over) * NsPerSec]

timespec_sub(lhs, rhs) ==
    timespec_normalize(lhs.sec - rhs.sec, lhs.nsec - rhs.nsec)

\* C's division, towards zero.
Quotient(n, d) == IF n < 0 THEN -((-n) \div d) ELSE n \div d

timespec_to_us(ts) ==
    ts.sec * (NsPerSec \div NsPerUs) + Quotient(ts.nsec, NsPerUs)

-------------------------------------------------------------------------------
(* do_data(): its caller is main(), or do_data_compare() for both kinds *)

\* What the caller does with do_data()'s result.
DataReturns(r) ==
    \/ /\ test = "COMPARE" /\ r = 0
       /\ IF kind = "cache" THEN pc' = "map" /\ kind' = "uncache"
                            ELSE pc' = "ratio" /\ UNCHANGED kind
       /\ UNCHANGED ret
    \/ /\ test # "COMPARE" \/ r # 0
       /\ pc' = "exit" /\ ret' = r
       /\ UNCHANGED kind

\* open() and mmap(), or mmap() alone; without the device, or without pages,
\* mmap() fails.
MapData ==
    /\ pc = "map"
    /\ \/ /\ kind = "uncache" => NrPages <= memory
          /\ held' = held + NrPages
          /\ pc' = "begin"
          /\ UNCHANGED <<kind, ret>>
       \/ /\ DataReturns(-1)
          /\ UNCHANGED held
    /\ UNCHANGED <<argv, test, memory, fd, trial, clock, start, elapsed, real,
                   alloc>>

\* The scheduling class is changed or not; the clock is read.
BeginTest ==
    /\ pc = "begin"
    /\ clock' \in clock .. LastStamp
    /\ start' = clock' /\ trial' = 0
    /\ pc' = "trial"
    /\ UNCHANGED <<argv, test, memory, fd, held, kind, elapsed, real, alloc, ret>>

\* Mutant: a failed test returns with its pages mapped.
TrialKeepsPages ==
    /\ pc = "trial" /\ trial < Trials
    /\ clock' \in clock .. LastStamp
    /\ \/ /\ trial' = trial + 1
          /\ pc' = IF trial' = Trials THEN "end" ELSE "trial"
          /\ UNCHANGED <<kind, ret>>
       \/ DataReturns(-1) /\ UNCHANGED trial
    /\ UNCHANGED <<argv, test, memory, fd, held, start, elapsed, real, alloc>>

\* A turn of test(): the first byte is written and read back, and has the
\* value written or not.
Trial ==
    /\ pc = "trial" /\ trial < Trials
    /\ clock' \in clock .. LastStamp
    /\ \/ /\ trial' = trial + 1
          /\ pc' = IF trial' = Trials THEN "end" ELSE "trial"
          /\ UNCHANGED <<held, kind, ret>>
       \/ /\ DataReturns(-1)
          /\ held' = held - NrPages
          /\ UNCHANGED trial
    /\ UNCHANGED <<argv, test, memory, fd, start, elapsed, real, alloc>>

\* The second stamp, the time, munmap(), return 0.
EndTest ==
    /\ pc = "end"
    /\ clock' \in clock .. LastStamp
    /\ elapsed' = [elapsed EXCEPT ![kind] =
           timespec_to_us(timespec_sub(timespec(clock'), timespec(start)))]
    /\ real' = [real EXCEPT ![kind] = clock' - start]
    /\ held' = held - NrPages
    /\ DataReturns(0)
    /\ UNCHANGED <<argv, test, memory, fd, trial, start, alloc>>

\* Mutant: the ratio the wrong way round.
RatioInverted(cached, uncached) == uncached > 0 /\ 10 * cached < 13 * uncached

\* ratio < 1.3; with a cached time of 0 the quotient is infinite or not a
\* number, and the comparison false.
RatioSmall(cached, uncached) == cached > 0 /\ 10 * uncached < 13 * cached

Compare ==
    /\ pc = "ratio"
    /\ ret' = IF RatioSmall(elapsed["cache"], elapsed["uncache"]) THEN -1 ELSE 0
    /\ pc' = "exit"
    /\ UNCHANGED <<argv, test, memory, fd, held, data, alloc>>

-------------------------------------------------------------------------------
(* do_max_alloc() *)

\* calloc() and open(); the descriptor is not looked at.
StartAlloc ==
    /\ pc = "alloc"
    /\ \/ /\ fd' \in {"open", "bad"}
          /\ pc' = "mmap" /\ count' = 0
          /\ UNCHANGED ret
       \/ /\ pc' = "exit" /\ ret' = -1
          /\ UNCHANGED <<fd, count>>
    /\ UNCHANGED <<argv, test, memory, held, data, size, shown>>

Succeeds == fd = "open" /\ held + size <= memory

\* mmap() succeeds: kept in maps[i], i being count until one fails.
MmapMore ==
    /\ pc = "mmap" /\ count < MaxMmaps /\ Succeeds
    /\ held' = held + size
    /\ count' = count + 1
    /\ UNCHANGED <<pc, argv, test, memory, fd, data, size, shown, ret>>

\* Mutants: the mmap() that failed is counted; the size stays the same.
UnmapCountsFailed(good) ==
    /\ held' = held - count * size
    /\ size' = 2 * size
    /\ pc' = IF good THEN "mmap" ELSE "report"
    /\ count' = IF good THEN 0 ELSE count + 1
UnmapSameSize(good) ==
    /\ held' = held - count * size
    /\ pc' = IF good THEN "mmap" ELSE "report"
    /\ count' = IF good THEN 0 ELSE count
    /\ UNCHANGED size

\* The end of a round: everything is unmapped, the size doubles, and after a
\* round without a failure there is another.
UnmapAll(good) ==
    /\ held' = held - count * size
    /\ size' = 2 * size
    /\ pc' = IF good THEN "mmap" ELSE "report"
    /\ count' = IF good THEN 0 ELSE count

EndRound ==
    /\ pc = "mmap"
    /\ \/ count = MaxMmaps /\ UnmapAll(TRUE)
       \/ count < MaxMmaps /\ ~Succeeds /\ UnmapAll(FALSE)
    /\ UNCHANGED <<argv, test, memory, fd, data, shown, ret>>

\* close() and the last message.
Report ==
    /\ pc = "report"
    /\ fd' = "none"
    /\ shown' = [count |-> count, pages |-> size]
    /\ pc' = "exit" /\ ret' = 0
    /\ UNCHANGED <<argv, test, memory, held, data, count, size>>

Next ==
    \/ ParseOption \/ RunTest \/ MapData \/ BeginTest \/ Trial \/ EndTest
    \/ Compare \/ StartAlloc \/ MmapMore \/ EndRound \/ Report

Spec == Init /\ [][Next]_vars

\* The tool is a process that gets processor time.
FairSpec == Spec /\ WF_vars(Next)

-------------------------------------------------------------------------------
(* Properties *)

\* Whichever call of do_data() or do_max_alloc() fails, no page is mapped when
\* the next test of do_data_compare() begins, and neither a page nor the device
\* is left when the tool ends.
AllReturned ==
    /\ pc \in {"map", "alloc", "ratio", "report", "exit"} => held = 0
    /\ pc = "exit" => fd = "none"

\* do_data(): the time is the difference of the two stamps in whole
\* microseconds, on whichever sides of full seconds they lie.
TimeExact ==
    \A k \in Kinds : elapsed[k] # Unknown => elapsed[k] = real[k] \div NsPerUs

\* do_data_compare(), "Ratio is unexpectedly small": but for what is lost with
\* less than a microsecond of either time, it returns 0 if uncached accesses
\* took 1.3 times as long as cached ones, and -1 if they did not.
VerdictFair ==
    (pc = "exit" /\ test = "COMPARE" /\ \A k \in Kinds : real[k] # Unknown) =>
        LET quick == 13 * real["cache"]
            slow  == 10 * real["uncache"]
        IN  IF ret = 0 THEN slow > quick - 13 * NsPerUs
                       ELSE slow < quick + 10 * NsPerUs

\* do_max_alloc(), "tries to max out uncache allocations": with the device open
\* it stops in the first round, sizes doubling from a page, whose max_mmaps
\* mappings the device cannot hold, and has counted as many as it can.  size is
\* by then the next round's.
LimitFound ==
    pc = "report" /\ fd = "open" =>
        LET tried == size \div 2
        IN  /\ count * tried <= memory /\ memory < (count + 1) * tried
            /\ tried > 1 => MaxMmaps * (tried \div 2) <= memory

\* do_max_alloc(), "Maxed out allocs with %d mmaps of %"PRIu64" pages in size.":
\* that many mappings of that size are what the device holds.
MaxedOut ==
    shown.count > 0 =>
        /\ shown.count * shown.pages <= memory
        /\ memory < (shown.count + 1) * shown.pages

\* do_max_alloc() repeats "while(good)": the tool comes to its end.
Finishes == <>(pc = "exit")
===============================================================================
