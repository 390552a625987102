------------------------------- MODULE Domains -------------------------------
(***************************************************************************)
(* Placing a task (src/src/migration.c and the sporadic_*() functions in   *)
(* src/src/litmus.c, of which sporadic_partitioned() and                   *)
(* sporadic_clustered() do the same): a task migrates to its scheduling    *)
(* domain, looks up the domain's first CPU, sets its parameters and        *)
(* becomes a real-time task, while the operator switches plugins and CPUs  *)
(* come and go.  read_mapping() is taken to return the kernel's set, which *)
(* ReadMapping establishes.                                                *)
(***************************************************************************)
EXTENDS Integers, FiniteSets, FiniteSetsExt

CONSTANTS
    Tasks,
    CPUs,        \* CPU numbers
    Domains,     \* domain numbers that programs name
    Mappings,    \* per plugin, the sets in /proc/litmus/domains
    OnlineSets,  \* the sets of CPUs that may be online
    MaskBits     \* bits of an unsigned long long (64)

ASSUME CPUNumbers == IsFiniteSet(CPUs) /\ CPUs \subseteq Nat /\ 0 \in CPUs
ASSUME DomainNumbers == Domains \subseteq Nat
ASSUME MappingsTyped ==
    Mappings \subseteq UNION {[D -> SUBSET CPUs] : D \in SUBSET Domains}
ASSUME OnlineTyped == OnlineSets \subseteq SUBSET CPUs \ {{}}
ASSUME MaskTyped == MaskBits \in Nat

VARIABLES
    mapping,   \* the active plugin's domains
    online,    \* the CPUs online
    pc,        \* pc[t]: t's progress in its setup
    dom,       \* dom[t]: the domain t was given, or Global
    affinity,  \* affinity[t]: the CPUs t may run on
    cpu,       \* cpu[t]: param.cpu
    switched,  \* history, switched[t]: whether plugins were switched under t
               \* since it moved to its domain, and when
    answer     \* the mask of the last query, and what was asked

vars == <<mapping, online, pc, dom, affinity, cpu, switched, answer>>

NoAnswer == [mask |-> {}, asked |-> {}]
Global == -1

TypeOK ==
    /\ mapping \in Mappings /\ online \in OnlineSets
    /\ pc \in [Tasks -> {"idle", "migrate", "cpu", "params", "set", "rt"}]
    /\ dom \in [Tasks -> Domains \cup {Global}]
    /\ affinity \in [Tasks -> SUBSET CPUs]
    /\ cpu \in [Tasks -> CPUs \cup {-1}]
    /\ switched \in [Tasks -> {"no", "lookup", "later"}]
    /\ answer \in [mask : SUBSET Nat, asked : SUBSET Nat]

Init ==
    /\ mapping \in Mappings /\ online \in OnlineSets
    /\ pc = [t \in Tasks |-> "idle"]
    /\ \E d \in Domains : dom = [t \in Tasks |-> d]
    /\ affinity = [t \in Tasks |-> CPUs]
    /\ cpu = [t \in Tasks |-> 0]
    /\ switched = [t \in Tasks |-> "no"]
    /\ answer = NoAnswer

-------------------------------------------------------------------------------
(* src/src/migration.c *)

num_online_cpus == Cardinality(online)

\* Online CPUs are numbered from 0 without gaps: the code takes their number
\* for the limit of their numbers.
NoGaps == online = 0 .. num_online_cpus - 1

\* The active plugin has no more domains than CPUs are online: the code tests
\* the number of CPUs before it packs a set of domains, too.
FewDomains == \A d \in DOMAIN mapping : d < num_online_cpus

\* read_mapping() succeeds for a domain of the active plugin.
HasDomain(d) == d \in DOMAIN mapping

\* domain_to_first_cpu(): the first of CPUs 0, 1, ..., as many as are online.
domain_to_first_cpu(d) ==
    LET found == {c \in 0..num_online_cpus - 1 : HasDomain(d) /\ c \in mapping[d]}
    IN  IF found = {} THEN -1 ELSE Min(found)

\* Mutant: a mask is returned however many CPUs there are.
PackAlways(n) == TRUE

\* domain_to_cpus() refuses when the CPUs do not fit its mask.
CanPack(n) == n <= MaskBits

\* cpusettoull()
Pack(S) == {c \in S : c < MaskBits}

\* sched_setaffinity(), external: some CPU of the set must be online.
CanRunOn(S) == S \cap online # {}

Goto(t, label) == pc' = [pc EXCEPT ![t] = label]

\* domain_to_cpus() and cpu_to_domains(): programs inspect the mapping.
Query(t, set, complete) ==
    /\ pc[t] = "idle"
    /\ CanPack(num_online_cpus)
    /\ answer' = [mask |-> Pack(set), asked |-> complete]
    /\ UNCHANGED <<mapping, online, pc, dom, affinity, cpu, switched>>

DomainToCpus(t, d) ==
    /\ HasDomain(d)
    /\ Query(t, mapping[d], IF NoGaps THEN mapping[d] \cap online ELSE {})

CpuToDomains(t, c) ==
    LET ds == {d \in DOMAIN mapping : c \in mapping[d]}
    IN  c \in online /\ Query(t, ds, IF FewDomains THEN ds ELSE {})

\* be_migrate_to_cpu(), as the tests use it before they set parameters.
BeMigrateToCpu(t, target) ==
    /\ pc[t] = "idle"
    /\ 0 <= target /\ target < num_online_cpus
    /\ CanRunOn({target})
    /\ affinity' = [affinity EXCEPT ![t] = {target}]
    /\ UNCHANGED <<mapping, online, pc, dom, cpu, switched, answer>>

-------------------------------------------------------------------------------
(* src/src/litmus.c: the sporadic_*() functions and what follows them *)

\* sporadic_global(): the default CPU, and no migration.
SporadicGlobal(t) ==
    /\ pc[t] = "idle"
    /\ dom' = [dom EXCEPT ![t] = Global]
    /\ cpu' = [cpu EXCEPT ![t] = 0]
    /\ Goto(t, "params")
    /\ UNCHANGED <<mapping, online, affinity, switched, answer>>

\* sporadic_partitioned() and sporadic_clustered().
Start(t) ==
    /\ pc[t] = "idle"
    /\ \E d \in Domains : dom' = [dom EXCEPT ![t] = d]
    /\ Goto(t, "migrate")
    /\ UNCHANGED <<mapping, online, affinity, cpu, switched, answer>>

\* Mutant: the result of be_migrate_to_domain() is not looked at.
BeMigrateUnchecked(t) ==
    /\ pc[t] = "migrate"
    /\ Goto(t, "cpu")
    /\ \/ /\ HasDomain(dom[t])
          /\ CanRunOn(mapping[dom[t]])
          /\ affinity' = [affinity EXCEPT ![t] = mapping[dom[t]]]
       \/ UNCHANGED affinity
    /\ switched' = [switched EXCEPT ![t] = "no"]
    /\ UNCHANGED <<mapping, online, dom, cpu, answer>>

\* be_migrate_to_domain(): the task moves, or the setup ends with an error (a
\* read of /proc or sched_setaffinity() failed).
BeMigrateToDomain(t) ==
    /\ pc[t] = "migrate"
    /\ \/ /\ HasDomain(dom[t])
          /\ CanRunOn(mapping[dom[t]])
          /\ affinity' = [affinity EXCEPT ![t] = mapping[dom[t]]]
          /\ Goto(t, "cpu")
       \/ /\ Goto(t, "idle")
          /\ UNCHANGED affinity
    /\ switched' = [switched EXCEPT ![t] = "no"]
    /\ UNCHANGED <<mapping, online, dom, cpu, answer>>

\* param.cpu = domain_to_first_cpu(): a second read, which may fail although
\* the first did not; the result is not looked at.
FirstCpu(t) ==
    /\ pc[t] = "cpu"
    /\ \E c \in {domain_to_first_cpu(dom[t]), -1} : cpu' = [cpu EXCEPT ![t] = c]
    /\ Goto(t, "params")
    /\ UNCHANGED <<mapping, online, dom, affinity, switched, answer>>

\* set_rt_task_param(): external, the kernel accepts a CPU that is online.
SetParams(t) ==
    /\ pc[t] = "params"
    /\ Goto(t, IF cpu[t] \in online THEN "set" ELSE "idle")
    /\ UNCHANGED <<mapping, online, dom, affinity, cpu, switched, answer>>

\* task_mode(LITMUS_RT_TASK), then task_mode(BACKGROUND_TASK).
BecomeRT(t) ==
    /\ pc[t] = "set"
    /\ Goto(t, "rt")
    /\ UNCHANGED <<mapping, online, dom, affinity, cpu, switched, answer>>

LeaveRT(t) ==
    /\ pc[t] = "rt"
    /\ Goto(t, "idle")
    /\ UNCHANGED <<mapping, online, dom, affinity, cpu, switched, answer>>

-------------------------------------------------------------------------------
(* The operator: external *)

\* What the history keeps: a switch between the migration and the lookup of the
\* CPU, or else one before the task is a real-time task.
SwitchedUnder(t) ==
    CASE pc[t] = "cpu" -> "lookup"
      [] pc[t] \in {"params", "set"} /\ switched[t] = "no" -> "later"
      [] OTHER -> switched[t]

\* setsched writes the new plugin's name without a test of its own; the kernel
\* refuses while there are real-time tasks, and only then: tasks that are still
\* setting up do not keep it from switching.
SwitchPlugin ==
    /\ \A t \in Tasks : pc[t] # "rt"
    /\ mapping' \in Mappings \ {mapping}
    /\ switched' = [t \in Tasks |-> SwitchedUnder(t)]
    /\ UNCHANGED <<online, pc, dom, affinity, cpu, answer>>

Hotplug ==
    /\ online' \in OnlineSets \ {online}
    /\ UNCHANGED <<mapping, pc, dom, affinity, cpu, switched, answer>>

Task(t) ==
    \/ SporadicGlobal(t) \/ Start(t) \/ BeMigrateToDomain(t) \/ FirstCpu(t)
    \/ SetParams(t) \/ BecomeRT(t) \/ LeaveRT(t)
    \/ \E d \in Domains : DomainToCpus(t, d)
    \/ \E c \in CPUs : CpuToDomains(t, c)
    \/ \E c \in CPUs \cup {-1} : BeMigrateToCpu(t, c)

Next == SwitchPlugin \/ Hotplug \/ \E t \in Tasks : Task(t)

Spec == Init /\ [][Next]_vars

-------------------------------------------------------------------------------
(* Properties *)

\* sporadic_partitioned() and sporadic_clustered(), "Also sets affinity masks":
\* once the parameters are set, the CPU they name is one the task may run on
\* unless plugins were switched between the two reads of the mapping, and it
\* belongs to the task's domain under the active plugin unless they were
\* switched during the setup: no failed migration or lookup, earlier
\* be_migrate_to_cpu() call or change of the CPUs online, however numbered, and
\* no switch before the task moves, separates the three.
RunsInItsDomain ==
    \A t \in Tasks : pc[t] \in {"set", "rt"} /\ dom[t] # Global =>
        /\ switched[t] # "lookup" => cpu[t] \in affinity[t]
        /\ switched[t] = "no" => cpu[t] \in mapping[dom[t]]

\* domain_to_cpus(): the mask holds every online CPU of the domain, if they are
\* numbered without gaps; cpu_to_domains(): every domain of the CPU, if there
\* are no more domains than online CPUs.
MaskComplete == answer.asked \subseteq answer.mask

===============================================================================
