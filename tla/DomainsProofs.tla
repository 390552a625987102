---------------------------- MODULE DomainsProofs ----------------------------
(***************************************************************************)
(* Proofs about Domains, for any tasks, CPUs, plugins and sets of online   *)
(* CPUs.                                                                   *)
(***************************************************************************)
EXTENDS Domains, FiniteSetTheorems, WellFoundedInduction, TLAPS

\* What a task has found out on its way: when it looks up its CPU its affinity
\* is still its domain, and when it sets its parameters the CPU is in both,
\* short of what a switch of plugins has taken apart.
PlaceInv ==
    \A t \in Tasks :
        /\ pc[t] = "cpu" /\ switched[t] # "lookup" =>
              /\ switched[t] = "no"
              /\ HasDomain(dom[t]) /\ affinity[t] = mapping[dom[t]]
        /\ pc[t] = "params" /\ dom[t] # Global /\ cpu[t] # -1 =>
              /\ switched[t] # "lookup" => cpu[t] \in affinity[t]
              /\ switched[t] = "no" => cpu[t] \in mapping[dom[t]]

\* The inductive invariant.
DomInv == TypeOK /\ PlaceInv /\ RunsInItsDomain /\ MaskComplete

\* A set of natural numbers has a smallest element.
LEMMA MinInSet ==
    ASSUME NEW S \in SUBSET Nat, S # {}
    PROVE  Min(S) \in S
<1>1. \E x \in S : \A y \in S : ~(<<y, x>> \in OpToRel(<, Nat))
  BY WFMin, NatLessThanWellFounded
<1>2. PICK x \in S : \A y \in S : ~(<<y, x>> \in OpToRel(<, Nat))
  BY <1>1
<1>3. \A y \in S : x =< y
  <2> TAKE y \in S
  <2>1. x \in Nat /\ y \in Nat
    OBVIOUS
  <2>2. ~(y < x)
    BY <1>2, <2>1 DEF OpToRel
  <2> QED
    BY <2>1, <2>2
<1> QED
  BY <1>3 DEF Min

\* The domains of a plugin are sets of CPUs.
LEMMA MappingType ==
    ASSUME mapping \in Mappings
    PROVE  /\ DOMAIN mapping \subseteq Domains
           /\ \A d \in DOMAIN mapping : mapping[d] \subseteq CPUs
<1>1. PICK D \in SUBSET Domains : mapping \in [D -> SUBSET CPUs]
  BY MappingsTyped
<1> QED
  BY <1>1

\* The number of online CPUs is a number.
LEMMA OnlineType ==
    ASSUME online \in OnlineSets
    PROVE  num_online_cpus \in Nat /\ online \subseteq CPUs
<1>1. online \subseteq CPUs
  BY OnlineTyped
<1> QED
  BY <1>1, FS_Subset, FS_CardinalityType, CPUNumbers DEF num_online_cpus

\* domain_to_first_cpu() fails, also when the active plugin has no such domain,
\* or returns a CPU of the domain.
LEMMA FirstCpuOfDomain ==
    ASSUME TypeOK, NEW d
    PROVE  \/ domain_to_first_cpu(d) = -1
           \/ HasDomain(d) /\ domain_to_first_cpu(d) \in mapping[d]
<1> DEFINE found == {c \in 0..num_online_cpus - 1 : HasDomain(d) /\ c \in mapping[d]}
<1>1. num_online_cpus \in Nat
  BY OnlineType DEF TypeOK
<1>2. found \in SUBSET Nat /\ (found # {} => HasDomain(d)) /\ found \subseteq mapping[d]
  BY <1>1
<1>3. domain_to_first_cpu(d) = IF found = {} THEN -1 ELSE Min(found)
  BY DEF domain_to_first_cpu
<1>4. found # {} => Min(found) \in found
  BY <1>2, MinInSet
<1> HIDE DEF found
<1> QED
  BY <1>2, <1>3, <1>4

\* The initial state satisfies the inductive invariant.
LEMMA InitDomInv == Init => DomInv
  BY CPUNumbers
     DEF Init, DomInv, TypeOK, PlaceInv, RunsInItsDomain,
         MaskComplete, NoAnswer

\* What is below the number of online CPUs has a bit in a mask that can hold
\* them all.
LEMMA PackKeeps ==
    ASSUME TypeOK, CanPack(num_online_cpus), NEW S \in SUBSET Nat, NEW A \in SUBSET S,
           \A n \in A : n < num_online_cpus
    PROVE  A \subseteq Pack(S)
<1>1. num_online_cpus \in Nat /\ MaskBits \in Nat /\ num_online_cpus <= MaskBits
  BY OnlineType, MaskTyped DEF TypeOK, CanPack
<1> QED
  BY <1>1 DEF Pack

\* A query changes nothing but the answer, which is complete.
LEMMA QueryDomInv ==
    ASSUME NEW t \in Tasks, DomInv,
           \/ \E d \in Domains : DomainToCpus(t, d)
           \/ \E c \in CPUs : CpuToDomains(t, c)
    PROVE  DomInv'
<1>1. TypeOK /\ mapping \in Mappings /\ num_online_cpus \in Nat
  BY OnlineType DEF DomInv, TypeOK
<1>2. PICK S \in SUBSET Nat, A \in SUBSET Nat :
          answer' = [mask |-> Pack(S), asked |-> A] /\ A \subseteq Pack(S)
  <2>1. CASE \E d \in Domains : DomainToCpus(t, d)
    <3>1. PICK d \in Domains : DomainToCpus(t, d)
      BY <2>1
    <3> DEFINE S == mapping[d]
               A == IF NoGaps THEN mapping[d] \cap online ELSE {}
    <3>2. S \in SUBSET Nat /\ A \in SUBSET S
      BY <1>1, <3>1, MappingType, CPUNumbers DEF DomainToCpus, HasDomain
    <3>3. answer' = [mask |-> Pack(S), asked |-> A] /\ CanPack(num_online_cpus)
      BY <3>1 DEF DomainToCpus, Query
    <3>4. \A n \in A : n < num_online_cpus
      BY <1>1 DEF NoGaps
    <3> HIDE DEF S, A
    <3> QED
      BY <1>1, <3>2, <3>3, <3>4, PackKeeps
  <2>2. CASE \E c \in CPUs : CpuToDomains(t, c)
    <3>1. PICK c \in CPUs : CpuToDomains(t, c)
      BY <2>2
    <3> DEFINE S == {d \in DOMAIN mapping : c \in mapping[d]}
               A == IF FewDomains THEN S ELSE {}
    <3>2. S \in SUBSET Nat /\ A \in SUBSET S
      BY <1>1, MappingType, DomainNumbers
    <3>3. answer' = [mask |-> Pack(S), asked |-> A] /\ CanPack(num_online_cpus)
      BY <3>1 DEF CpuToDomains, Query
    <3>4. \A n \in A : n < num_online_cpus
      BY DEF FewDomains
    <3> HIDE DEF S, A
    <3> QED
      BY <1>1, <3>2, <3>3, <3>4, PackKeeps
  <2> QED
    BY <2>1, <2>2
<1>3. UNCHANGED <<mapping, online, pc, dom, affinity, cpu, switched>>
  BY DEF DomainToCpus, CpuToDomains, Query
<1>4. answer' \in [mask : SUBSET Nat, asked : SUBSET Nat] /\ MaskComplete'
  BY <1>2 DEF Pack, MaskComplete
<1> QED
  BY <1>3, <1>4 DEF DomInv, TypeOK, PlaceInv, RunsInItsDomain, HasDomain

\* param.cpu is looked up in the domain the task has moved to, if the active
\* plugin still has it.
LEMMA FirstCpuDomInv ==
    ASSUME NEW t \in Tasks, DomInv, FirstCpu(t)
    PROVE  DomInv'
<1> USE DEF DomInv
<1>1. /\ pc[t] = "cpu"
      /\ pc' = [pc EXCEPT ![t] = "params"]
      /\ UNCHANGED <<mapping, online, dom, affinity, switched, answer>>
  BY DEF FirstCpu, Goto
<1>2. switched[t] # "lookup" => affinity[t] = mapping[dom[t]]
  BY <1>1 DEF PlaceInv
<1>3. PICK c : /\ cpu' = [cpu EXCEPT ![t] = c]
               /\ c = -1 \/ (HasDomain(dom[t]) /\ c \in mapping[dom[t]])
  <2>1. PICK c \in {domain_to_first_cpu(dom[t]), -1} : cpu' = [cpu EXCEPT ![t] = c]
    BY DEF FirstCpu
  <2>2. c = -1 \/ (HasDomain(dom[t]) /\ c \in mapping[dom[t]])
    BY <2>1, FirstCpuOfDomain
  <2> QED
    BY <2>1, <2>2
<1>4. c \in CPUs \cup {-1}
  BY <1>3, MappingType DEF TypeOK, HasDomain
<1>5. TypeOK'
  BY <1>1, <1>3, <1>4 DEF TypeOK
<1>6. PlaceInv'
  BY <1>1, <1>2, <1>3 DEF TypeOK, PlaceInv, HasDomain
<1>7. RunsInItsDomain'
  BY <1>1, <1>3 DEF TypeOK, RunsInItsDomain
<1>8. MaskComplete'
  BY <1>1 DEF MaskComplete
<1> QED
  BY <1>5, <1>6, <1>7, <1>8

\* The other steps of a task.
LEMMA TaskDomInv ==
    ASSUME NEW t \in Tasks, DomInv, Task(t)
    PROVE  DomInv'
<1> USE DEF DomInv, TypeOK, PlaceInv, RunsInItsDomain, MaskComplete,
            Goto, HasDomain
<1>1. CASE SporadicGlobal(t)
  BY <1>1, CPUNumbers DEF SporadicGlobal
<1>2. CASE Start(t)
  BY <1>2 DEF Start
<1>3. CASE BeMigrateToDomain(t)
  BY <1>3, MappingType DEF BeMigrateToDomain
<1>4. CASE SetParams(t)
  BY <1>4, OnlineType, CPUNumbers DEF SetParams
<1>5. CASE BecomeRT(t)
  BY <1>5 DEF BecomeRT
<1>6. CASE LeaveRT(t)
  BY <1>6 DEF LeaveRT
<1>7. CASE \E c \in CPUs \cup {-1} : BeMigrateToCpu(t, c)
  BY <1>7, OnlineType, CPUNumbers DEF BeMigrateToCpu, CanRunOn
<1> QED
  BY <1>1, <1>2, <1>3, <1>4, <1>5, <1>6, <1>7, FirstCpuDomInv, QueryDomInv DEF Task

\* Plugins are switched under tasks that are setting up, and CPUs come and go
\* at any time.
LEMMA OperatorDomInv ==
    ASSUME DomInv, SwitchPlugin \/ Hotplug
    PROVE  DomInv'
<1> USE DEF DomInv, TypeOK, PlaceInv, RunsInItsDomain, MaskComplete,
            HasDomain
<1>1. CASE SwitchPlugin
  BY <1>1 DEF SwitchPlugin, SwitchedUnder
<1>2. CASE Hotplug
  BY <1>2 DEF Hotplug
<1> QED
  BY <1>1, <1>2

\* Every step keeps the invariant.
LEMMA NextDomInv == DomInv /\ [Next]_vars => DomInv'
<1> SUFFICES ASSUME DomInv, [Next]_vars PROVE DomInv'
  OBVIOUS
<1>1. CASE UNCHANGED vars
  BY <1>1 DEF vars, DomInv, TypeOK, PlaceInv, RunsInItsDomain,
              MaskComplete, HasDomain
<1> QED
  BY <1>1, TaskDomInv, OperatorDomInv DEF Next

\* The invariant of task placement.
THEOREM DomainsInvariant == Spec => []DomInv
  BY InitDomInv, NextDomInv, PTL DEF Spec

\* A task placed by sporadic_partitioned() or sporadic_clustered() may run on
\* the CPU its parameters name unless plugins were switched between its
\* migration and the lookup, and that CPU is one of its domain unless they were
\* switched during its setup.
THEOREM RunsInItsDomainHolds == Spec => []RunsInItsDomain
<1>1. DomInv => RunsInItsDomain
  BY DEF DomInv
<1> QED
  BY <1>1, DomainsInvariant, PTL

\* The masks of domain_to_cpus() and cpu_to_domains() leave out no online CPU
\* of a domain and no domain of a CPU, given how the kernel numbers them.
THEOREM MaskCompleteHolds == Spec => []MaskComplete
<1>1. DomInv => MaskComplete
  BY DEF DomInv
<1> QED
  BY <1>1, DomainsInvariant, PTL
===============================================================================
