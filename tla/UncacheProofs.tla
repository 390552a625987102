---------------------------- MODULE UncacheProofs ----------------------------
(***************************************************************************)
(* Proofs about uncache, for any page counts, clock rates and memories:    *)
(* what its tests map is given back, the times it prints are exact, its    *)
(* verdict follows from them, and the maximum it reports is one.           *)
(***************************************************************************)
EXTENDS Uncache, TLAPS

-------------------------------------------------------------------------------
(* Integer division and time stamps *)

\* Division leaves a remainder below the divisor.
LEMMA DivMod ==
    ASSUME NEW n \in Int, NEW d \in Nat \ {0}
    PROVE  /\ n \div d \in Int /\ n % d \in 0 .. d - 1
           /\ n = d * (n \div d) + (n % d)
  OBVIOUS

\* A quotient is what divides with a remainder below the divisor.
LEMMA DivUnique ==
    ASSUME NEW n \in Int, NEW d \in Nat \ {0}, NEW q \in Int, NEW r \in 0 .. d - 1,
           n = d * q + r
    PROVE  n \div d = q
<1> DEFINE p == n \div d
           m == n % d
<1>1. p \in Int /\ m \in 0 .. d - 1 /\ n = d * p + m
  BY DivMod
<1> HIDE DEF p, m
<1>2. d * (p - q) = r - m
  BY <1>1
<1>3. ASSUME p - q >= 1 PROVE FALSE
  BY <1>1, <1>2, <1>3
<1>4. ASSUME q - p >= 1 PROVE FALSE
  BY <1>1, <1>2, <1>4
<1> QED
  BY <1>1, <1>3, <1>4 DEF p

\* The number of rounds of a loop of timespec_normalize().
LEMMA MaxZero ==
    ASSUME NEW x \in Int
    PROVE  Max({0, x}) = IF x > 0 THEN x ELSE 0
  BY DEF Max

\* One second is borrowed when the nanoseconds are below zero, else none.
LEMMA NormalizeBorrows ==
    ASSUME NEW ds \in Int, NEW dn \in Int, -NsPerSec < dn, dn < NsPerSec
    PROVE  timespec_normalize(ds, dn) =
               IF dn < 0 THEN [sec |-> ds - 1, nsec |-> dn + NsPerSec]
                         ELSE [sec |-> ds, nsec |-> dn]
<1> DEFINE over  == (dn - 1) \div NsPerSec
           under == (NsPerSec - 1 - dn) \div NsPerSec
<1>1. NsPerSec \in Nat \ {0}
  BY Sizes
<1>2. over \in {-1, 0}
  <2>1. CASE dn <= 0
    <3>1. dn - 1 = NsPerSec * (-1) + (NsPerSec + dn - 1)
      BY <1>1
    <3> QED
      BY <1>1, <2>1, <3>1, DivUnique
  <2>2. CASE dn > 0
    BY <1>1, <2>2, DivUnique
  <2> QED
    BY <2>1, <2>2
<1>3. under = IF dn < 0 THEN 1 ELSE 0
  <2>1. CASE dn < 0
    <3>1. NsPerSec - 1 - dn = NsPerSec * 1 + (-1 - dn)
      BY <1>1
    <3> QED
      BY <1>1, <2>1, <3>1, DivUnique
  <2>2. CASE dn >= 0
    BY <1>1, <2>2, DivUnique
  <2> QED
    BY <2>1, <2>2
<1>4. Max({0, over}) = 0 /\ Max({0, under}) = under
  BY <1>2, <1>3, MaxZero
<1>5. timespec_normalize(ds, dn) =
          [sec |-> ds + 0 - under, nsec |-> dn + (under - 0) * NsPerSec]
  BY <1>4 DEF timespec_normalize
<1> HIDE DEF under
<1> QED
  BY <1>1, <1>3, <1>5

\* The difference of two stamps as it is in whole seconds and the rest.
LEMMA DifferenceNormal ==
    ASSUME NEW s \in Nat, NEW c \in Nat, s <= c
    PROVE  LET ts == timespec_sub(timespec(c), timespec(s))
           IN  /\ ts.sec \in Int /\ ts.nsec \in 0 .. NsPerSec - 1
               /\ c - s = NsPerSec * ts.sec + ts.nsec
<1> DEFINE cs == c \div NsPerSec
           cn == c % NsPerSec
           ss == s \div NsPerSec
           sn == s % NsPerSec
<1>1. NsPerSec \in Nat \ {0}
  BY Sizes
<1>2. /\ cs \in Int /\ cn \in 0 .. NsPerSec - 1 /\ c = NsPerSec * cs + cn
      /\ ss \in Int /\ sn \in 0 .. NsPerSec - 1 /\ s = NsPerSec * ss + sn
  BY <1>1, DivMod
<1>3. timespec(c) = [sec |-> cs, nsec |-> cn] /\ timespec(s) = [sec |-> ss, nsec |-> sn]
  BY DEF timespec
<1> HIDE DEF cs, cn, ss, sn
<1>4. timespec_sub(timespec(c), timespec(s)) = timespec_normalize(cs - ss, cn - sn)
  BY <1>3 DEF timespec_sub
<1>5. /\ NsPerSec * (cs - ss) = NsPerSec * cs - NsPerSec * ss
      /\ NsPerSec * (cs - ss - 1) = NsPerSec * cs - NsPerSec * ss - NsPerSec
  BY <1>1, <1>2
<1>6. CASE cn - sn < 0
  <2>1. timespec_normalize(cs - ss, cn - sn) =
            [sec |-> cs - ss - 1, nsec |-> cn - sn + NsPerSec]
    BY <1>1, <1>2, <1>6, NormalizeBorrows
  <2> QED
    BY <1>1, <1>2, <1>4, <1>5, <1>6, <2>1
<1>7. CASE cn - sn >= 0
  <2>1. timespec_normalize(cs - ss, cn - sn) = [sec |-> cs - ss, nsec |-> cn - sn]
    BY <1>1, <1>2, <1>7, NormalizeBorrows
  <2> QED
    BY <1>1, <1>2, <1>4, <1>5, <1>7, <2>1
<1> QED
  BY <1>2, <1>6, <1>7

\* A whole number of seconds is a whole number of microseconds.
LEMMA MicrosecondsExact ==
    ASSUME NEW s \in Nat, NEW c \in Nat, s <= c
    PROVE  timespec_to_us(timespec_sub(timespec(c), timespec(s)))
               = (c - s) \div NsPerUs
<1> DEFINE ts == timespec_sub(timespec(c), timespec(s))
           q  == NsPerSec \div NsPerUs
           u  == ts.nsec \div NsPerUs
           m  == ts.nsec % NsPerUs
<1>1. NsPerSec \in Nat \ {0} /\ NsPerUs \in Nat \ {0} /\ NsPerSec % NsPerUs = 0
  BY Sizes
<1>2. q \in Int /\ NsPerSec = NsPerUs * q
  BY <1>1
<1>3. /\ ts.sec \in Int /\ ts.nsec \in 0 .. NsPerSec - 1
      /\ c - s = NsPerSec * ts.sec + ts.nsec
  BY DifferenceNormal
<1>4. timespec_to_us(ts) = ts.sec * q + u
  BY <1>3 DEF timespec_to_us, Quotient
<1> HIDE DEF ts
<1>5. ts.nsec \in Int
  BY <1>1, <1>3
<1>6. u \in Int /\ m \in 0 .. NsPerUs - 1 /\ ts.nsec = NsPerUs * u + m
  BY <1>1, <1>5, DivMod
<1> HIDE DEF q, u, m
<1>7. NsPerSec * ts.sec = NsPerUs * (ts.sec * q)
  BY <1>1, <1>2, <1>3
<1>8. ts.sec * q \in Int /\ ts.sec * q + u \in Int
  BY <1>2, <1>3, <1>6
<1>9. c - s = NsPerUs * (ts.sec * q + u) + m
  BY <1>1, <1>3, <1>6, <1>7, <1>8
<1>10. (c - s) \div NsPerUs = ts.sec * q + u
  BY <1>1, <1>6, <1>8, <1>9, DivUnique
<1> QED
  BY <1>4, <1>10 DEF ts

-------------------------------------------------------------------------------
(* The inductive invariant *)

Timing == {"begin", "trial", "end"}

\* What is mapped at each place, and when the device is open.
PagesInv ==
    /\ pc \in Timing => held = NrPages
    /\ pc = "mmap" => held = count * size /\ count * size <= memory
    /\ pc \notin Timing \cup {"mmap"} => held = 0
    /\ fd # "none" => pc \in {"mmap", "report"}

\* A time is unknown, or exact.
TimesInv ==
    \A k \in Kinds :
        \/ real[k] = Unknown /\ elapsed[k] = Unknown
        \/ real[k] \in Nat /\ elapsed[k] = real[k] \div NsPerUs

\* The first stamp is not after the second; which tests lead where, and which
\* times do_data_compare() does not know yet.
OrderInv ==
    /\ pc = "options" => \A k \in Kinds : real[k] = Unknown
    /\ pc \in {"trial", "end"} => start <= clock
    /\ pc \in {"alloc", "mmap", "report"} => test = "MAX_ALLOC"
    /\ (test = "COMPARE" /\ pc \in {"map"} \cup Timing) => real["uncache"] = Unknown

\* A round of this size follows on one in which all mappings of half the size
\* were there together.
Doubled(s) == s = 1 \/ \E half \in Nat : s = 2 * half /\ MaxMmaps * half <= memory

\* After the round that failed, size is twice what was tried.
RoundInv ==
    /\ pc \notin {"mmap", "report", "exit"} => size = 1
    /\ pc = "mmap" => Doubled(size)
    /\ pc = "report" =>
           \E tried \in Nat :
               /\ size = 2 * tried /\ Doubled(tried)
               /\ fd = "open" => count * tried <= memory /\ memory < (count + 1) * tried

UncacheInv ==
    TypeOK /\ PagesInv /\ TimesInv /\ OrderInv /\ RoundInv /\ VerdictFair

\* The initial state satisfies the inductive invariant.
LEMMA InitUncacheInv == Init => UncacheInv
<1> SUFFICES ASSUME Init PROVE UncacheInv
  OBVIOUS
<1>1. TypeOK
  BY Sizes DEF Init, TypeOK, Kinds, Tests, Unknown, Nothing
<1>2. PagesInv /\ TimesInv /\ OrderInv /\ RoundInv /\ VerdictFair
  BY Sizes DEF Init, PagesInv, TimesInv, OrderInv, RoundInv, VerdictFair, Timing
<1> QED
  BY <1>1, <1>2 DEF UncacheInv

\* The options choose the test before anything is mapped.
LEMMA OptionsUncacheInv ==
    ASSUME UncacheInv, ParseOption \/ RunTest
    PROVE  UncacheInv'
<1> USE DEF UncacheInv, data, alloc
<1>1. CASE ParseOption
  <2> USE <1>1 DEF ParseOption
  <2>1. TypeOK'
    BY DEF TypeOK, Tests
  <2>2. PagesInv' /\ TimesInv' /\ RoundInv'
    BY DEF PagesInv, TimesInv, RoundInv, Doubled, Timing
  <2>3. OrderInv' /\ VerdictFair'
    BY DEF OrderInv, VerdictFair, Timing, Kinds
  <2> QED
    BY <2>1, <2>2, <2>3
<1>2. CASE RunTest
  <2> USE <1>2 DEF RunTest
  <2>1. TypeOK'
    BY DEF TypeOK, Kinds
  <2>2. PagesInv' /\ TimesInv' /\ RoundInv'
    BY DEF PagesInv, TimesInv, RoundInv, Doubled, Timing
  <2>3. OrderInv' /\ VerdictFair'
    BY DEF OrderInv, VerdictFair, Timing, Kinds
  <2> QED
    BY <2>1, <2>2, <2>3
<1> QED
  BY <1>1, <1>2

\* Where the caller of do_data() goes on: only with both times known to the
\* ratio, and with the first alone to the second test.
LEMMA DataReturnsTo ==
    ASSUME NEW r \in {0, -1}, DataReturns(r), kind \in Kinds, ret \in {0, -1}
    PROVE  /\ kind' \in Kinds /\ ret' \in {0, -1}
           /\ pc' \in {"map", "ratio", "exit"}
           /\ pc' = "map" => kind = "cache"
           /\ pc' = "exit" => test # "COMPARE" \/ r = -1
  BY DEF DataReturns, Kinds

\* Mapping, timing and unmapping the pages of one kind.
LEMMA DataUncacheInv ==
    ASSUME UncacheInv, MapData \/ BeginTest \/ Trial \/ EndTest
    PROVE  UncacheInv'
<1> USE DEF UncacheInv, alloc
<1>0. kind \in Kinds /\ ret \in {0, -1} /\ -1 \in {0, -1} /\ 0 \in {0, -1}
  BY DEF TypeOK
<1>1. CASE MapData
  <2> USE <1>1 DEF MapData
  <2>1. TypeOK'
    BY <1>0, DataReturnsTo, Sizes DEF TypeOK
  <2>2. PagesInv'
    BY <1>0, DataReturnsTo, Sizes DEF PagesInv, Timing
  <2>3. TimesInv' /\ RoundInv'
    BY <1>0, DataReturnsTo DEF TimesInv, RoundInv, Doubled
  <2>4. OrderInv' /\ VerdictFair'
    BY <1>0, DataReturnsTo DEF OrderInv, VerdictFair, Timing, Kinds
  <2> QED
    BY <2>1, <2>2, <2>3, <2>4
<1>2. CASE BeginTest
  <2> USE <1>2 DEF BeginTest
  <2>1. TypeOK'
    BY Sizes DEF TypeOK
  <2>2. PagesInv' /\ TimesInv' /\ RoundInv'
    BY DEF PagesInv, TimesInv, RoundInv, Doubled, Timing
  <2>3. OrderInv' /\ VerdictFair'
    BY DEF OrderInv, VerdictFair, Timing, TypeOK
  <2> QED
    BY <2>1, <2>2, <2>3
<1>3. CASE Trial
  <2> USE <1>3 DEF Trial
  <2>1. TypeOK'
    BY <1>0, DataReturnsTo, Sizes DEF TypeOK, PagesInv, Timing
  <2>2. PagesInv'
    BY <1>0, DataReturnsTo, Sizes DEF PagesInv, Timing
  <2>3. TimesInv' /\ RoundInv'
    BY <1>0, DataReturnsTo DEF TimesInv, RoundInv, Doubled
  <2>4. OrderInv' /\ VerdictFair'
    BY <1>0, DataReturnsTo, Sizes DEF OrderInv, VerdictFair, Timing, Kinds, TypeOK
  <2> QED
    BY <2>1, <2>2, <2>3, <2>4
<1>4. CASE EndTest
  <2>1. start \in Nat /\ clock' \in Nat /\ start <= clock' /\ clock' - start \in Nat
    <3>1. start \in Nat /\ clock \in Nat /\ start <= clock /\ LastStamp \in Nat
      BY <1>4, Sizes DEF EndTest, TypeOK, OrderInv
    <3>2. clock' \in clock .. LastStamp
      BY <1>4 DEF EndTest
    <3>3. clock' \in Int /\ clock <= clock'
      BY <3>1, <3>2
    <3>4. \A a, b, d : a \in Nat /\ b \in Nat /\ d \in Int /\ a <= b /\ b <= d =>
              a \in Nat /\ d \in Nat /\ a <= d /\ d - a \in Nat
      OBVIOUS
    <3> QED
      BY <3>1, <3>3, <3>4, Zenon
  <2> USE <1>4 DEF EndTest
  <2>2. elapsed' = [elapsed EXCEPT ![kind] = (clock' - start) \div NsPerUs]
    BY <2>1, MicrosecondsExact
  <2>3. (clock' - start) \div NsPerUs \in Int
    BY <2>1, Sizes
  <2>4. TypeOK'
    BY <1>0, <2>1, <2>2, <2>3, DataReturnsTo, Sizes DEF TypeOK, PagesInv, Timing
  <2>5. PagesInv'
    BY <1>0, DataReturnsTo, Sizes DEF PagesInv, Timing
  <2>6. TimesInv'
    <3>1. elapsed \in [Kinds -> Int] /\ real \in [Kinds -> Int]
      BY DEF TypeOK
    <3>2. /\ elapsed'[kind] = real'[kind] \div NsPerUs /\ real'[kind] \in Nat
          /\ \A k \in Kinds \ {kind} : elapsed'[k] = elapsed[k] /\ real'[k] = real[k]
      BY <1>0, <2>1, <2>2, <3>1
    <3> QED
      BY <3>2 DEF TimesInv
  <2>7. RoundInv'
    BY <1>0, DataReturnsTo DEF RoundInv, Doubled
  <2>8. OrderInv' /\ VerdictFair'
    BY <1>0, <2>1, DataReturnsTo DEF OrderInv, VerdictFair, Timing, Kinds, TypeOK
  <2> QED
    BY <2>4, <2>5, <2>6, <2>7, <2>8
<1> QED
  BY <1>1, <1>2, <1>3, <1>4

\* A time in whole microseconds, times the microsecond, is the time or less.
LEMMA Truncated ==
    ASSUME NEW n \in Nat, NEW e, e = n \div NsPerUs
    PROVE  e \in Nat /\ NsPerUs * e <= n /\ n < NsPerUs * e + NsPerUs
<1>1. NsPerUs \in Nat \ {0}
  BY Sizes
<1>2. e \in Int /\ NsPerUs * e <= n /\ n < NsPerUs * e + NsPerUs
  BY <1>1
<1>3. ASSUME e < 0 PROVE FALSE
  <2>1. NsPerUs * e <= NsPerUs * (-1)
    BY <1>1, <1>2, <1>3
  <2> QED
    BY <1>1, <1>2, <2>1
<1> QED
  BY <1>2, <1>3

\* The verdict of do_data_compare() on the times in whole microseconds is
\* within a microsecond of each of the verdict on the times themselves.
LEMMA RatioFair ==
    ASSUME NEW rc \in Nat, NEW ru \in Nat, NEW ec, NEW eu,
           ec = rc \div NsPerUs, eu = ru \div NsPerUs
    PROVE  IF RatioSmall(ec, eu) THEN 10 * ru < 13 * rc + 10 * NsPerUs
                                 ELSE 10 * ru > 13 * rc - 13 * NsPerUs
<1>1. NsPerUs \in Nat \ {0}
  BY Sizes
<1>2. /\ ec \in Nat /\ NsPerUs * ec <= rc /\ rc < NsPerUs * ec + NsPerUs
      /\ eu \in Nat /\ NsPerUs * eu <= ru /\ ru < NsPerUs * eu + NsPerUs
  BY Truncated
<1>3. NsPerUs * ec \in Nat /\ NsPerUs * eu \in Nat
  BY <1>1, <1>2
<1>4. CASE RatioSmall(ec, eu)
  <2>1. 10 * eu < 13 * ec
    BY <1>4 DEF RatioSmall
  <2>2. 10 * (NsPerUs * eu) <= 13 * (NsPerUs * ec)
    BY <1>1, <1>2, <2>1
  <2> QED
    BY <1>1, <1>2, <1>3, <1>4, <2>2
<1>5. CASE ~RatioSmall(ec, eu)
  <2>1. ec = 0 \/ 10 * eu >= 13 * ec
    BY <1>2, <1>5 DEF RatioSmall
  <2>2. 10 * (NsPerUs * eu) >= 13 * (NsPerUs * ec)
    BY <1>1, <1>2, <2>1
  <2> QED
    BY <1>1, <1>2, <1>3, <1>5, <2>2
<1> QED
  BY <1>4, <1>5

\* The comparison of the two times.
LEMMA CompareUncacheInv ==
    ASSUME UncacheInv, Compare
    PROVE  UncacheInv'
<1> USE DEF UncacheInv, Compare, data, alloc
<1>1. TypeOK'
  BY DEF TypeOK
<1>2. PagesInv' /\ TimesInv' /\ OrderInv' /\ RoundInv'
  BY DEF PagesInv, TimesInv, OrderInv, RoundInv, Doubled, Timing
<1>3. VerdictFair'
  <2> SUFFICES ASSUME \A k \in Kinds : real[k] # Unknown
               PROVE  IF ret' = 0
                      THEN 10 * real["uncache"] > 13 * real["cache"] - 13 * NsPerUs
                      ELSE 10 * real["uncache"] < 13 * real["cache"] + 10 * NsPerUs
    BY DEF VerdictFair
  <2>1. \A k \in Kinds : real[k] \in Nat /\ elapsed[k] = real[k] \div NsPerUs
    BY DEF TimesInv
  <2>2. "cache" \in Kinds /\ "uncache" \in Kinds
    BY DEF Kinds
  <2>3. IF RatioSmall(elapsed["cache"], elapsed["uncache"])
        THEN 10 * real["uncache"] < 13 * real["cache"] + 10 * NsPerUs
        ELSE 10 * real["uncache"] > 13 * real["cache"] - 13 * NsPerUs
    BY <2>1, <2>2, RatioFair
  <2>4. CASE RatioSmall(elapsed["cache"], elapsed["uncache"])
    BY <2>3, <2>4
  <2>5. CASE ~RatioSmall(elapsed["cache"], elapsed["uncache"])
    BY <2>3, <2>5
  <2> QED
    BY <2>4, <2>5
<1> QED
  BY <1>1, <1>2, <1>3

\* do_max_alloc(): the pages of a round are counted, and all unmapped.
LEMMA AllocUncacheInv ==
    ASSUME UncacheInv, StartAlloc \/ MmapMore \/ EndRound \/ Report
    PROVE  UncacheInv'
<1> USE DEF UncacheInv, data
<1>0. /\ count \in Nat /\ size \in Nat \ {0} /\ memory \in Nat /\ held \in Nat
      /\ MaxMmaps \in Nat \ {0} /\ count <= MaxMmaps
      /\ count * size \in Nat /\ (count + 1) * size = count * size + size
  BY Sizes DEF TypeOK
<1>1. CASE StartAlloc
  <2> USE <1>1 DEF StartAlloc
  <2>1. TypeOK'
    BY Sizes DEF TypeOK
  <2>2. PagesInv'
    <3>1. 0 * size = 0 /\ 0 <= memory
      BY <1>0
    <3> QED
      BY <3>1 DEF PagesInv, Timing
  <2>3. TimesInv' /\ OrderInv' /\ VerdictFair'
    BY DEF TimesInv, OrderInv, VerdictFair, Timing
  <2>4. RoundInv'
    BY DEF RoundInv, Doubled
  <2> QED
    BY <2>1, <2>2, <2>3, <2>4
<1>2. CASE MmapMore
  <2> USE <1>2 DEF MmapMore, Succeeds
  <2>1. TypeOK'
    BY <1>0 DEF TypeOK
  <2>2. PagesInv'
    BY <1>0 DEF PagesInv, Timing
  <2>3. TimesInv' /\ OrderInv' /\ VerdictFair' /\ RoundInv'
    BY DEF TimesInv, OrderInv, VerdictFair, RoundInv, Doubled, Timing
  <2> QED
    BY <2>1, <2>2, <2>3
<1>3. CASE EndRound
  <2>1. /\ pc = "mmap" /\ held' = 0 /\ size' = 2 * size
        /\ UNCHANGED <<argv, test, memory, fd, data, shown, ret>>
    BY <1>0, <1>3 DEF EndRound, UnmapAll, PagesInv
  <2>2. CASE pc' = "mmap" /\ count' = 0 /\ count = MaxMmaps
    <3>1. TypeOK'
      BY <1>0, <2>1, <2>2 DEF TypeOK
    <3>2. PagesInv'
      BY <1>0, <2>1, <2>2 DEF PagesInv, Timing
    <3>3. TimesInv' /\ OrderInv' /\ VerdictFair'
      BY <2>1, <2>2 DEF TimesInv, OrderInv, VerdictFair, Timing
    <3>4. Doubled(size)'
      BY <1>0, <2>1, <2>2 DEF PagesInv, Doubled
    <3>5. RoundInv'
      BY <2>1, <2>2, <3>4 DEF RoundInv
    <3> QED
      BY <3>1, <3>2, <3>3, <3>5
  <2>3. CASE pc' = "report" /\ count' = count /\ ~Succeeds
    <3>1. TypeOK'
      BY <1>0, <2>1, <2>3 DEF TypeOK
    <3>2. PagesInv'
      BY <1>0, <2>1, <2>3 DEF PagesInv, Timing
    <3>3. TimesInv' /\ OrderInv' /\ VerdictFair'
      BY <2>1, <2>3 DEF TimesInv, OrderInv, VerdictFair, Timing
    <3>4. count * size <= memory /\ (fd = "open" => memory < (count + 1) * size)
      BY <1>0, <2>1, <2>3 DEF PagesInv, Succeeds
    <3>5. Doubled(size) /\ (Doubled(size) => \A s : s = size => Doubled(s)')
      BY <2>1 DEF RoundInv, Doubled
    <3>6. \E tried \in Nat :
              /\ size' = 2 * tried /\ Doubled(tried)'
              /\ fd' = "open" => /\ count' * tried <= memory'
                                 /\ memory' < (count' + 1) * tried
      <4>1. size \in Nat /\ size' = 2 * size /\ Doubled(size)
        BY <1>0, <2>1, <3>5
      <4>2. memory' = memory /\ count' = count /\ fd' = fd
        BY <2>1, <2>3
      <4>3. PICK s \in Nat : s = size
        BY <4>1
      <4>4. Doubled(s)'
        BY <3>5, <4>1, <4>3
      <4> QED
        BY <3>4, <4>1, <4>2, <4>3, <4>4
    <3>7. RoundInv'
      BY <2>3, <3>6 DEF RoundInv
    <3> QED
      BY <3>1, <3>2, <3>3, <3>7
  <2> QED
    BY <1>3, <2>2, <2>3 DEF EndRound, UnmapAll
<1>4. CASE Report
  <2> USE <1>4 DEF Report
  <2>1. TypeOK'
    BY <1>0 DEF TypeOK
  <2>2. PagesInv'
    BY DEF PagesInv, Timing
  <2>3. TimesInv' /\ OrderInv' /\ VerdictFair' /\ RoundInv'
    BY DEF TimesInv, OrderInv, VerdictFair, RoundInv, Timing
  <2> QED
    BY <2>1, <2>2, <2>3
<1> QED
  BY <1>1, <1>2, <1>3, <1>4

\* Every step keeps the inductive invariant.
LEMMA NextUncacheInv == UncacheInv /\ [Next]_vars => UncacheInv'
<1> SUFFICES ASSUME UncacheInv, [Next]_vars PROVE UncacheInv'
  OBVIOUS
<1>1. CASE UNCHANGED vars
  BY <1>1 DEF vars, data, alloc, UncacheInv, TypeOK, PagesInv, TimesInv, OrderInv,
              RoundInv, Doubled, VerdictFair
<1> QED
  BY <1>1, OptionsUncacheInv, DataUncacheInv, CompareUncacheInv, AllocUncacheInv
     DEF Next

-------------------------------------------------------------------------------
(* The theorems *)

\* The invariant of uncache, for any page counts, memories and clock rates.
THEOREM UncacheInvariant == Spec => []UncacheInv
  BY InitUncacheInv, NextUncacheInv, PTL DEF Spec

\* Every way through do_data() and do_max_alloc(), whichever call fails, gives
\* back the pages and the device.
THEOREM AllReturnedHolds == Spec => []AllReturned
<1>1. UncacheInv => AllReturned
  BY DEF UncacheInv, PagesInv, AllReturned, Timing
<1> QED
  BY <1>1, UncacheInvariant, PTL

\* do_data() returns the time between its stamps in whole microseconds,
\* whatever seconds they lie in.
THEOREM TimeExactHolds == Spec => []TimeExact
<1>1. UncacheInv => TimeExact
  BY DEF UncacheInv, TimesInv, TimeExact
<1> QED
  BY <1>1, UncacheInvariant, PTL

\* do_data_compare() returns the verdict that the times justify.
THEOREM VerdictFairHolds == Spec => []VerdictFair
<1>1. UncacheInv => VerdictFair
  BY DEF UncacheInv
<1> QED
  BY <1>1, UncacheInvariant, PTL

\* do_max_alloc() stops at the smallest size, doubling from a page, of which the
\* device cannot hold max_mmaps mappings, and counts as many as it holds.
THEOREM LimitFoundHolds == Spec => []LimitFound
<1>1. UncacheInv => LimitFound
  <2> SUFFICES ASSUME UncacheInv, pc = "report", fd = "open"
               PROVE  /\ count * (size \div 2) <= memory
                      /\ memory < (count + 1) * (size \div 2)
                      /\ size \div 2 > 1 =>
                            MaxMmaps * ((size \div 2) \div 2) <= memory
    BY DEF LimitFound
  <2>1. PICK tried \in Nat :
            /\ size = 2 * tried /\ Doubled(tried)
            /\ count * tried <= memory /\ memory < (count + 1) * tried
    BY DEF UncacheInv, RoundInv
  <2>2. size \div 2 = tried
    BY <2>1
  <2>3. ASSUME tried > 1 PROVE MaxMmaps * (tried \div 2) <= memory
    <3>1. PICK half \in Nat : tried = 2 * half /\ MaxMmaps * half <= memory
      BY <2>1, <2>3 DEF Doubled
    <3>2. tried \div 2 = half
      BY <3>1
    <3> QED
      BY <3>1, <3>2
  <2> QED
    BY <2>1, <2>2, <2>3
<1> QED
  BY <1>1, UncacheInvariant, PTL

-------------------------------------------------------------------------------
(* The end of the tool *)

\* Rounds of do_max_alloc() that can go well from the present size on, and the
\* mmap() calls in them.
RoundsLeft == IF size <= memory THEN memory + 1 - size ELSE 0
MmapsLeft  == RoundsLeft * (MaxMmaps + 1)

\* Steps of one do_data(), and those of a second one.
OneTest    == Trials + 3
SecondTest == IF kind = "cache" THEN OneTest ELSE 0

\* The steps that are left at most.
StepsLeft ==
    CASE pc = "options" -> Len(argv) + MmapsLeft + MaxMmaps + 2 * OneTest + 5
      [] pc = "map"     -> SecondTest + 1 + OneTest
      [] pc = "begin"   -> SecondTest + 1 + Trials + 2
      [] pc = "trial"   -> SecondTest + 1 + Trials + 1 - trial
      [] pc = "end"     -> SecondTest + 1 + 1
      [] pc = "ratio"   -> 1
      [] pc = "alloc"   -> MmapsLeft + MaxMmaps + 3
      [] pc = "mmap"    -> MmapsLeft + MaxMmaps - count + 2
      [] pc = "report"  -> 1
      [] OTHER          -> 0

\* A step brings the tool nearer to its end.
StepDone == StepsLeft \in Nat /\ StepsLeft' \in Nat /\ StepsLeft' < StepsLeft

\* What StepsLeft is computed from.
LeftTyped ==
    /\ pc \in {"options", "map", "begin", "trial", "end", "ratio", "alloc",
               "mmap", "report", "exit"}
    /\ argv \in Seq(STRING) /\ kind \in Kinds
    /\ trial \in 0 .. Trials /\ count \in 0 .. MaxMmaps
    /\ memory \in Nat /\ size \in Nat \ {0}
    /\ pc = "mmap" => count * size <= memory

\* The options are a sequence, of which main() takes the first.
LEMMA OptionsKept == Spec => [](argv \in Seq(STRING))
<1>1. Init => argv \in Seq(STRING)
  BY OptionsTyped DEF Init
<1>2. argv \in Seq(STRING) /\ [Next]_vars => (argv \in Seq(STRING))'
  <2> SUFFICES ASSUME argv \in Seq(STRING), [Next]_vars PROVE argv' \in Seq(STRING)
    OBVIOUS
  <2>1. CASE ParseOption
    BY <2>1 DEF ParseOption
  <2>2. CASE argv' = argv
    BY <2>2
  <2>3. ParseOption \/ argv' = argv
    BY DEF Next, vars, RunTest, MapData, BeginTest, Trial, EndTest, Compare,
           StartAlloc, MmapMore, EndRound, Report
  <2> QED
    BY <2>1, <2>2, <2>3
<1> QED
  BY <1>1, <1>2, PTL DEF Spec

\* From the invariant.
LEMMA LeftTypes == UncacheInv /\ argv \in Seq(STRING) => LeftTyped
<1> SUFFICES ASSUME UncacheInv, argv \in Seq(STRING) PROVE LeftTyped
  OBVIOUS
<1> QED
  BY Sizes DEF UncacheInv, TypeOK, PagesInv, LeftTyped

\* The bounds are numbers.
LEMMA LeftNumbers ==
    ASSUME LeftTyped
    PROVE  /\ RoundsLeft \in Nat /\ MmapsLeft \in Nat /\ SecondTest \in {0, OneTest}
           /\ OneTest \in Nat \ {0} /\ MaxMmaps \in Nat \ {0} /\ Trials \in Nat \ {0}
           /\ OneTest = Trials + 3
<1>1. RoundsLeft \in Nat /\ MaxMmaps \in Nat \ {0} /\ Trials \in Nat \ {0}
  BY Sizes DEF LeftTyped, RoundsLeft
<1>2. MmapsLeft \in Nat
  BY <1>1 DEF MmapsLeft
<1> QED
  BY <1>1, <1>2 DEF OneTest, SecondTest

\* A product, when a factor is one less.
LEMMA OneLess ==
    ASSUME NEW a \in Nat, NEW b \in Nat, NEW m \in Nat, a + 1 <= b
    PROVE  a * m \in Nat /\ a * m + m <= b * m
<1>1. PICK k \in Nat : b = a + 1 + k
  <2>1. b - (a + 1) \in Nat /\ b = a + 1 + (b - (a + 1))
    OBVIOUS
  <2> QED
    BY <2>1
<1>2. b * m = a * m + m + k * m /\ k * m \in Nat /\ a * m \in Nat
  BY <1>1
<1> QED
  BY <1>2

\* A do_data() that fails ends the tool.
LEMMA FailureEnds ==
    ASSUME DataReturns(-1)
    PROVE  kind' = kind /\ pc' = "exit"
  BY DEF DataReturns

\* do_data() and its callers.
LEMMA DataStepDone ==
    ASSUME LeftTyped, LeftTyped', MapData \/ BeginTest \/ Trial \/ EndTest \/ Compare
    PROVE  StepDone
<1>1. /\ SecondTest \in {0, OneTest} /\ OneTest \in Nat \ {0} /\ OneTest = Trials + 3
      /\ Trials \in Nat \ {0} /\ trial \in 0 .. Trials /\ trial' \in 0 .. Trials
      /\ kind \in Kinds
  BY LeftNumbers DEF LeftTyped
<1>2. kind' = kind => SecondTest' = SecondTest
  BY DEF SecondTest, OneTest
<1>3. OneTest' = OneTest
  BY DEF OneTest
<1>4. ASSUME NEW r, DataReturns(r)
      PROVE  \/ kind = "cache" /\ pc' = "map" /\ kind' = "uncache"
             \/ kind' = kind /\ pc' \in {"ratio", "exit"}
  BY <1>1, <1>4 DEF DataReturns, Kinds
<1>5. kind = "cache" /\ kind' = "uncache" => SecondTest = OneTest /\ SecondTest' = 0
  BY DEF SecondTest
<1>6. CASE MapData
  <2>1. pc = "map" /\ (DataReturns(-1) \/ (pc' = "begin" /\ kind' = kind))
    BY <1>6 DEF MapData
  <2>2. kind' = kind /\ pc' \in {"begin", "exit"}
    BY <2>1, FailureEnds
  <2> QED
    BY <1>1, <1>2, <2>1, <2>2 DEF StepDone, StepsLeft
<1>7. CASE BeginTest
  <2>1. pc = "begin" /\ pc' = "trial" /\ kind' = kind /\ trial' = 0
    BY <1>7 DEF BeginTest
  <2> QED
    BY <1>1, <1>2, <2>1 DEF StepDone, StepsLeft
<1>8. CASE Trial
  <2>1. /\ pc = "trial" /\ trial < Trials
        /\ \/ kind' = kind /\ trial' = trial + 1 /\ pc' \in {"trial", "end"}
           \/ DataReturns(-1)
    BY <1>8 DEF Trial
  <2>2. CASE DataReturns(-1)
    BY <1>1, <1>2, <2>1, <2>2, FailureEnds DEF StepDone, StepsLeft
  <2>3. CASE kind' = kind /\ trial' = trial + 1 /\ pc' = "trial"
    BY <1>1, <1>2, <2>1, <2>3 DEF StepDone, StepsLeft
  <2>4. CASE kind' = kind /\ trial' = trial + 1 /\ pc' = "end"
    BY <1>1, <1>2, <2>1, <2>4 DEF StepDone, StepsLeft
  <2> QED
    BY <2>1, <2>2, <2>3, <2>4
<1>9. CASE EndTest
  <2>1. pc = "end" /\ DataReturns(0)
    BY <1>9 DEF EndTest
  <2>2. CASE kind = "cache" /\ pc' = "map" /\ kind' = "uncache"
    BY <1>1, <1>3, <1>5, <2>1, <2>2 DEF StepDone, StepsLeft
  <2>3. CASE kind' = kind /\ pc' \in {"ratio", "exit"}
    BY <1>1, <1>2, <2>1, <2>3 DEF StepDone, StepsLeft
  <2> QED
    BY <1>4, <2>1, <2>2, <2>3
<1>10. CASE Compare
  <2>1. pc = "ratio" /\ pc' = "exit"
    BY <1>10 DEF Compare
  <2> QED
    BY <2>1 DEF StepDone, StepsLeft
<1> QED
  BY <1>6, <1>7, <1>8, <1>9, <1>10

\* main() and do_max_alloc(): a round that went well has mapped at least its
\* size, which is twice as large in the next one.
LEMMA SearchStepDone ==
    ASSUME LeftTyped, LeftTyped',
           ParseOption \/ RunTest \/ StartAlloc \/ MmapMore \/ EndRound \/ Report
    PROVE  StepDone
<1>1. /\ RoundsLeft \in Nat /\ MmapsLeft \in Nat /\ OneTest \in Nat \ {0}
      /\ MaxMmaps \in Nat \ {0} /\ SecondTest \in {0, OneTest}
  BY LeftNumbers
<1>2. /\ argv \in Seq(STRING) /\ argv' \in Seq(STRING)
      /\ count \in 0 .. MaxMmaps /\ count' \in 0 .. MaxMmaps
      /\ memory \in Nat /\ size \in Nat \ {0}
  BY DEF LeftTyped
<1>3. size' = size /\ memory' = memory => MmapsLeft' = MmapsLeft
  BY DEF MmapsLeft, RoundsLeft
<1>4. SecondTest' \in {0, OneTest}
  BY DEF SecondTest, OneTest
<1>5. CASE ParseOption
  <2>1. /\ pc = "options" /\ argv # <<>> /\ argv' = Tail(argv)
        /\ pc' \in {"options", "exit"} /\ size' = size /\ memory' = memory
    BY <1>5 DEF ParseOption, alloc
  <2>2. Len(argv) \in Nat /\ Len(argv') = Len(argv) - 1 /\ Len(argv') \in Nat
    BY <1>2, <2>1
  <2>3. OneTest' = OneTest
    BY DEF OneTest
  <2>4. StepsLeft = Len(argv) + MmapsLeft + MaxMmaps + 2 * OneTest + 5
    BY <2>1 DEF StepsLeft
  <2>5. StepsLeft' \in {0, Len(argv') + MmapsLeft + MaxMmaps + 2 * OneTest + 5}
    BY <1>3, <2>1, <2>3 DEF StepsLeft
  <2> QED
    BY <1>1, <2>2, <2>4, <2>5 DEF StepDone
<1>6. CASE RunTest
  <2>1. /\ pc = "options" /\ pc' \in {"alloc", "map"} /\ size' = size /\ memory' = memory
        /\ argv' = argv
    BY <1>6 DEF RunTest, alloc
  <2>2. Len(argv) \in Nat
    BY <1>2
  <2>3. OneTest' = OneTest
    BY DEF OneTest
  <2>4. StepsLeft = Len(argv) + MmapsLeft + MaxMmaps + 2 * OneTest + 5
    BY <2>1 DEF StepsLeft
  <2>5. \/ StepsLeft' = SecondTest' + 1 + OneTest
        \/ StepsLeft' = MmapsLeft + MaxMmaps + 3
    BY <1>3, <2>1, <2>3 DEF StepsLeft
  <2> QED
    BY <1>1, <1>4, <2>2, <2>4, <2>5 DEF StepDone
<1>7. CASE StartAlloc
  <2>1. /\ pc = "alloc" /\ ((pc' = "mmap" /\ count' = 0) \/ pc' = "exit")
        /\ size' = size /\ memory' = memory
    BY <1>7 DEF StartAlloc
  <2> QED
    BY <1>1, <1>3, <2>1 DEF StepDone, StepsLeft
<1>8. CASE MmapMore
  <2>1. /\ pc = "mmap" /\ pc' = "mmap" /\ count' = count + 1
        /\ size' = size /\ memory' = memory
    BY <1>8 DEF MmapMore
  <2> QED
    BY <1>1, <1>2, <1>3, <2>1 DEF StepDone, StepsLeft
<1>9. CASE EndRound
  <2>1. pc = "mmap" /\ memory' = memory /\ size' = 2 * size
    BY <1>9 DEF EndRound, UnmapAll
  <2>2. CASE pc' = "report"
    BY <1>1, <1>2, <2>1, <2>2 DEF StepDone, StepsLeft
  <2>3. CASE count = MaxMmaps /\ pc' = "mmap" /\ count' = 0
    <3>1. count * size <= memory
      BY <2>1 DEF LeftTyped
    <3>2. size <= count * size
      BY <1>1, <1>2, <2>3
    <3>3. size <= memory
      BY <1>1, <1>2, <2>3, <3>1, <3>2
    <3>4. /\ RoundsLeft = memory + 1 - size
          /\ RoundsLeft' = IF 2 * size <= memory THEN memory + 1 - 2 * size ELSE 0
      BY <2>1, <3>3 DEF RoundsLeft
    <3>5. PICK a \in Nat : a = RoundsLeft' /\ a + 1 <= RoundsLeft
      BY <1>2, <3>3, <3>4
    <3>6. PICK b \in Nat : b = RoundsLeft
      BY <1>1
    <3>7. PICK m \in Nat : m = MaxMmaps + 1
      BY <1>1
    <3>8. a * m \in Nat /\ a * m + m <= b * m
      BY <3>5, <3>6, OneLess
    <3>9. MmapsLeft' = a * m /\ MmapsLeft = b * m /\ b * m \in Nat
      BY <3>5, <3>6, <3>7 DEF MmapsLeft
    <3>10. StepsLeft = MmapsLeft + MaxMmaps - count + 2
      BY <2>1 DEF StepsLeft
    <3>11. StepsLeft' = MmapsLeft' + MaxMmaps - count' + 2
      BY <2>3 DEF StepsLeft
    <3>12. StepsLeft = b * m + 2 /\ StepsLeft' = a * m + m + 1
      BY <1>1, <2>3, <3>7, <3>8, <3>9, <3>10, <3>11
    <3> QED
      BY <3>8, <3>9, <3>12 DEF StepDone
  <2> QED
    BY <1>9, <2>2, <2>3 DEF EndRound, UnmapAll
<1>10. CASE Report
  <2>1. pc = "report" /\ pc' = "exit"
    BY <1>10 DEF Report
  <2> QED
    BY <2>1 DEF StepDone, StepsLeft
<1> QED
  BY <1>5, <1>6, <1>7, <1>8, <1>9, <1>10

\* The tool ends: each step lowers StepsLeft, for any device, so that
\* do_max_alloc()'s "while(good)" ends although a round that goes well begins
\* another, and so do the trials of do_data().
THEOREM StepsBounded == Spec => [][StepDone]_vars
<1>1. LeftTyped /\ LeftTyped' /\ [Next]_vars => [StepDone]_vars
  BY DataStepDone, SearchStepDone DEF Next
<1> QED
  BY <1>1, LeftTypes, UncacheInvariant, OptionsKept, PTL DEF Spec
===============================================================================
