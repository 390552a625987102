----------------------------- MODULE ReadMapping -----------------------------
(***************************************************************************)
(* read_mapping() in src/src/migration.c: a CPU (or domain) set is read    *)
(* from /proc/litmus as hexadecimal text, most significant digit first,    *)
(* in comma-separated groups of which the first may be short, and decoded  *)
(* group by group from the end of the text.                                *)
(*                                                                         *)
(* The code's constants are parameters here: 8 digits a group, 4 bits a    *)
(* digit, at most 4096 CPUs, CPU_ALLOC() in units of a long.               *)
(***************************************************************************)
EXTENDS Integers, Sequences, FiniteSets, FiniteSetsExt

CONSTANTS
    GroupDigits,  \* digits in a full group (8)
    DigitBits,    \* bits in a digit (4)
    MaxCPUs,      \* most CPUs supported (4096)
    LongBits,     \* granularity of CPU_ALLOC()
    Widths,       \* the numbers of digits the kernel may print
    OnlineCounts  \* the values num_online_cpus() may have

ASSUME SizesTyped ==
    /\ {GroupDigits, DigitBits, LongBits} \subseteq Nat \ {0}
    /\ MaxCPUs \in Nat /\ Widths \subseteq Nat

\* What ^ is, as far as digits need it: the provers do not know.
ASSUME PowersOfTwo ==
    \A b \in 0 .. DigitBits - 1 : 2^b \in Nat \ {0} /\ 2^(b + 1) = 2 * 2^b

GroupBits == GroupDigits * DigitBits
Group     == GroupDigits + 1          \* characters of a group and its comma

\* Characters of buf, without the terminating \0.
BufLen == MaxCPUs \div DigitBits + MaxCPUs \div GroupBits

\* The text fits the buffer: what the kernel prints is not wider than MaxCPUs.
ASSUME WidthsFit == \A w \in Widths : w > 0 /\ w * DigitBits <= MaxCPUs
ASSUME LongsFit == LongBits % GroupBits = 0 \/ GroupBits % LongBits = 0

VARIABLES
    mask,    \* what the kernel holds
    file,    \* what /proc shows, or Unreadable
    buf,     \* the characters read
    pc, ret, \* the call's progress and its return value
    set,     \* *set, once allocated
    nbits,   \* the bits asked of CPU_ALLOC()
    chunk,   \* chunk_str - buf
    i        \* groups decoded

vars == <<mask, file, buf, pc, ret, set, nbits, chunk, i>>

-------------------------------------------------------------------------------
(* The kernel's text: external *)

Comma      == 2^DigitBits
Unreadable == <<-1>>

Bit(v, b) == (v \div 2^b) % 2 = 1

\* Digit number d of a set of CPUs, digit 0 being the least significant.
Digit(S, d) ==
    CHOOSE v \in 0..2^DigitBits - 1 :
        \A b \in 0..DigitBits - 1 : Bit(v, b) <=> d * DigitBits + b \in S

\* S in w digits: reading from the right, a comma after every full group.
Format(S, w) ==
    LET len == w + (w - 1) \div GroupDigits
    IN  [k \in 1..len |->
            LET fromRight == len - k
                inGroup   == fromRight % Group
            IN  IF inGroup = GroupDigits THEN Comma
                ELSE Digit(S, (fromRight \div Group) * GroupDigits + inGroup)]

-------------------------------------------------------------------------------
Init ==
    /\ \E w \in Widths :
          /\ mask \in SUBSET (0..w * DigitBits - 1)
          /\ file \in {Format(mask, w), <<>>, Unreadable}
    /\ buf = <<>>
    /\ pc = "call" /\ ret = -1
    /\ set = {} /\ nbits = 0 /\ chunk = 0 /\ i = 0

\* Mutant: bits for whole groups only.
BitsOfGroups(len) == GroupBits * (len \div Group)

\* nbits: whole groups with their commas, then the digits of the first group.
BitsFor(len) == GroupBits * (len \div Group) + DigitBits * (len % Group)

\* CPU_ALLOC_SIZE(): CPU_SET_S() ignores a CPU beyond it.
Capacity == LongBits * ((nbits + LongBits - 1) \div LongBits)

Return(value) ==
    /\ pc' = "done"
    /\ ret' = value
    /\ UNCHANGED <<set, nbits, chunk, i>>

\* Up to the loop: the online check, read_file() and CPU_ALLOC().
ReadText ==
    /\ pc = "call"
    /\ \/ \E online \in OnlineCounts :
             online > MaxCPUs /\ Return(-1) /\ UNCHANGED buf
       \/ file = Unreadable /\ Return(-1) /\ UNCHANGED buf
       \/ file = <<>> /\ Return(0) /\ UNCHANGED buf
       \/ /\ file \notin {<<>>, Unreadable}
          /\ \E online \in OnlineCounts : online <= MaxCPUs
          /\ buf' = SubSeq(file, 1, Min({Len(file), BufLen}))
          /\ nbits' = BitsFor(Len(buf'))
          /\ chunk' = Len(buf') - GroupDigits
          /\ pc' = "loop"
          /\ UNCHANGED <<ret, set, i>>
    /\ UNCHANGED <<mask, file>>

\* strtoul() at offset p, and the bits of its value: the digits up to a comma
\* or the end, the last one least significant.
StrtoulBits(p) ==
    LET last == CHOOSE e \in p..Len(buf) :
                    /\ \A k \in p + 1..e : buf[k] # Comma
                    /\ e = Len(buf) \/ buf[e + 1] = Comma
    IN  {c \in 0..(last - p) * DigitBits - 1 :
            Bit(buf[last - c \div DigitBits], c % DigitBits)}

\* The loop goes on while a group, perhaps a short one, is left.
MoreGroups(p) == p >= -GroupDigits

\* Mutant: the comma is not stepped over.
StepNoComma == GroupDigits

\* chunk_str -= 9
StepBack == GroupDigits + 1

\* One turn of the do loop: CPU_SET_S() for every bit of the group.
DecodeGroup ==
    /\ pc = "loop"
    /\ LET p == IF chunk < 0 THEN 0 ELSE chunk
       IN  /\ set' = set \cup {c \in {i * GroupBits + b : b \in StrtoulBits(p)} :
                                  c < Capacity}
           /\ chunk' = p - StepBack
    /\ i' = i + 1
    /\ IF MoreGroups(chunk')
         THEN UNCHANGED <<pc, ret>>
         ELSE pc' = "done" /\ ret' = 0
    /\ UNCHANGED <<mask, file, buf, nbits>>

Next == ReadText \/ DecodeGroup

Spec == Init /\ [][Next]_vars

-------------------------------------------------------------------------------
(* Properties *)

\* read_mapping()'s loop: after i groups exactly the mask's CPUs below i groups
\* are set, whatever the width of the text and of its first group.
DecodedSoFar ==
    pc = "loop" => set = {c \in mask : c < i * GroupBits}

\* read_mapping() returns the kernel's set: no CPU is lost to the allocated
\* size, to the comma arithmetic or to a short first group; an empty file gives
\* 0 and no CPU.
DecodesMask ==
    pc = "done" /\ ret = 0 => set = IF file = <<>> THEN {} ELSE mask
===============================================================================
