------------------------------ MODULE TextProofs ------------------------------
(***************************************************************************)
(* Proofs about the two readers of texts: that read_mapping() decodes what *)
(* the kernel prints, for any width of the text, digits a group, bits a    *)
(* digit and size of a long; and that get_exec_times() reads the records   *)
(* of a file, for files of any length and any column.                      *)
(***************************************************************************)
EXTENDS ReadMapping, ExecTimes, FiniteSetTheorems, WellFoundedInduction, TLAPS

\* What the kernel prints in w digits: the commas, the digits of its first
\* group and its length.
Commas(w)     == (w - 1) \div GroupDigits
FirstGroup(w) == ((w - 1) % GroupDigits) + 1
TextLen(w)    == w + Commas(w)

-------------------------------------------------------------------------------
(* Induction and division *)

\* A nonempty set of natural numbers has a smallest element.
LEMMA LeastElement ==
    ASSUME NEW S \in SUBSET Nat, S # {}
    PROVE  \E x \in S : \A y \in S : x <= y
<1>1. PICK x \in S : \A y \in S : ~(<<y, x>> \in OpToRel(<, Nat))
  BY WFMin, NatLessThanWellFounded
<1>2. \A y \in S : x <= y
  <2> TAKE y \in S
  <2>1. x \in Nat /\ y \in Nat
    OBVIOUS
  <2>2. ~(y < x)
    BY <1>1, <2>1 DEF OpToRel
  <2> QED
    BY <2>1, <2>2
<1> QED
  BY <1>2

\* Induction over the natural numbers, for the set of those that satisfy a
\* property.
LEMMA InductionSet ==
    ASSUME NEW A, 0 \in A, \A n \in Nat : n \in A => n + 1 \in A
    PROVE  Nat \subseteq A
<1> SUFFICES ASSUME Nat \ A # {} PROVE FALSE
  OBVIOUS
<1>1. PICK m \in Nat \ A : \A n \in Nat \ A : m <= n
  BY LeastElement
<1>2. m - 1 \in Nat
  BY <1>1
<1>3. m - 1 \in A
  BY <1>1, <1>2
<1>4. (m - 1) + 1 \in A
  BY <1>2, <1>3
<1> QED
  BY <1>1, <1>4

\* Division leaves a quotient and a remainder.
LEMMA DivMod ==
    ASSUME NEW n \in Int, NEW d \in Nat \ {0}
    PROVE  /\ n \div d \in Int /\ n % d \in 0 .. d - 1
           /\ n = d * (n \div d) + (n % d)
  OBVIOUS

\* Only one pair of them.
LEMMA DivUnique ==
    ASSUME NEW n \in Int, NEW d \in Nat \ {0}, NEW q \in Int, NEW r \in 0 .. d - 1,
           n = d * q + r
    PROVE  n \div d = q /\ n % d = r
<1> DEFINE p == n \div d
           m == n % d
<1>1. p \in Int /\ m \in 0 .. d - 1 /\ n = d * p + m
  BY DivMod
<1> HIDE DEF p, m
<1>2. d * (p - q) = r - m
  BY <1>1
<1>3. ASSUME p - q >= 1 PROVE FALSE
  BY <1>1, <1>2, <1>3
<1>4. ASSUME q - p >= 1 PROVE FALSE
  BY <1>1, <1>2, <1>4
<1>5. p = q
  BY <1>1, <1>3, <1>4
<1>6. m = r
  BY <1>1, <1>2, <1>5
<1> QED
  BY <1>5, <1>6 DEF p, m

\* A shift by one more bit drops the last bit first.
LEMMA ShiftTwice ==
    ASSUME NEW v \in Nat, NEW e \in {0, 1}, NEW q \in Nat \ {0}
    PROVE  (2 * v + e) \div (2 * q) = v \div q
<1> DEFINE a == v \div q
           r == v % q
<1>1. a \in Int /\ r \in 0 .. q - 1 /\ v = q * a + r
  BY DivMod
<1> HIDE DEF a, r
<1>2. /\ 2 * v + e \in Int /\ 2 * q \in Nat \ {0} /\ 2 * r + e \in 0 .. 2 * q - 1
      /\ 2 * v + e = (2 * q) * a + (2 * r + e)
  BY <1>1
<1>3. (2 * v + e) \div (2 * q) = a
  BY <1>1, <1>2, DivUnique
<1> QED
  BY <1>3 DEF a

-------------------------------------------------------------------------------
(* Digits *)

\* Any set of bits is the set of the bits of one digit.
LEMMA BitsMakeDigit ==
    ASSUME NEW T \in SUBSET (0 .. DigitBits - 1)
    PROVE  \E v \in 0 .. 2^DigitBits - 1 :
               \A b \in 0 .. DigitBits - 1 : Bit(v, b) <=> b \in T
<1>1. DigitBits \in Nat \ {0}
  BY SizesTyped
<1>2. 2^0 = 1
  OBVIOUS
<1> DEFINE Made(m, U, v) == /\ v \in 0 .. 2^m - 1
                            /\ \A b \in 0 .. m - 1 : Bit(v, b) <=> b \in U
           A == {m \in Nat : m <= DigitBits =>
                     /\ 2^m \in Nat \ {0}
                     /\ \A U \in SUBSET (0 .. m - 1) : \E v \in Nat : Made(m, U, v)}
<1>3. 0 \in A
  BY <1>2
<1>4. ASSUME NEW m \in Nat, m \in A PROVE m + 1 \in A
  <2> SUFFICES ASSUME m + 1 <= DigitBits
               PROVE  /\ 2^(m + 1) \in Nat \ {0}
                      /\ \A U \in SUBSET (0 .. (m + 1) - 1) :
                             \E v \in Nat : Made(m + 1, U, v)
    OBVIOUS
  <2>1. m \in 0 .. DigitBits - 1 /\ m <= DigitBits
    BY <1>1
  <2>2. 2^m \in Nat \ {0} /\ 2^(m + 1) = 2 * 2^m
    BY <2>1, PowersOfTwo
  <2>3. 2^(m + 1) \in Nat \ {0}
    BY <2>2
  <2>4. ASSUME NEW U \in SUBSET (0 .. (m + 1) - 1)
        PROVE  \E v \in Nat : Made(m + 1, U, v)
    <3> DEFINE W == {b \in 0 .. m - 1 : b + 1 \in U}
               e == IF 0 \in U THEN 1 ELSE 0
    <3>1. PICK u \in Nat : Made(m, W, u)
      BY <1>4, <2>1
    <3> DEFINE v == 2 * u + e
    <3>2. v \in Nat /\ v \in 0 .. 2^(m + 1) - 1
      BY <2>2, <3>1
    <3>3. Bit(v, 0) <=> 0 \in U
      <4>1. v \div 1 = v
        BY <3>2
      <4>2. v % 2 = e
        BY <3>1, DivUnique
      <4> QED
        BY <1>2, <4>1, <4>2 DEF Bit
    <3>4. ASSUME NEW b \in 1 .. m PROVE Bit(v, b) <=> b \in U
      <4>1. b - 1 \in 0 .. m - 1 /\ b - 1 \in 0 .. DigitBits - 1 /\ (b - 1) + 1 = b
        BY <2>1, <1>1
      <4>2. 2^(b - 1) \in Nat \ {0} /\ 2^b = 2 * 2^(b - 1)
        BY <4>1, PowersOfTwo
      <4>3. v \div 2^b = u \div 2^(b - 1)
        BY <3>1, <4>2, ShiftTwice
      <4>4. Bit(v, b) <=> Bit(u, b - 1)
        BY <4>3 DEF Bit
      <4> QED
        BY <3>1, <4>1, <4>4
    <3>5. \A b \in 0 .. (m + 1) - 1 : b = 0 \/ b \in 1 .. m
      OBVIOUS
    <3> HIDE DEF v, e, W
    <3>6. Made(m + 1, U, v)
      BY <3>2, <3>3, <3>4, <3>5
    <3> QED
      BY <3>2, <3>6
  <2> QED
    BY <2>3, <2>4
<1>5. Nat \subseteq A
  <2> HIDE DEF A
  <2> QED
    BY <1>3, <1>4, InductionSet
<1>6. DigitBits \in A
  BY <1>1, <1>5
<1>7. PICK v \in Nat : Made(DigitBits, T, v)
  BY <1>1, <1>6
<1> QED
  BY <1>7

\* A comma is coded as a number.
LEMMA CommaTyped == Comma \in Nat
<1>1. DigitBits - 1 \in 0 .. DigitBits - 1 /\ (DigitBits - 1) + 1 = DigitBits
  BY SizesTyped
<1>2. 2^((DigitBits - 1) + 1) = 2 * 2^(DigitBits - 1) /\ 2^(DigitBits - 1) \in Nat
  BY <1>1, PowersOfTwo
<1> QED
  BY <1>1, <1>2 DEF Comma

\* A digit is a digit, not a comma, and has the bits of its set.
LEMMA DigitFacts ==
    ASSUME NEW S, NEW d \in Nat
    PROVE  /\ Digit(S, d) \in Nat /\ Digit(S, d) # Comma
           /\ \A b \in 0 .. DigitBits - 1 :
                  Bit(Digit(S, d), b) <=> d * DigitBits + b \in S
<1> DEFINE T == {b \in 0 .. DigitBits - 1 : d * DigitBits + b \in S}
           V == 0 .. 2^DigitBits - 1
           Is(v) == \A b \in 0 .. DigitBits - 1 : Bit(v, b) <=> d * DigitBits + b \in S
<1>1. \E v \in V : \A b \in 0 .. DigitBits - 1 : Bit(v, b) <=> b \in T
  BY BitsMakeDigit
<1>2. \E v \in V : Is(v)
  BY <1>1
<1>3. Digit(S, d) = CHOOSE v \in V : Is(v)
  BY DEF Digit
<1>4. Digit(S, d) \in V /\ Is(Digit(S, d))
  <2> HIDE DEF V, Is
  <2> QED
    BY <1>2, <1>3
<1> QED
  BY <1>4, CommaTyped DEF Comma

-------------------------------------------------------------------------------
(* The text *)

\* The first group of a text has a digit or more, and the others are full.
LEMMA TextShape ==
    ASSUME NEW w \in Widths
    PROVE  /\ w \in Nat \ {0} /\ Commas(w) \in Nat /\ FirstGroup(w) \in 1 .. GroupDigits
           /\ w = GroupDigits * Commas(w) + FirstGroup(w)
           /\ TextLen(w) \in Nat \ {0}
           /\ TextLen(w) = Group * Commas(w) + FirstGroup(w)
<1>1. w \in Nat \ {0} /\ GroupDigits \in Nat \ {0}
  BY WidthsFit, SizesTyped
<1> DEFINE q == (w - 1) \div GroupDigits
           r == (w - 1) % GroupDigits
<1>2. q \in Int /\ r \in 0 .. GroupDigits - 1 /\ w - 1 = GroupDigits * q + r
  <2>1. w - 1 \in Int
    BY <1>1
  <2> QED
    BY <1>1, <2>1, DivMod, Zenon
<1>3. Commas(w) = q /\ FirstGroup(w) = r + 1 /\ TextLen(w) = w + q
  BY DEF Commas, FirstGroup, TextLen
<1> HIDE DEF q, r
<1>4. q >= 0
  <2> SUFFICES ASSUME q <= -1 PROVE FALSE
    BY <1>2
  <2>1. GroupDigits * q <= -GroupDigits
    BY <1>1, <1>2
  <2> QED
    BY <1>1, <1>2, <2>1
<1>5. w = GroupDigits * q + (r + 1)
  BY <1>1, <1>2
<1>6. w + q = (GroupDigits + 1) * q + (r + 1)
  BY <1>1, <1>2, <1>5
<1> QED
  BY <1>1, <1>2, <1>3, <1>4, <1>5, <1>6 DEF Group

\* nbits: the bits asked for are those of the digits, and CPU_ALLOC() rounds
\* them up.
LEMMA BitsOfText ==
    ASSUME NEW w \in Widths
    PROVE  BitsFor(TextLen(w)) = w * DigitBits /\ w * DigitBits \in Nat
<1>1. /\ w \in Nat \ {0} /\ Commas(w) \in Nat /\ FirstGroup(w) \in 1 .. GroupDigits
      /\ w = GroupDigits * Commas(w) + FirstGroup(w) /\ TextLen(w) \in Nat
      /\ TextLen(w) = Group * Commas(w) + FirstGroup(w)
  BY TextShape
<1>2. /\ GroupDigits \in Nat \ {0} /\ DigitBits \in Nat \ {0} /\ Group \in Nat \ {0}
      /\ Group - 1 = GroupDigits
  BY SizesTyped DEF Group
<1>3. FirstGroup(w) \in 0 .. Group - 1
  BY <1>1, <1>2
<1>4. TextLen(w) \div Group = Commas(w) /\ TextLen(w) % Group = FirstGroup(w)
  <2>1. TextLen(w) \in Int /\ Commas(w) \in Int
    BY <1>1
  <2> QED
    BY <1>1, <1>2, <1>3, <2>1, DivUnique, Zenon
<1>5. BitsFor(TextLen(w)) = (GroupDigits * DigitBits) * Commas(w)
                                + DigitBits * FirstGroup(w)
  BY <1>4 DEF BitsFor, GroupBits
<1>6. (GroupDigits * DigitBits) * Commas(w) + DigitBits * FirstGroup(w) = w * DigitBits
  <2>1. /\ FirstGroup(w) \in Nat /\ Commas(w) \in Nat
        /\ GroupDigits \in Nat /\ DigitBits \in Nat
    BY <1>1, <1>2
  <2>2. (GroupDigits * DigitBits) * Commas(w) + DigitBits * FirstGroup(w)
            = (GroupDigits * Commas(w) + FirstGroup(w)) * DigitBits
    BY ONLY <2>1
  <2> QED
    BY <1>1, <2>2, Zenon
<1>7. w * DigitBits \in Nat
  BY <1>1, <1>2
<1> QED
  BY <1>5, <1>6, <1>7

\* CPU_ALLOC_SIZE() holds the bits asked for.
LEMMA CapacityEnough ==
    ASSUME nbits \in Nat
    PROVE  Capacity \in Int /\ nbits <= Capacity
<1> DEFINE n == nbits + LongBits - 1
           a == n \div LongBits
<1>1. LongBits \in Nat \ {0}
  BY SizesTyped
<1>2. /\ n \in Int /\ a \in Int /\ n % LongBits \in 0 .. LongBits - 1
      /\ n = LongBits * a + (n % LongBits)
  <2>1. n \in Int
    BY <1>1
  <2> QED
    BY <1>1, <2>1, DivMod, Zenon
<1>3. Capacity = LongBits * a
  BY DEF Capacity
<1> HIDE DEF a
<1> QED
  BY <1>1, <1>2, <1>3

\* The buffer holds the text of a mask no wider than the code supports.
LEMMA TextFits ==
    ASSUME NEW w \in Widths
    PROVE  TextLen(w) <= BufLen /\ BufLen \in Int
<1>1. /\ w \in Nat \ {0} /\ Commas(w) \in Nat /\ FirstGroup(w) \in 1 .. GroupDigits
      /\ w = GroupDigits * Commas(w) + FirstGroup(w) /\ TextLen(w) = w + Commas(w)
  BY TextShape DEF TextLen
<1>2. /\ GroupDigits \in Nat \ {0} /\ DigitBits \in Nat \ {0} /\ MaxCPUs \in Nat
      /\ w * DigitBits <= MaxCPUs
  BY SizesTyped, WidthsFit
<1>3. ASSUME NEW x \in Nat, NEW d \in Nat \ {0}, x * d <= MaxCPUs
      PROVE  x <= MaxCPUs \div d /\ MaxCPUs \div d \in Int
  <2> DEFINE a == MaxCPUs \div d
             r == MaxCPUs % d
  <2>1. a \in Int /\ r \in 0 .. d - 1 /\ MaxCPUs = d * a + r
    <3>1. MaxCPUs \in Int
      BY <1>2
    <3> QED
      BY <3>1, DivMod, Zenon
  <2> HIDE DEF a, r
  <2>2. x <= a
    <3> SUFFICES ASSUME a <= x - 1 PROVE FALSE
      BY <2>1
    <3>1. d * a <= d * (x - 1)
      BY <2>1
    <3>2. d * (x - 1) = x * d - d
      OBVIOUS
    <3> QED
      BY <1>2, <1>3, <2>1, <3>1, <3>2
  <2> QED
    BY <2>1, <2>2 DEF a
<1>4. GroupBits \in Nat \ {0} /\ GroupBits = GroupDigits * DigitBits
  BY <1>2 DEF GroupBits
<1>5. Commas(w) * GroupBits <= MaxCPUs
  <2>1. \A q, g, d, b \in Nat : q * (g * d) <= (g * q + b) * d
    <3> TAKE q, g, d, b \in Nat
    <3>1. (g * q + b) * d = q * (g * d) + b * d
      OBVIOUS
    <3>2. b * d >= 0 /\ q * (g * d) \in Int /\ b * d \in Int
      OBVIOUS
    <3> QED
      BY <3>1, <3>2
  <2>2. Commas(w) * (GroupDigits * DigitBits) <= w * DigitBits
    BY <1>1, <1>2, <2>1
  <2>3. Commas(w) * GroupBits \in Int /\ w * DigitBits \in Int
    BY <1>1, <1>2, <1>4
  <2> QED
    BY <1>2, <1>4, <2>2, <2>3
<1>6. w <= MaxCPUs \div DigitBits /\ MaxCPUs \div DigitBits \in Int
  BY <1>1, <1>2, <1>3
<1>7. Commas(w) <= MaxCPUs \div GroupBits /\ MaxCPUs \div GroupBits \in Int
  BY <1>1, <1>3, <1>4, <1>5
<1> QED
  BY <1>1, <1>6, <1>7 DEF BufLen

\* The text, from its end: group after group, each followed by its comma, and
\* which digit of the mask is where.
LEMMA TextFacts ==
    ASSUME NEW w \in Widths, NEW S
    PROVE  /\ Format(S, w) \in Seq(Nat) /\ Len(Format(S, w)) = TextLen(w)
           /\ \A g \in Nat, e \in 0 .. GroupDigits - 1 :
                  Group * g + e < TextLen(w) =>
                      /\ TextLen(w) - (Group * g + e) \in 1 .. TextLen(w)
                      /\ Format(S, w)[TextLen(w) - (Group * g + e)] =
                             Digit(S, g * GroupDigits + e)
           /\ \A g \in Nat :
                  Group * g + GroupDigits < TextLen(w) =>
                      Format(S, w)[TextLen(w) - (Group * g + GroupDigits)] = Comma
<1> DEFINE len == TextLen(w)
           At(x) == IF x % Group = GroupDigits THEN Comma
                    ELSE Digit(S, (x \div Group) * GroupDigits + (x % Group))
<1>1. /\ len \in Nat \ {0} /\ GroupDigits \in Nat \ {0} /\ Group \in Nat \ {0}
      /\ Group - 1 = GroupDigits
  BY TextShape, SizesTyped DEF Group
<1>2. Format(S, w) = [k \in 1 .. len |-> At(len - k)]
  BY DEF Format, TextLen, Commas
<1>3. ASSUME NEW g \in Nat, NEW e \in 0 .. GroupDigits
      PROVE  /\ Group * g + e \in Nat
             /\ (Group * g + e) \div Group = g /\ (Group * g + e) % Group = e
  <2>1. Group * g + e \in Nat /\ e \in 0 .. Group - 1
    BY <1>1
  <2> QED
    BY <1>1, <2>1, DivUnique
<1>4. \A x \in Nat : At(x) \in Nat
  <2> TAKE x \in Nat
  <2>1. Comma \in Nat
    BY DigitFacts, CommaTyped
  <2>2. x \div Group \in Nat /\ x % Group \in Nat
    BY <1>1
  <2>3. (x \div Group) * GroupDigits + (x % Group) \in Nat
    <3>1. \A a, b, c \in Nat : a * b + c \in Nat
      OBVIOUS
    <3> QED
      BY <1>1, <2>2, <3>1
  <2> QED
    BY <2>1, <2>3, DigitFacts
<1>5. ASSUME NEW x \in Nat, x < len
      PROVE  len - x \in 1 .. len /\ Format(S, w)[len - x] = At(x)
  <2>1. len - x \in 1 .. len /\ len - (len - x) = x
    BY <1>1, <1>5
  <2> HIDE DEF At, len
  <2> QED
    BY <1>2, <2>1
<1>6. Format(S, w) \in Seq(Nat) /\ Len(Format(S, w)) = len
  <2>1. \A k \in 1 .. len : len - k \in Nat
    BY <1>1
  <2> HIDE DEF At, len
  <2>2. Format(S, w) \in [1 .. len -> Nat]
    BY <1>2, <1>4, <2>1
  <2> QED
    BY <1>1, <2>2
<1>7. ASSUME NEW g \in Nat, NEW e \in 0 .. GroupDigits - 1, Group * g + e < len
      PROVE  /\ len - (Group * g + e) \in 1 .. len
             /\ Format(S, w)[len - (Group * g + e)] = Digit(S, g * GroupDigits + e)
  <2> DEFINE x == Group * g + e
  <2>1. x \in Nat /\ x \div Group = g /\ x % Group = e /\ e # GroupDigits
    BY <1>1, <1>3
  <2>2. At(x) = Digit(S, g * GroupDigits + e)
    BY <2>1
  <2> HIDE DEF x, At, len
  <2>3. x < len
    BY <1>7 DEF x
  <2>4. len - x \in 1 .. len /\ Format(S, w)[len - x] = Digit(S, g * GroupDigits + e)
    BY <1>5, <2>1, <2>2, <2>3
  <2> QED
    BY <2>4 DEF x
<1>8. ASSUME NEW g \in Nat, Group * g + GroupDigits < len
      PROVE  Format(S, w)[len - (Group * g + GroupDigits)] = Comma
  <2> DEFINE x == Group * g + GroupDigits
  <2>1. x \in Nat /\ x % Group = GroupDigits
    BY <1>1, <1>3
  <2>2. At(x) = Comma
    BY <2>1
  <2> HIDE DEF x, At, len
  <2>3. x < len
    BY <1>8 DEF x
  <2>4. Format(S, w)[len - x] = Comma
    BY <1>5, <2>1, <2>2, <2>3
  <2> QED
    BY <2>4 DEF x
<1> HIDE DEF At
<1> QED
  BY <1>6, <1>7, <1>8 DEF len

\* Where group g of a text ends, and where it begins (offsets in the text).
EndOf(w, g)   == TextLen(w) - Group * g
BeginOf(w, g) == IF EndOf(w, g) < GroupDigits THEN 0 ELSE EndOf(w, g) - GroupDigits

\* Every group but the first of the text is full; the first has what is left.
LEMMA GroupShape ==
    ASSUME NEW w \in Widths, NEW g \in 0 .. Commas(w)
    PROVE  /\ g \in Nat /\ EndOf(w, g) \in 1 .. TextLen(w)
           /\ BeginOf(w, g) \in Nat /\ BeginOf(w, g) < EndOf(w, g)
           /\ EndOf(w, g) - BeginOf(w, g) \in 1 .. GroupDigits
           /\ g # Commas(w) => /\ EndOf(w, g) - BeginOf(w, g) = GroupDigits
                               /\ EndOf(w, g) > Group
           /\ g = Commas(w) => /\ EndOf(w, g) = FirstGroup(w)
                               /\ EndOf(w, g) - BeginOf(w, g) = FirstGroup(w)
<1> DEFINE q == Commas(w)
           b == FirstGroup(w)
           last == EndOf(w, g)
<1>1. /\ q \in Nat /\ b \in 1 .. GroupDigits /\ TextLen(w) \in Nat
      /\ TextLen(w) = Group * q + b
  BY TextShape
<1>2. /\ GroupDigits \in Nat \ {0} /\ Group = GroupDigits + 1 /\ Group \in Nat
      /\ g \in Nat /\ g <= q
  BY <1>1, SizesTyped DEF Group
<1> HIDE DEF q, b
<1>3. last = Group * (q - g) + b
  BY <1>1, <1>2 DEF EndOf
<1>4. Group * g \in Nat
  BY <1>2
<1>5. last <= TextLen(w)
  BY <1>1, <1>4 DEF EndOf
<1>6. CASE g = q
  <2>1. last = b
    BY <1>1, <1>2, <1>3, <1>6
  <2> QED
    BY <1>1, <1>2, <1>5, <1>6, <2>1 DEF BeginOf, q, b
<1>7. CASE g # q
  <2>1. q - g >= 1
    BY <1>1, <1>2, <1>7
  <2>2. Group * (q - g) >= Group /\ Group * (q - g) \in Int
    BY <1>1, <1>2, <2>1
  <2>3. last > Group /\ last \in Nat
    BY <1>1, <1>2, <1>3, <2>2
  <2> QED
    BY <1>1, <1>2, <1>5, <1>7, <2>3 DEF BeginOf, q, b
<1> QED
  BY <1>6, <1>7

\* The characters of group g are its digits, and a comma follows unless the
\* text ends.
LEMMA GroupText ==
    ASSUME NEW w \in Widths, NEW S, NEW g \in 0 .. Commas(w)
    PROVE  /\ \A e \in 0 .. EndOf(w, g) - BeginOf(w, g) - 1 :
                  Format(S, w)[EndOf(w, g) - e] = Digit(S, g * GroupDigits + e)
           /\ EndOf(w, g) # TextLen(w) => Format(S, w)[EndOf(w, g) + 1] = Comma
<1> DEFINE last == EndOf(w, g)
           first == BeginOf(w, g)
           len == TextLen(w)
<1>1. /\ g \in Nat /\ last \in 1 .. len /\ first \in Nat /\ first < last
      /\ last - first \in 1 .. GroupDigits
  BY GroupShape
<1>2. /\ len \in Nat /\ GroupDigits \in Nat \ {0} /\ Group \in Nat
      /\ Group = GroupDigits + 1 /\ Group * g \in Nat /\ last = len - Group * g
  BY <1>1, TextShape, SizesTyped DEF Group, EndOf
<1> HIDE DEF last, first, len
<1>3. ASSUME NEW e \in 0 .. last - first - 1
      PROVE  Format(S, w)[last - e] = Digit(S, g * GroupDigits + e)
  <2>1. e \in 0 .. GroupDigits - 1 /\ Group * g + e < len
        /\ len - (Group * g + e) = last - e
    BY <1>1, <1>2
  <2>2. Format(S, w)[len - (Group * g + e)] = Digit(S, g * GroupDigits + e)
    BY <1>1, <2>1, TextFacts DEF len
  <2> QED
    BY <2>1, <2>2
<1>4. ASSUME last # len PROVE Format(S, w)[last + 1] = Comma
  <2>1. g # 0
    BY <1>2, <1>4
  <2>2. g - 1 \in Nat /\ Group * (g - 1) = Group * g - Group
    BY <1>1, <1>2, <2>1
  <2>3. Group * (g - 1) + GroupDigits < len
        /\ len - (Group * (g - 1) + GroupDigits) = last + 1
    BY <1>1, <1>2, <2>2
  <2>4. Format(S, w)[len - (Group * (g - 1) + GroupDigits)] = Comma
    BY <2>2, <2>3, TextFacts DEF len
  <2> QED
    BY <2>3, <2>4
<1> QED
  BY <1>3, <1>4 DEF last, first, len

\* strtoul() at the beginning of group g reads the mask's bits of that group.
LEMMA GroupBitsRead ==
    ASSUME NEW w \in Widths, NEW g \in 0 .. Commas(w), buf = Format(mask, w)
    PROVE  StrtoulBits(BeginOf(w, g)) =
               {c \in 0 .. (EndOf(w, g) - BeginOf(w, g)) * DigitBits - 1 :
                    g * GroupBits + c \in mask}
<1> DEFINE last == EndOf(w, g)
           p == BeginOf(w, g)
           Ends(e) == /\ \A k \in p + 1 .. e : buf[k] # Comma
                      /\ e = Len(buf) \/ buf[e + 1] = Comma
<1>1. /\ g \in Nat /\ last \in 1 .. TextLen(w) /\ p \in Nat /\ p < last
      /\ last - p \in 1 .. GroupDigits /\ TextLen(w) \in Nat
      /\ GroupDigits \in Nat \ {0} /\ DigitBits \in Nat \ {0}
  BY GroupShape, TextShape, SizesTyped
<1>2. Len(buf) = TextLen(w)
  BY TextFacts
<1>3. \A e \in 0 .. last - p - 1 :
          g * GroupDigits + e \in Nat /\ buf[last - e] = Digit(mask, g * GroupDigits + e)
  <2>1. \A e \in 0 .. last - p - 1 : buf[last - e] = Digit(mask, g * GroupDigits + e)
    BY GroupText
  <2>2. g * GroupDigits \in Nat
    BY <1>1
  <2> QED
    BY <1>1, <2>1, <2>2
<1>4. last # Len(buf) => buf[last + 1] = Comma
  BY <1>2, GroupText
<1> HIDE DEF last, p
<1>5. \A k \in p + 1 .. last : buf[k] # Comma
  <2> TAKE k \in p + 1 .. last
  <2>1. last - k \in 0 .. last - p - 1 /\ last - (last - k) = k
    BY <1>1
  <2>2. g * GroupDigits + (last - k) \in Nat
        /\ buf[last - (last - k)] = Digit(mask, g * GroupDigits + (last - k))
    BY <1>3, <2>1
  <2> QED
    BY <2>1, <2>2, DigitFacts
<1>6. last \in p .. Len(buf) /\ Ends(last)
  BY <1>1, <1>2, <1>4, <1>5
<1>7. ASSUME NEW e \in p .. Len(buf), Ends(e) PROVE e = last
  <2>1. ASSUME e < last PROVE FALSE
    <3>1. e + 1 \in p + 1 .. last /\ e # Len(buf)
      BY <1>1, <1>2, <2>1
    <3> QED
      BY <1>5, <1>7, <3>1
  <2>2. ASSUME e > last PROVE FALSE
    <3>1. last + 1 \in p + 1 .. e /\ last # Len(buf)
      BY <1>1, <1>2, <2>2
    <3> QED
      BY <1>4, <1>7, <3>1
  <2> QED
    BY <1>1, <1>2, <2>1, <2>2
<1>8. (CHOOSE e \in p .. Len(buf) : Ends(e)) = last
  <2> HIDE DEF Ends
  <2> QED
    BY <1>6, <1>7
<1>9. StrtoulBits(p) = {c \in 0 .. (last - p) * DigitBits - 1 :
                            Bit(buf[last - (c \div DigitBits)], c % DigitBits)}
  BY <1>8 DEF StrtoulBits
<1>10. ASSUME NEW c \in 0 .. (last - p) * DigitBits - 1
       PROVE  Bit(buf[last - (c \div DigitBits)], c % DigitBits)
                  <=> g * GroupBits + c \in mask
  <2> DEFINE e == c \div DigitBits
             b == c % DigitBits
  <2>1. e \in Int /\ b \in 0 .. DigitBits - 1 /\ c = DigitBits * e + b
    <3>1. c \in Int
      OBVIOUS
    <3> QED
      BY <1>1, <3>1, DivMod, Zenon
  <2> HIDE DEF e, b
  <2>2. e \in 0 .. last - p - 1
    <3>1. last - p \in Int /\ c >= 0 /\ c < (last - p) * DigitBits
      BY <1>1
    <3>2. ASSUME e <= -1 PROVE FALSE
      <4>1. DigitBits * e <= -DigitBits
        BY <1>1, <2>1, <3>2
      <4> QED
        BY <1>1, <2>1, <3>1, <4>1
    <3>3. ASSUME e >= last - p PROVE FALSE
      <4>1. DigitBits * e >= DigitBits * (last - p)
        BY <1>1, <2>1, <3>1, <3>3
      <4>2. DigitBits * (last - p) = (last - p) * DigitBits
        BY <1>1, <3>1
      <4> QED
        BY <1>1, <2>1, <3>1, <4>1, <4>2
    <3> QED
      BY <1>1, <2>1, <3>2, <3>3
  <2>3. /\ g * GroupDigits + e \in Nat
        /\ buf[last - e] = Digit(mask, g * GroupDigits + e)
    BY <1>3, <2>2
  <2>4. Bit(buf[last - e], b) <=> (g * GroupDigits + e) * DigitBits + b \in mask
    BY <2>1, <2>3, DigitFacts
  <2>5. (g * GroupDigits + e) * DigitBits + b = g * GroupBits + c
    <3>1. (g * GroupDigits + e) * DigitBits = g * (GroupDigits * DigitBits) + DigitBits * e
      BY <1>1, <2>1
    <3> QED
      BY <1>1, <2>1, <3>1 DEF GroupBits
  <2> QED
    BY <2>4, <2>5 DEF e, b
<1> QED
  BY <1>9, <1>10 DEF last, p

-------------------------------------------------------------------------------
(* read_mapping() *)

\* The loop stands before group i of the kernel's text, and has set the mask's
\* CPUs of the groups it has passed.
Decoding(w) ==
    /\ file = Format(mask, w) /\ file # <<>> /\ buf = file
    /\ nbits = w * DigitBits
    /\ i \in 0 .. Commas(w) /\ chunk = EndOf(w, i) - GroupDigits
    /\ set = {c \in mask : c < i * GroupBits}

\* The inductive invariant.
DecodeInv ==
    /\ pc \in {"call", "loop", "done"}
    /\ \E w \in Widths :
           /\ mask \in SUBSET (0 .. w * DigitBits - 1)
           /\ file \in {Format(mask, w), <<>>, Unreadable}
           /\ pc = "loop" => Decoding(w)
    /\ pc = "call" => set = {} /\ i = 0
    /\ DecodesMask

\* The initial state satisfies the inductive invariant.
LEMMA InitDecodeInv == Init => DecodeInv
<1> SUFFICES ASSUME Init PROVE DecodeInv
  OBVIOUS
<1>1. /\ pc = "call" /\ set = {} /\ i = 0
      /\ \E w \in Widths : /\ mask \in SUBSET (0 .. w * DigitBits - 1)
                           /\ file \in {Format(mask, w), <<>>, Unreadable}
  BY DEF Init
<1> QED
  BY <1>1 DEF DecodeInv, DecodesMask

\* read_file() gets all of the text, and the loop begins at its last group.
LEMMA ReadTextDecodeInv ==
    ASSUME DecodeInv, ReadText
    PROVE  DecodeInv'
<1>1. PICK w \in Widths : /\ mask \in SUBSET (0 .. w * DigitBits - 1)
                          /\ file \in {Format(mask, w), <<>>, Unreadable}
  BY DEF DecodeInv
<1>2. pc = "call" /\ set = {} /\ i = 0 /\ mask' = mask /\ file' = file
  BY DEF DecodeInv, ReadText
<1>3. CASE Return(-1)
  BY <1>1, <1>2, <1>3 DEF Return, DecodeInv, DecodesMask
<1>4. CASE file = <<>> /\ Return(0)
  BY <1>1, <1>2, <1>4 DEF Return, DecodeInv, DecodesMask
<1>5. CASE /\ file \notin {<<>>, Unreadable}
           /\ buf' = SubSeq(file, 1, Min({Len(file), BufLen}))
           /\ nbits' = BitsFor(Len(buf')) /\ chunk' = Len(buf') - GroupDigits
           /\ pc' = "loop" /\ UNCHANGED <<ret, set, i>>
  <2>1. file = Format(mask, w) /\ file \in Seq(Nat) /\ Len(file) = TextLen(w)
    BY <1>1, <1>5, TextFacts
  <2>2. buf' = file
    <3>1. TextLen(w) \in Int /\ BufLen \in Int /\ TextLen(w) <= BufLen
      BY TextShape, TextFits
    <3>2. \A a, b \in Int : a <= b => Min({a, b}) = a
      BY DEF Min
    <3>3. buf' = SubSeq(file, 1, Len(file))
      BY <1>5, <2>1, <3>1, <3>2
    <3> QED
      BY <2>1, <3>3
  <2>3. nbits' = w * DigitBits
    BY <1>5, <2>1, <2>2, BitsOfText
  <2>4. 0 \in 0 .. Commas(w) /\ EndOf(w, 0) = TextLen(w)
    BY TextShape, SizesTyped DEF EndOf, Group
  <2>5. {c \in mask : c < 0 * GroupBits} = {}
    <3>1. GroupBits \in Nat /\ w * DigitBits \in Nat
      BY SizesTyped, BitsOfText DEF GroupBits
    <3>2. 0 * GroupBits = 0 /\ \A c \in mask : c \in Nat
      BY <1>1, <3>1
    <3> QED
      BY <3>2
  <2>6. Decoding(w)'
    <3>1. Format(mask, w)' = Format(mask, w)
      BY <1>2 DEF Format, Digit, Bit
    <3>2. /\ i' = 0 /\ set' = {c \in mask : c < 0 * GroupBits}
          /\ chunk' = EndOf(w, 0) - GroupDigits
      BY <1>2, <1>5, <2>1, <2>2, <2>4, <2>5
    <3> QED
      BY <1>2, <1>5, <2>1, <2>2, <2>3, <2>4, <3>1, <3>2
         DEF Decoding, EndOf, TextLen, Commas, GroupBits
  <2> QED
    BY <1>1, <1>2, <1>5, <2>6 DEF DecodeInv, DecodesMask
<1> QED
  BY <1>3, <1>4, <1>5 DEF ReadText

\* A turn of the loop: the mask's CPUs of one more group.
LEMMA DecodeGroupDecodeInv ==
    ASSUME DecodeInv, DecodeGroup
    PROVE  DecodeInv'
<1>1. PICK w \in Widths : /\ mask \in SUBSET (0 .. w * DigitBits - 1)
                          /\ file \in {Format(mask, w), <<>>, Unreadable}
                          /\ Decoding(w)
  BY DEF DecodeInv, DecodeGroup
<1> DEFINE p == IF chunk < 0 THEN 0 ELSE chunk
           q == Commas(w)
           n == EndOf(w, i) - BeginOf(w, i)
<1>2. /\ file = Format(mask, w) /\ file # <<>> /\ buf = file
      /\ nbits = w * DigitBits /\ i \in 0 .. q /\ i \in Nat /\ q \in Nat
      /\ chunk = EndOf(w, i) - GroupDigits
      /\ set = {c \in mask : c < i * GroupBits}
  BY <1>1, TextShape DEF Decoding
<1>3. /\ mask' = mask /\ file' = file /\ buf' = buf /\ nbits' = nbits /\ i' = i + 1
      /\ chunk' = p - (GroupDigits + 1)
      /\ set' = set \cup {c \in {i * GroupBits + b : b \in StrtoulBits(p)} :
                             c < Capacity}
      /\ IF chunk' >= -GroupDigits THEN pc' = pc /\ ret' = ret
                                   ELSE pc' = "done" /\ ret' = 0
      /\ pc = "loop"
  BY DEF DecodeGroup, StepBack, MoreGroups
<1>4. /\ EndOf(w, i) \in Nat /\ BeginOf(w, i) \in Nat /\ n \in 1 .. GroupDigits
      /\ i # q => n = GroupDigits /\ EndOf(w, i) > Group
      /\ i = q => n = FirstGroup(w) /\ EndOf(w, i) = FirstGroup(w)
  BY <1>2, GroupShape
<1>5. /\ GroupDigits \in Nat \ {0} /\ DigitBits \in Nat \ {0} /\ GroupBits \in Nat
      /\ GroupBits = GroupDigits * DigitBits /\ Group = GroupDigits + 1
      /\ w \in Nat /\ w * DigitBits \in Nat /\ i * GroupBits \in Nat
      /\ FirstGroup(w) \in 1 .. GroupDigits
      /\ w = GroupDigits * q + FirstGroup(w)
  BY <1>2, SizesTyped, TextShape, BitsOfText DEF GroupBits, Group
<1>6. p = BeginOf(w, i)
  BY <1>2, <1>4, <1>5 DEF BeginOf
<1>7. StrtoulBits(p) = {c \in 0 .. n * DigitBits - 1 : i * GroupBits + c \in mask}
  BY <1>2, <1>6, GroupBitsRead
<1> HIDE DEF p, q, n
<1>8. n * DigitBits \in Nat /\ \A c \in mask : c \in Nat /\ c < w * DigitBits
  BY <1>1, <1>4, <1>5
<1>9. \A c \in mask : c < Capacity
  <2>1. nbits \in Nat
    BY <1>2, <1>5
  <2>2. Capacity \in Int /\ nbits <= Capacity
    BY <2>1, CapacityEnough
  <2> QED
    BY <1>2, <1>8, <2>2
<1>10. set' = {c \in mask : c < i * GroupBits + n * DigitBits}
  <2>1. ASSUME NEW c \in set' PROVE c \in mask /\ c < i * GroupBits + n * DigitBits
    <3>1. CASE c \in set
      BY <1>2, <1>5, <1>8, <3>1
    <3>2. CASE \E b \in StrtoulBits(p) : c = i * GroupBits + b
      BY <1>5, <1>7, <1>8, <3>2
    <3> QED
      BY <1>3, <2>1, <3>1, <3>2
  <2>2. ASSUME NEW c \in mask, c < i * GroupBits + n * DigitBits PROVE c \in set'
    <3>1. c \in Nat /\ c < Capacity
      BY <1>8, <1>9
    <3>2. CASE c < i * GroupBits
      BY <1>2, <1>3, <3>2
    <3>3. CASE c >= i * GroupBits
      <4>1. c - i * GroupBits \in 0 .. n * DigitBits - 1
            /\ i * GroupBits + (c - i * GroupBits) = c
        BY <1>5, <1>8, <2>2, <3>1, <3>3
      <4>2. c - i * GroupBits \in StrtoulBits(p)
        BY <1>7, <4>1
      <4> QED
        BY <1>3, <3>1, <4>1, <4>2
    <3> QED
      BY <1>5, <3>1, <3>2, <3>3
  <2> QED
    BY <2>1, <2>2
<1>11. CASE i # q
  <2>1. n = GroupDigits /\ EndOf(w, i) > Group /\ i + 1 \in 0 .. q
    BY <1>2, <1>4, <1>11
  <2>2. p = EndOf(w, i) - GroupDigits
    BY <1>4, <1>5, <1>6, <2>1 DEF BeginOf
  <2>3. EndOf(w, i + 1) = EndOf(w, i) - Group
    <3>1. TextLen(w) \in Nat /\ Group \in Nat
      BY <1>5, TextShape
    <3>2. Group * (i + 1) = Group * i + Group /\ Group * i \in Nat
      BY <1>2, <3>1
    <3> QED
      BY <3>1, <3>2 DEF EndOf
  <2>4. chunk' = EndOf(w, i + 1) - GroupDigits /\ chunk' >= -GroupDigits
    BY <1>3, <1>4, <1>5, <2>1, <2>2, <2>3
  <2>5. i * GroupBits + n * DigitBits = (i + 1) * GroupBits
    BY <1>2, <1>5, <2>1
  <2>6. set' = {c \in mask : c < (i + 1) * GroupBits}
    BY <1>10, <2>5
  <2>7. pc' = "loop"
    BY <1>3, <2>4
  <2>8. Decoding(w)'
    BY <1>2, <1>3, <2>1, <2>4, <2>6
       DEF q, Decoding, Format, Digit, Bit, EndOf, TextLen, Commas, GroupBits
  <2> QED
    BY <1>1, <1>3, <2>7, <2>8 DEF DecodeInv, DecodesMask
<1>12. CASE i = q
  <2>1. n = FirstGroup(w) /\ EndOf(w, i) = FirstGroup(w)
    BY <1>4, <1>12
  <2>2. p = 0
    BY <1>5, <1>6, <2>1 DEF BeginOf
  <2>3. pc' = "done" /\ ret' = 0
    BY <1>3, <1>5, <2>2
  <2>4. i * GroupBits + n * DigitBits = w * DigitBits
    <3>1. q * (GroupDigits * DigitBits) + FirstGroup(w) * DigitBits
              = (GroupDigits * q + FirstGroup(w)) * DigitBits
      <4>1. q \in Nat /\ GroupDigits \in Nat /\ DigitBits \in Nat /\ FirstGroup(w) \in Nat
        BY <1>2, <1>5
      <4> QED
        BY ONLY <4>1
    <3> QED
      BY <1>5, <1>12, <2>1, <3>1
  <2>5. set' = mask
    BY <1>8, <1>10, <2>4
  <2> QED
    BY <1>1, <1>2, <1>3, <2>3, <2>5 DEF DecodeInv, DecodesMask
<1> QED
  BY <1>11, <1>12

\* Every step keeps the invariant.
LEMMA NextDecodeInv == DecodeInv /\ [Next]_vars => DecodeInv'
<1> SUFFICES ASSUME DecodeInv, [Next]_vars PROVE DecodeInv'
  OBVIOUS
<1>1. CASE UNCHANGED vars
  BY <1>1 DEF vars, DecodeInv, DecodesMask, Decoding, Format, Digit, Bit, EndOf,
              TextLen, Commas, GroupBits
<1> QED
  BY <1>1, ReadTextDecodeInv, DecodeGroupDecodeInv DEF Next

\* The invariant holds for any width of the text, group, digit and long.
THEOREM DecodeInvariant == Spec => []DecodeInv
  BY InitDecodeInv, NextDecodeInv, PTL DEF Spec

\* read_mapping()'s loop: after i groups exactly the mask's CPUs below i groups
\* are set.
THEOREM DecodedSoFarHolds == Spec => []DecodedSoFar
<1>1. DecodeInv => DecodedSoFar
  BY DEF DecodeInv, Decoding, DecodedSoFar
<1> QED
  BY <1>1, DecodeInvariant, PTL

\* read_mapping() returns the kernel's set: no CPU is lost to the buffer, to
\* the allocated size, to the comma arithmetic or to a short first group.
THEOREM DecodesMaskHolds == Spec => []DecodesMask
<1>1. DecodeInv => DecodesMask
  BY DEF DecodeInv
<1> QED
  BY <1>1, DecodeInvariant, PTL

\* The turns of the loop that are left at most, in characters.
CharsLeft ==
    CASE pc = "call" -> BufLen + 2
      [] pc = "loop" -> chunk + Group
      [] OTHER       -> 0

\* A step brings the call nearer to its end.
GroupDone == CharsLeft \in Nat /\ CharsLeft' \in Nat /\ CharsLeft' < CharsLeft

\* Where chunk_str may point: at most a short group before the buffer.
ChunkBound ==
    /\ pc \in {"call", "loop", "done"} /\ BufLen \in Nat
    /\ pc = "loop" => chunk \in -GroupDigits .. BufLen - GroupDigits

\* It follows from the invariant.
LEMMA DecodeChunkBound == DecodeInv => ChunkBound
<1> SUFFICES ASSUME DecodeInv PROVE ChunkBound
  OBVIOUS
<1>1. PICK w \in Widths : pc = "loop" => Decoding(w)
  BY DEF DecodeInv
<1>2. /\ w \in Nat \ {0} /\ Commas(w) \in Nat /\ FirstGroup(w) \in 1 .. GroupDigits
      /\ TextLen(w) = Group * Commas(w) + FirstGroup(w)
  BY TextShape
<1>3. TextLen(w) <= BufLen /\ BufLen \in Int /\ GroupDigits \in Nat \ {0}
  BY TextFits, SizesTyped
<1>4. Group \in Nat /\ Group * Commas(w) \in Nat
  <2>1. Group \in Nat
    BY <1>3 DEF Group
  <2> QED
    BY <1>2, <2>1
<1>5. BufLen \in Nat
  BY <1>2, <1>3, <1>4
<1>6. ASSUME pc = "loop" PROVE chunk \in -GroupDigits .. BufLen - GroupDigits
  <2>1. i \in 0 .. Commas(w) /\ chunk = EndOf(w, i) - GroupDigits
    BY <1>1, <1>6 DEF Decoding
  <2>2. Group * i \in Nat /\ Group * i <= Group * Commas(w)
    BY <1>2, <1>4, <2>1
  <2>3. EndOf(w, i) = TextLen(w) - Group * i
    BY DEF EndOf
  <2> QED
    BY <1>2, <1>3, <1>4, <2>1, <2>2, <2>3
<1>7. pc \in {"call", "loop", "done"}
  BY DEF DecodeInv
<1> QED
  BY <1>5, <1>6, <1>7 DEF ChunkBound

\* read_mapping() ends: chunk_str moves back by a group and its comma, or the
\* group was the last one, so the loop ends for any text.
THEOREM DecodingEnds == Spec => [][GroupDone]_vars
<1>1. ASSUME ChunkBound, ChunkBound', Next PROVE GroupDone
  <2>1. GroupDigits \in Nat \ {0} /\ Group = GroupDigits + 1 /\ BufLen \in Nat
    BY <1>1, SizesTyped DEF ChunkBound, Group
  <2>2. CASE ReadText
    <3>1. pc = "call" /\ pc' \in {"loop", "done"}
      BY <2>2 DEF ReadText, Return
    <3>2. pc' = "loop" => chunk' \in -GroupDigits .. BufLen - GroupDigits
      BY <1>1 DEF ChunkBound
    <3> QED
      BY <2>1, <3>1, <3>2 DEF GroupDone, CharsLeft
  <2>3. CASE DecodeGroup
    <3> DEFINE p == IF chunk < 0 THEN 0 ELSE chunk
    <3>1. pc = "loop" /\ chunk' = p - Group /\ (pc' = "done" \/ pc' = pc)
          /\ (pc' = pc => chunk' >= -GroupDigits)
      BY <1>1, <2>3 DEF DecodeGroup, MoreGroups, StepBack, Group, ChunkBound
    <3>2. chunk \in -GroupDigits .. BufLen - GroupDigits
      BY <1>1, <3>1 DEF ChunkBound
    <3> QED
      BY <2>1, <3>1, <3>2 DEF GroupDone, CharsLeft
  <2> QED
    BY <1>1, <2>2, <2>3 DEF Next
<1>2. ChunkBound /\ ChunkBound' /\ [Next]_vars => [GroupDone]_vars
  BY <1>1
<1> QED
  BY <1>2, DecodeChunkBound, DecodeInvariant, PTL DEF Spec

-------------------------------------------------------------------------------
(* Texts and positions in them *)

\* A text is a sequence of characters.
LEMMA TextIs ==
    ASSUME text \in Texts
    PROVE  /\ Len(text) \in Nat /\ End \in Nat /\ End = Len(text) + 1
           /\ DOMAIN text = 1 .. Len(text)
           /\ \A k \in 1 .. Len(text) : text[k] \in Chars
<1>1. PICK n \in Nat : text \in [1 .. n -> Chars]
  BY BoundsTyped DEF Texts
<1>2. text \in Seq(Chars)
  BY <1>1
<1> QED
  BY <1>2 DEF End

\* The smallest element of a set of natural numbers.
LEMMA MinIs ==
    ASSUME NEW S \in SUBSET Nat, S # {}
    PROVE  Min(S) \in S /\ \A y \in S : Min(S) <= y
  BY LeastElement DEF Min

\* fgetc() until a character of S: nothing of S is passed over.
LEMMA FindIs ==
    ASSUME text \in Texts, NEW p \in 1 .. End, NEW S
    PROVE  /\ Find(p, S) \in p .. End
           /\ \A k \in p .. Find(p, S) - 1 : k \in 1 .. Len(text) /\ text[k] \notin S
           /\ Find(p, S) < End => text[Find(p, S)] \in S
           /\ \A k \in p .. Len(text) : text[k] \in S => Find(p, S) <= k
<1> DEFINE T == {j \in p .. Len(text) : text[j] \in S} \cup {End}
<1>1. /\ Len(text) \in Nat /\ End = Len(text) + 1 /\ p \in Nat /\ p >= 1
  BY TextIs
<1>2. T \in SUBSET Nat /\ T # {}
  BY <1>1
<1>3. Min(T) \in T /\ \A y \in T : Min(T) <= y
  BY <1>2, MinIs
<1>4. Find(p, S) = Min(T)
  BY DEF Find
<1> HIDE DEF T
<1>5. ASSUME NEW k \in p .. Len(text), text[k] \in S PROVE Find(p, S) <= k
  BY <1>3, <1>4, <1>5 DEF T
<1>6. Find(p, S) \in p .. End /\ (Find(p, S) < End => text[Find(p, S)] \in S)
  BY <1>1, <1>3, <1>4 DEF T
<1>7. ASSUME NEW k \in p .. Find(p, S) - 1
      PROVE  k \in 1 .. Len(text) /\ text[k] \notin S
  <2>1. k \in p .. Len(text) /\ k < Find(p, S)
    BY <1>1, <1>6
  <2> QED
    BY <1>1, <1>5, <1>6, <2>1
<1> QED
  BY <1>5, <1>6, <1>7

\* skip_to_next_line(): the line after the next newline, or the end.
LEMMA NextLineIs ==
    ASSUME text \in Texts, NEW p \in 1 .. End
    PROVE  /\ skip_to_next_line(p) \in p .. End
           /\ ~AtEof(p) => skip_to_next_line(p) = Find(p, {"nl"}) + 1
           /\ AtEof(p) => skip_to_next_line(p) = End
           /\ skip_to_next_line(p) \in Starts \cup {End}
<1> DEFINE f == Find(p, {"nl"})
           T == {f + 1, End}
<1>1. f \in p .. End /\ p \in Nat /\ End \in Nat /\ f \in Nat /\ p >= 1
  BY FindIs, TextIs
<1>2. f < End => text[f] \in {"nl"} /\ f \in DOMAIN text
  BY <1>1, FindIs, TextIs
<1>3. T \in SUBSET Nat /\ T # {}
  BY <1>1
<1>4. Min(T) \in T /\ \A y \in T : Min(T) <= y
  BY <1>3, MinIs
<1>5. skip_to_next_line(p) = Min(T)
  BY DEF skip_to_next_line
<1>6. f < End => f + 1 \in Starts
  BY <1>2 DEF Starts
<1> HIDE DEF f
<1>7. CASE f < End
  BY <1>1, <1>4, <1>5, <1>6, <1>7 DEF AtEof, f
<1>8. CASE f = End
  BY <1>1, <1>4, <1>5, <1>8 DEF AtEof, f
<1> QED
  BY <1>1, <1>7, <1>8

\* Lines begin after newlines.
LEMMA StartsAre ==
    ASSUME text \in Texts
    PROVE  /\ \A s \in Starts : s \in 1 .. End
           /\ \A s \in Starts : s > 1 => s - 1 \in 1 .. Len(text) /\ text[s - 1] = "nl"
           /\ \A k \in 1 .. Len(text) : text[k] = "nl" => k + 1 \in Starts
           /\ 1 \in Starts
  BY TextIs DEF Starts

\* A newline ends a line before the next one begins.
LEMMA StartsApart ==
    ASSUME text \in Texts, NEW s \in 1 .. End, NEW q \in Starts, s < q
    PROVE  Find(s, {"nl"}) < q
<1>1. s \in Nat /\ q \in Nat /\ s >= 1 /\ q - 1 \in 1 .. Len(text) /\ text[q - 1] = "nl"
  BY StartsAre, TextIs
<1>2. q - 1 \in s .. Len(text) /\ text[q - 1] \in {"nl"}
  BY <1>1
<1>3. Find(s, {"nl"}) <= q - 1 /\ Find(s, {"nl"}) \in s .. End
  BY <1>2, FindIs
<1> QED
  BY <1>1, <1>3, TextIs

\* skip_comments(): what it passes over are comments.
LEMMA SkipCommentsIs ==
    ASSUME text \in Texts, NEW p \in Starts \cup {End}
    PROVE  /\ skip_comments(p) \in p .. End
           /\ skip_comments(p) \in Starts \cup {End}
           /\ skip_comments(p) < End => text[skip_comments(p)] # "#"
           /\ \A q \in Starts : p <= q /\ q < skip_comments(p) => text[q] = "#"
<1> DEFINE L == {p} \cup {k + 1 : k \in {j \in p .. Len(text) : text[j] = "nl"}}
           T == {q \in L : q = End \/ text[q] # "#"} \cup {End}
<1>1. p \in 1 .. End /\ p \in Nat /\ End \in Nat /\ Len(text) \in Nat /\ End = Len(text) + 1
  BY TextIs, StartsAre
<1>2. \A q \in L : q \in p .. End /\ q \in Nat /\ q \in Starts \cup {End}
  <2> TAKE q \in L
  <2>1. CASE q = p
    BY <1>1, <2>1
  <2>2. ASSUME NEW k \in p .. Len(text), text[k] = "nl", q = k + 1
        PROVE  q \in p .. End /\ q \in Nat /\ q \in Starts \cup {End}
    <3>1. k \in 1 .. Len(text) /\ k + 1 \in p .. End /\ k + 1 \in Nat
      BY <1>1
    <3> QED
      BY <2>2, <3>1, StartsAre
  <2> QED
    BY <2>1, <2>2
<1>3. \A q \in Starts : p <= q => q \in L
  <2> SUFFICES ASSUME NEW q \in Starts, p <= q, q # p PROVE q \in L
    OBVIOUS
  <2>1. q \in Nat /\ q > 1
    BY <1>1, StartsAre
  <2>2. q - 1 \in 1 .. Len(text) /\ text[q - 1] = "nl"
    BY <2>1, StartsAre
  <2>3. q - 1 \in p .. Len(text) /\ q = (q - 1) + 1
    BY <1>1, <2>1, <2>2
  <2> QED
    BY <2>2, <2>3
<1> HIDE DEF L
<1>4. T \in SUBSET Nat /\ T # {}
  BY <1>1, <1>2
<1>5. Min(T) \in T /\ \A y \in T : Min(T) <= y
  BY <1>4, MinIs
<1>6. skip_comments(p) = Min(T)
  BY DEF skip_comments, L
<1>7. skip_comments(p) \in p .. End /\ skip_comments(p) \in Starts \cup {End}
  BY <1>1, <1>2, <1>5, <1>6
<1>8. skip_comments(p) < End => text[skip_comments(p)] # "#"
  BY <1>1, <1>5, <1>6
<1>9. ASSUME NEW q \in Starts, p <= q, q < skip_comments(p) PROVE text[q] = "#"
  <2>1. q \in Nat /\ skip_comments(p) \in Nat
    BY <1>1, <1>7, StartsAre
  <2> QED
    BY <1>3, <1>5, <1>6, <1>9, <2>1
<1> QED
  BY <1>7, <1>8, <1>9

\* Every character is in a line.
LEMMA LineOf ==
    ASSUME text \in Texts, NEW j \in 1 .. Len(text)
    PROVE  \E s \in Starts : s <= j /\ s \in 1 .. Len(text) /\ \A k \in s .. j - 1 : text[k] # "nl"
<1> DEFINE D == {d \in Nat : j - d \in Starts}
<1>1. j \in Nat /\ j >= 1 /\ Len(text) \in Nat
  BY TextIs
<1>2. D \in SUBSET Nat /\ D # {}
  <2>1. j - 1 \in D
    BY <1>1, StartsAre
  <2> QED
    BY <2>1
<1>3. PICK d \in D : \A e \in D : d <= e
  BY <1>2, LeastElement
<1>4. ASSUME NEW k \in (j - d) .. j - 1, text[k] = "nl" PROVE FALSE
  <2>0. d \in Nat /\ j - d \in 1 .. End
    BY <1>3, StartsAre
  <2>1. d \in Nat /\ j - d \in Nat /\ k \in Nat /\ k \in 1 .. Len(text)
    BY <1>1, <2>0, TextIs
  <2>2. k + 1 \in Starts
    BY <1>4, <2>1, StartsAre
  <2>3. j - (k + 1) \in Nat /\ j - (j - (k + 1)) = k + 1 /\ j - (k + 1) < d
    BY <1>1, <2>1
  <2>4. j - (k + 1) \in D
    BY <2>2, <2>3
  <2> QED
    BY <1>3, <2>1, <2>3, <2>4
<1>5. j - d \in Starts /\ j - d <= j /\ j - d \in 1 .. Len(text)
  BY <1>1, StartsAre, TextIs
<1> QED
  BY <1>4, <1>5

-------------------------------------------------------------------------------
(* Counting *)

\* Rank counts the elements before a position.
LEMMA RankIs ==
    ASSUME NEW S \in SUBSET Nat, IsFiniteSet(S), NEW p \in Nat, NEW q \in Nat, p <= q
    PROVE  /\ Rank(p, S) \in Nat /\ Rank(q, S) \in Nat /\ Cardinality(S) \in Nat
           /\ Rank(p, S) <= Rank(q, S) /\ Rank(q, S) <= Cardinality(S)
           /\ (\A x \in S : x < q) => Rank(q, S) = Cardinality(S)
           /\ (\A x \in S : x >= p) => Rank(p, S) = 0
<1> DEFINE P == {x \in S : x < p}
           Q == {x \in S : x < q}
<1>0. \A x \in S : x < p => x < q
  OBVIOUS
<1>1. P \in SUBSET Q /\ Q \in SUBSET S
  BY <1>0, Zenon
<1>2. IsFiniteSet(P) /\ IsFiniteSet(Q)
  BY <1>1, FS_Subset
<1>3. /\ Cardinality(P) \in Nat /\ Cardinality(Q) \in Nat /\ Cardinality(S) \in Nat
      /\ Cardinality(P) <= Cardinality(Q) /\ Cardinality(Q) <= Cardinality(S)
  BY <1>1, <1>2, FS_Subset, FS_CardinalityType
<1>4. (\A x \in S : x < q) => Q = S
  OBVIOUS
<1>5. ASSUME \A x \in S : x >= p PROVE Cardinality(P) = 0
  <2>1. \A x \in S : ~(x < p)
    BY <1>5
  <2>2. P = {}
    BY <2>1, Zenon
  <2> QED
    BY <2>2, FS_EmptySet
<1>6. Rank(p, S) = Cardinality(P) /\ Rank(q, S) = Cardinality(Q)
  BY DEF Rank
<1> QED
  BY <1>3, <1>4, <1>5, <1>6

\* An element between two positions is counted.
LEMMA RankOne ==
    ASSUME NEW S \in SUBSET Nat, IsFiniteSet(S), NEW p \in Nat, NEW q \in Nat,
           NEW r \in S, p <= r, r < q
    PROVE  /\ Rank(q, S) >= Rank(p, S) + 1
           /\ (\A x \in S : p <= x /\ x < q => x = r) => Rank(q, S) = Rank(p, S) + 1
           /\ Rank(q, S) = Rank(p, S) + 1 => \A x \in S : p <= x /\ x < q => x = r
<1> DEFINE P == {x \in S : x < p}
           Q == {x \in S : x < q}
           R == P \cup {r}
<1>0. /\ \A x \in S : x < p => x < q
      /\ ~(r < p) /\ \A x \in S : x < p \/ p <= x
      /\ \A x \in S : ~(p <= x /\ x < p)
  OBVIOUS
<1>1. P \in SUBSET S /\ Q \in SUBSET S /\ R \in SUBSET Q /\ r \notin P
  BY <1>0, Zenon
<1>2. IsFiniteSet(P) /\ IsFiniteSet(Q)
  BY <1>1, FS_Subset
<1>3. Cardinality(R) = Cardinality(P) + 1
  BY <1>1, <1>2, FS_AddElement
<1>4. Cardinality(R) <= Cardinality(Q) /\ (Cardinality(Q) = Cardinality(R) => Q = R)
  BY <1>1, <1>2, FS_Subset
<1>5. Cardinality(P) \in Nat /\ Cardinality(Q) \in Nat
  BY <1>2, FS_CardinalityType
<1>6. (\A x \in S : p <= x /\ x < q => x = r) => Q = R
  BY <1>0, <1>1, Zenon
<1>7. Q = R => \A x \in S : p <= x /\ x < q => x = r
  BY <1>0, Zenon
<1>8. Rank(p, S) = Cardinality(P) /\ Rank(q, S) = Cardinality(Q)
  BY DEF Rank
<1> HIDE DEF P, Q, R
<1> QED
  BY <1>3, <1>4, <1>5, <1>6, <1>7, <1>8

\* Nothing between two positions counts nothing.
LEMMA RankSame ==
    ASSUME NEW S \in SUBSET Nat, NEW p \in Nat, NEW q \in Nat, p <= q,
           \A x \in S : ~(p <= x /\ x < q)
    PROVE  Rank(p, S) = Rank(q, S)
<1>1. \A x \in S : x < p <=> x < q
  OBVIOUS
<1>2. {x \in S : x < p} = {x \in S : x < q}
  BY <1>1, Zenon
<1> QED
  BY <1>2 DEF Rank

\* Records are finitely many.
LEMMA RecordsFinite ==
    ASSUME text \in Texts
    PROVE  /\ Records \in SUBSET Nat /\ IsFiniteSet(Records)
           /\ \A s \in Records : s \in 1 .. Len(text) /\ s \in Starts /\ text[s] # "#"
                                /\ Find(s, {"nl"}) < End
<1>1. \A s \in Records : s \in 1 .. Len(text) /\ s \in Starts /\ text[s] # "#"
                         /\ Find(s, {"nl"}) < End
  BY StartsAre, TextIs DEF Records
<1>2. Records \in SUBSET (1 .. Len(text)) /\ Len(text) \in Nat
  BY <1>1, TextIs
<1>3. IsFiniteSet(1 .. Len(text))
  BY <1>2, FS_Interval
<1>4. IsFiniteSet(Records)
  BY <1>2, <1>3, FS_Subset, Zenon
<1>5. Records \in SUBSET Nat
  BY <1>2
<1> QED
  BY <1>1, <1>4, <1>5

\* So are the fields of a line.
LEMMA FieldsFinite ==
    ASSUME text \in Texts, NEW s \in 1 .. Len(text)
    PROVE  Fields(s, {" "}) \in SUBSET Nat /\ IsFiniteSet(Fields(s, {" "}))
<1>1. Len(text) \in Nat /\ s \in Nat /\ s \in 1 .. End
  BY TextIs
<1>2. Find(s, {"nl"}) \in Nat
  BY <1>1, FindIs, TextIs
<1>3. Fields(s, {" "}) \in SUBSET (s .. Find(s, {"nl"}) - 1)
  BY DEF Fields
<1>4. IsFiniteSet(s .. Find(s, {"nl"}) - 1)
  BY <1>1, <1>2, FS_Interval
<1>5. IsFiniteSet(Fields(s, {" "}))
  BY <1>3, <1>4, FS_Subset, Zenon
<1>6. \A x \in s .. Find(s, {"nl"}) - 1 : x \in Nat
  BY <1>1, <1>2
<1>7. Fields(s, {" "}) \in SUBSET Nat
  BY <1>3, <1>6, Zenon
<1> QED
  BY <1>5, <1>7

-------------------------------------------------------------------------------
(* The columns of a line *)

Words == Chars \ Blanks

\* Where the fields of the line at s begin.
FieldsOf(s) == Fields(s, {" "})

\* fscanf("%*s,") takes no comma: the word before it had taken it.
LEMMA SkipWordIs ==
    ASSUME text \in Texts, NEW p \in 1 .. End
    PROVE  /\ Find(p, Words) \in p .. End
           /\ SkipWord(p) = Find(Find(p, Words), Blanks)
           /\ SkipWord(p) \in p .. End
<1> DEFINE word == Find(p, Words)
           stop == Find(word, Blanks)
<1>1. word \in p .. End /\ p \in Nat /\ p >= 1 /\ End \in Nat
  BY FindIs, TextIs
<1>2. word \in 1 .. End /\ word \in Nat
  BY <1>1
<1> HIDE DEF word
<1>3. stop \in word .. End /\ (stop < End => text[stop] \in Blanks)
  BY <1>2, FindIs
<1>4. ~(stop < End /\ text[stop] = ",")
  BY <1>3 DEF Blanks
<1>5. SkipWord(p) = stop
  BY <1>4 DEF SkipWord, word, Words
<1> QED
  BY <1>1, <1>2, <1>3, <1>5 DEF word

\* The columns of the loop over cur_col: f[n] is where column n is looked for.
Walk(f) ==
    /\ f \in [1 .. column -> 1 .. End]
    /\ f[1] = skip_comments(pos)
    /\ \A n \in 1 .. column - 1 : f[n + 1] = SkipWord(f[n])

\* There is such a function, which the definition of ColumnAt takes.
LEMMA WalkExists ==
    ASSUME text \in Texts, column \in Nat \ {0}, pos \in Starts \cup {End}
    PROVE  \E f : Walk(f) /\ ColumnAt = f[column]
<1> DEFINE a == skip_comments(pos)
           Step(f, n) == IF n = 1 THEN a ELSE SkipWord(f[n - 1])
           Part(m) == {f \in [1 .. m -> 1 .. End] : \A n \in 1 .. m : f[n] = Step(f, n)}
           Good == {m \in Nat : Part(m + 1) # {}}
<1>1. a \in 1 .. End
  <2>1. a \in pos .. End /\ pos \in 1 .. End /\ End \in Nat
    BY SkipCommentsIs, StartsAre, TextIs
  <2> QED
    BY <2>1
<1>2. \A p \in 1 .. End : SkipWord(p) \in 1 .. End
  <2> TAKE p \in 1 .. End
  <2>1. SkipWord(p) \in p .. End /\ End \in Nat
    BY SkipWordIs, TextIs
  <2> QED
    BY <2>1
<1> HIDE DEF a
<1>3. 0 \in Good
  <2> DEFINE g == [n \in 1 .. 1 |-> a]
  <2>1. g \in Part(1)
    BY <1>1
  <2> QED
    BY <2>1
<1>4. ASSUME NEW m \in Nat, m \in Good PROVE m + 1 \in Good
  <2> DEFINE l == m + 1
             h(f) == [n \in 1 .. l + 1 |-> Step(f, n)]
  <2>1. PICK f \in [1 .. l -> 1 .. End] : \A n \in 1 .. l : f[n] = Step(f, n)
    BY <1>4
  <2>2. l \in Nat /\ l >= 1
    OBVIOUS
  <2> HIDE DEF l
  <2>3. \A n \in 1 .. l + 1 : n # 1 => n - 1 \in 1 .. l
    BY <2>2
  <2>4. \A n \in 1 .. l + 1 : Step(f, n) \in 1 .. End
    BY <1>1, <1>2, <2>1, <2>3
  <2>5. h(f) \in [1 .. l + 1 -> 1 .. End]
    BY <2>4
  <2>6. \A n \in 1 .. l : h(f)[n] = f[n]
    BY <2>1, <2>2
  <2>7. \A n \in 1 .. l + 1 : h(f)[n] = Step(h(f), n)
    BY <2>3, <2>6
  <2>8. h(f) \in Part(l + 1)
    BY <2>5, <2>7
  <2>9. Part(l + 1) # {}
    BY <2>8, Zenon
  <2> HIDE DEF Part
  <2> QED
    BY <2>9 DEF l
<1>5. Nat \subseteq Good
  BY <1>3, <1>4, InductionSet
<1>6. Part(column) # {}
  <2>1. column - 1 \in Nat /\ (column - 1) + 1 = column
    OBVIOUS
  <2> QED
    BY <1>5, <2>1
<1>7. PICK f \in [1 .. column -> 1 .. End] : \A n \in 1 .. column : f[n] = Step(f, n)
  BY <1>6
<1> DEFINE IsIt(g) == g = [n \in 1 .. column |-> Step(g, n)]
           it == CHOOSE g : IsIt(g)
<1>8. IsIt(f)
  BY <1>7
<1>9. IsIt(it)
  BY <1>8
<1>10. ColumnAt = it[column]
  BY DEF ColumnAt, a
<1> HIDE DEF it
<1>11. \A n \in 1 .. column : it[n] = Step(it, n)
  BY <1>9
<1>12. DOMAIN it = 1 .. column /\ it = [n \in 1 .. column |-> it[n]]
  BY <1>9
<1>13. \A n \in 1 .. column : it[n] \in 1 .. End
  <2> DEFINE In == {m \in Nat : m + 1 <= column => it[m + 1] \in 1 .. End}
  <2>1. 0 \in In
    BY <1>1, <1>11
  <2>2. ASSUME NEW m \in Nat, m \in In PROVE m + 1 \in In
    <3> SUFFICES ASSUME (m + 1) + 1 <= column PROVE it[(m + 1) + 1] \in 1 .. End
      OBVIOUS
    <3>1. /\ (m + 1) + 1 \in 1 .. column /\ (m + 1) + 1 # 1
          /\ ((m + 1) + 1) - 1 = m + 1 /\ it[m + 1] \in 1 .. End
      BY <2>2
    <3> QED
      BY <1>2, <1>11, <3>1
  <2>3. Nat \subseteq In
    BY <2>1, <2>2, InductionSet
  <2> TAKE n \in 1 .. column
  <2>4. n - 1 \in Nat /\ (n - 1) + 1 = n /\ n <= column
    OBVIOUS
  <2> QED
    BY <2>3, <2>4
<1>14. it \in [1 .. column -> 1 .. End]
  BY <1>12, <1>13
<1>15. \A n \in 1 .. column - 1 : it[n + 1] = SkipWord(it[n])
  <2> TAKE n \in 1 .. column - 1
  <2>1. n + 1 \in 1 .. column /\ n + 1 # 1 /\ (n + 1) - 1 = n
    OBVIOUS
  <2> QED
    BY <1>11, <2>1
<1>16. it[1] = a
  BY <1>11
<1> QED
  BY <1>10, <1>14, <1>15, <1>16 DEF Walk, a

\* The walk goes forward.
LEMMA WalkForward ==
    ASSUME text \in Texts, column \in Nat \ {0}, NEW f, Walk(f),
           NEW n \in 1 .. column
    PROVE  f[n] <= f[column]
<1> DEFINE A == {m \in Nat : m < column => f[column - m] <= f[column]}
<1>1. \A k \in 1 .. column : f[k] \in 1 .. End /\ f[k] \in Nat
  BY TextIs DEF Walk
<1>2. 0 \in A
  BY <1>1
<1>3. ASSUME NEW m \in Nat, m \in A PROVE m + 1 \in A
  <2> SUFFICES ASSUME m + 1 < column PROVE f[column - (m + 1)] <= f[column]
    OBVIOUS
  <2> DEFINE k == column - (m + 1)
  <2>1. k \in 1 .. column - 1 /\ k \in 1 .. column /\ k + 1 = column - m /\ m < column
        /\ k + 1 \in 1 .. column /\ column \in 1 .. column
    OBVIOUS
  <2>2. f[k + 1] <= f[column]
    BY <1>3, <2>1
  <2> HIDE DEF k
  <2>3. f[k + 1] = SkipWord(f[k])
    BY <2>1 DEF Walk
  <2>4. SkipWord(f[k]) \in f[k] .. End
    BY <1>1, <2>1, SkipWordIs
  <2>5. f[k] <= f[column]
    BY <1>1, <2>1, <2>2, <2>3, <2>4, TextIs
  <2> QED
    BY <2>5 DEF k
<1>4. Nat \subseteq A
  BY <1>2, <1>3, InductionSet
<1>5. column - n \in Nat /\ column - n < column /\ column - (column - n) = n
  OBVIOUS
<1> QED
  BY <1>4, <1>5

\* fscanf() from the beginning of a line or from the end of a field: the next
\* word is the next field, and the call stops at its end.
LEMMA NextField ==
    ASSUME text \in Texts, NEW s \in Records, NEW p \in s .. Find(s, {"nl"}),
           p = s \/ text[p] \in Blanks,
           Find(p, Words) < Find(s, {"nl"})
    PROVE  /\ Find(p, Words) \in Fields(s, {" "})
           /\ Rank(Find(p, Words), Fields(s, {" "})) = Rank(p, Fields(s, {" "}))
           /\ SkipWord(p) \in p .. Find(s, {"nl"})
           /\ text[SkipWord(p)] \in Blanks
           /\ Rank(SkipWord(p), Fields(s, {" "})) = Rank(p, Fields(s, {" "})) + 1
<1> DEFINE e    == Find(s, {"nl"})
           word == Find(p, Words)
           stop == SkipWord(p)
           F    == Fields(s, {" "})
<1>1. /\ s \in 1 .. Len(text) /\ s \in 1 .. End /\ s \in Nat /\ e < End
      /\ e \in s .. End /\ Len(text) \in Nat /\ End = Len(text) + 1
  BY RecordsFinite, FindIs, TextIs
<1>2. /\ e \in Nat /\ text[e] = "nl" /\ e \in 1 .. Len(text)
      /\ \A k \in s .. e - 1 : text[k] # "nl"
  BY <1>1, FindIs
<1>3. p \in Nat /\ p \in 1 .. End /\ s <= p /\ p >= 1
  BY <1>1, <1>2
<1>4. /\ word \in p .. End /\ word < e /\ stop = Find(word, Blanks)
      /\ \A k \in p .. word - 1 : k \in 1 .. Len(text) /\ text[k] \notin Words
      /\ text[word] \in Words
  <2>1. word \in p .. End /\ stop = Find(word, Blanks)
    BY <1>3, SkipWordIs
  <2>2. /\ \A k \in p .. word - 1 : k \in 1 .. Len(text) /\ text[k] \notin Words
        /\ word < End => text[word] \in Words
    BY <1>3, FindIs
  <2> HIDE DEF e, word, stop
  <2>3. word < End
    BY <1>1, <1>2, <1>3, <2>1 DEF e, word
  <2>4. word < e
    BY DEF word, e
  <2> QED
    BY <2>1, <2>2, <2>3, <2>4
<1>5. word \in Nat /\ word \in 1 .. End /\ p <= word
  BY <1>1, <1>3, <1>4
<1>6. /\ stop \in word .. End
      /\ \A k \in word .. stop - 1 : k \in 1 .. Len(text) /\ text[k] \notin Blanks
      /\ stop < End => text[stop] \in Blanks
      /\ \A k \in word .. Len(text) : text[k] \in Blanks => stop <= k
  BY <1>4, <1>5, FindIs
<1>7. stop <= e /\ stop \in Nat /\ text[stop] \in Blanks /\ word < stop
  <2> HIDE DEF e, word, stop
  <2>0. word \in Nat /\ e \in Nat /\ Len(text) \in Nat /\ word < e /\ e <= Len(text)
    BY <1>1, <1>2, <1>4, <1>5
  <2>a. e \in word .. Len(text)
    BY <2>0
  <2>1. e \in word .. Len(text) /\ text[e] \in Blanks
    BY <1>2, <2>a DEF Blanks
  <2>2. stop <= e /\ stop \in Nat /\ text[stop] \in Blanks
    BY <1>1, <1>2, <1>5, <1>6, <2>1
  <2>3. stop # word
    BY <1>4, <2>2 DEF Words
  <2> QED
    BY <1>5, <1>6, <2>2, <2>3
<1>8. F \in SUBSET Nat /\ IsFiniteSet(F)
  BY <1>1, FieldsFinite
<1>9. \A x \in F : /\ x \in s .. e - 1 /\ text[x] # " "
                   /\ x = s \/ text[x - 1] = " "
  BY DEF Fields
<1>10. \A x \in s .. e - 1 : /\ x \in 1 .. Len(text) /\ text[x] \in Chars
                             /\ text[x] # " " /\ (x = s \/ text[x - 1] = " ") => x \in F
  <2>1. \A x \in s .. e - 1 : text[x] # " " /\ (x = s \/ text[x - 1] = " ") => x \in F
    BY DEF Fields
  <2> HIDE DEF e
  <2>2. \A x \in s .. e - 1 : x \in 1 .. Len(text)
    BY <1>1, <1>2
  <2> QED
    BY <2>1, <2>2, TextIs
<1> HIDE DEF e, word, stop, F
<1>11. \A k \in p .. word - 1 : text[k] = " "
  <2> TAKE k \in p .. word - 1
  <2>1. k \in s .. e - 1 /\ k \in p .. word - 1
    BY <1>1, <1>2, <1>3, <1>4, <1>5
  <2>2. text[k] \in Chars /\ text[k] \notin Words /\ text[k] # "nl"
    BY <1>2, <1>4, <1>10, <2>1
  <2> QED
    BY <2>2 DEF Words, Blanks
<1>12. word \in F
  <2>0. text[word] # " "
    BY <1>4 DEF Words, Blanks
  <2>a. s \in Nat /\ p \in Nat /\ word \in Nat /\ e \in Nat
    BY <1>1, <1>2, <1>3, <1>5
  <2>b. s <= p /\ p <= word /\ word < e
    BY <1>3, <1>4, <1>5
  <2>1. word \in s .. e - 1
    BY <2>a, <2>b
  <2>2. CASE word = p
    <3>1. text[p] \notin Blanks
      BY <1>4, <2>2 DEF Words
    <3> QED
      BY <1>10, <2>0, <2>1, <2>2, <3>1
  <2>3. CASE word # p
    <3>1. word - 1 \in p .. word - 1
      BY <1>3, <1>5, <2>3
    <3> QED
      BY <1>10, <1>11, <2>0, <2>1, <3>1
  <2> QED
    BY <2>2, <2>3
<1>13. \A x \in F : ~(p <= x /\ x < word)
  <2> SUFFICES ASSUME NEW x \in F, p <= x, x < word PROVE FALSE
    OBVIOUS
  <2>1. x \in Nat /\ x \in p .. word - 1
    BY <1>3, <1>5, <1>8
  <2> QED
    BY <1>9, <1>11, <2>1
<1>14. Rank(p, F) = Rank(word, F)
  BY <1>3, <1>5, <1>8, <1>13, RankSame
<1>15. \A x \in F : word <= x /\ x < stop => x = word
  <2> SUFFICES ASSUME NEW x \in F, word <= x, x < stop, x # word PROVE FALSE
    OBVIOUS
  <2>1. x \in Nat /\ x - 1 \in word .. stop - 1 /\ x # s
    BY <1>1, <1>3, <1>5, <1>7, <1>8
  <2>2. text[x - 1] = " " /\ text[x - 1] \notin Blanks
    BY <1>6, <1>9, <2>1
  <2> QED
    BY <2>2 DEF Blanks
<1>16. Rank(stop, F) = Rank(word, F) + 1
  BY <1>5, <1>7, <1>8, <1>12, <1>15, RankOne
<1>17. stop \in p .. e
  BY <1>2, <1>3, <1>5, <1>7
<1> QED
  BY <1>7, <1>12, <1>14, <1>16, <1>17 DEF e, word, stop, F

\* Column n is looked for at the beginning of the line or at the end of field
\* n - 1, as long as the walk stays in the line.
AtColumn(s, p, n) ==
    /\ p \in s .. Find(s, {"nl"}) /\ (p = s \/ text[p] \in Blanks)
    /\ Rank(p, Fields(s, {" "})) = n - 1

\* A line's first column is looked for at its beginning.
LEMMA FirstColumn ==
    ASSUME text \in Texts, NEW s \in Records
    PROVE  AtColumn(s, s, 1)
<1> DEFINE F == Fields(s, {" "})
           e == Find(s, {"nl"})
<1>1. s \in 1 .. Len(text) /\ s \in Starts /\ text[s] # "#" /\ e < End /\ s \in Nat
      /\ s \in 1 .. End /\ End \in Nat
  BY RecordsFinite, TextIs
<1>2. F \in SUBSET Nat /\ IsFiniteSet(F)
  BY <1>1, FieldsFinite
<1>3. e \in s .. End
  BY <1>1, FindIs
<1>4. \A x \in F : x >= s
  <2>1. F \subseteq s .. e - 1
    BY DEF Fields
  <2> HIDE DEF F, e
  <2> QED
    BY <1>1, <1>2, <1>3, <2>1
<1> HIDE DEF F
<1>5. Rank(s, F) = 0
  BY <1>1, <1>2, <1>4, RankIs
<1>6. s \in s .. e
  BY <1>1, <1>3
<1>7. 1 - 1 = 0
  OBVIOUS
<1> QED
  BY <1>5, <1>6, <1>7, Zenon DEF AtColumn, F

\* From one column to the next in a line.
LEMMA NextColumn ==
    ASSUME text \in Texts, NEW s \in Records, NEW p, NEW n \in Nat \ {0},
           AtColumn(s, p, n), Find(p, Words) < Find(s, {"nl"})
    PROVE  AtColumn(s, SkipWord(p), n + 1)
<1> DEFINE F == Fields(s, {" "})
           e == Find(s, {"nl"})
<1>1. p \in s .. e /\ (p = s \/ text[p] \in Blanks) /\ Rank(p, F) = n - 1
  BY DEF AtColumn
<1>2. /\ SkipWord(p) \in p .. e /\ text[SkipWord(p)] \in Blanks
      /\ Rank(SkipWord(p), F) = Rank(p, F) + 1
  BY <1>1, NextField
<1>3. s \in Nat /\ e \in Nat
  <2>1. s \in 1 .. Len(text) /\ s \in Nat /\ s \in 1 .. End
    BY RecordsFinite, TextIs
  <2>2. e \in s .. End
    BY <2>1, FindIs
  <2> QED
    BY <2>1, <2>2, TextIs
<1> HIDE DEF F, e
<1>4. SkipWord(p) \in s .. e
  BY <1>1, <1>2, <1>3
<1>5. Rank(SkipWord(p), F) = (n + 1) - 1
  BY <1>1, <1>2
<1> QED
  BY <1>2, <1>4, <1>5, Zenon DEF AtColumn, F, e

\* If what is found is in the line where the walk began, it is the column that
\* was looked for: the walk has never left the line.
LEMMA StaysInLine ==
    ASSUME text \in Texts, column \in Nat \ {0}, NEW s \in Records,
           NEW f, Walk(f), f[1] = s, Find(f[column], Words) < Find(s, {"nl"})
    PROVE  IsField(Find(f[column], Words), s, column, {" "})
<1> DEFINE e == Find(s, {"nl"})
           j == Find(f[column], Words)
           A == {m \in Nat : m + 1 <= column => AtColumn(s, f[m + 1], m + 1)}
<1>1. \A k \in 1 .. column : f[k] \in 1 .. End /\ f[k] \in Nat
  BY TextIs DEF Walk
<1>2. /\ s \in 1 .. Len(text) /\ s \in Nat /\ s \in 1 .. End /\ End \in Nat
      /\ e < End /\ End = Len(text) + 1 /\ Len(text) \in Nat
  BY RecordsFinite, TextIs
<1>3. e \in s .. End /\ e \in Nat
  BY <1>2, FindIs
<1>4. column \in 1 .. column
  OBVIOUS
<1>5. j \in f[column] .. End /\ (j < End => text[j] \in Words)
  BY <1>1, <1>4, FindIs
<1>6. j < e
  OBVIOUS
<1> HIDE DEF e, j
<1>7. j \in Nat /\ j \in 1 .. Len(text) /\ text[j] \in Words /\ f[column] <= j
  BY <1>1, <1>2, <1>3, <1>4, <1>5, <1>6
<1>8. 0 \in A
  BY FirstColumn
<1>9. ASSUME NEW m \in Nat, m \in A PROVE m + 1 \in A
  <2> DEFINE k == m + 1
  <2> SUFFICES ASSUME k + 1 <= column PROVE AtColumn(s, f[k + 1], k + 1)
    OBVIOUS
  <2>1. k \in Nat \ {0} /\ k \in 1 .. column /\ k \in 1 .. column - 1 /\ k <= column
    OBVIOUS
  <2>2. AtColumn(s, f[k], k)
    BY <1>9, <2>1
  <2> HIDE DEF k
  <2>3. f[k] <= f[column] /\ f[k] \in 1 .. End /\ f[k] \in Nat
    BY <1>1, <2>1, WalkForward
  <2>4. j \in f[k] .. Len(text)
    BY <1>1, <1>4, <1>7, <2>3, <1>2
  <2>5. Find(f[k], Words) <= j /\ Find(f[k], Words) \in f[k] .. End
    BY <1>7, <2>3, <2>4, FindIs
  <2>6. Find(f[k], Words) < e
    BY <1>2, <1>3, <1>6, <1>7, <2>3, <2>5
  <2>7. AtColumn(s, SkipWord(f[k]), k + 1)
    BY <2>1, <2>2, <2>6, NextColumn DEF e
  <2> QED
    BY <2>1, <2>7 DEF Walk
<1>10. Nat \subseteq A
  BY <1>8, <1>9, InductionSet
<1>11. AtColumn(s, f[column], column)
  <2>1. column - 1 \in Nat /\ (column - 1) + 1 = column /\ column <= column
    OBVIOUS
  <2> QED
    BY <1>10, <2>1
<1>12. j \in Fields(s, {" "}) /\ Rank(j, Fields(s, {" "})) = column - 1
  BY <1>6, <1>11, NextField DEF AtColumn, j, e
<1> QED
  BY <1>12 DEF IsField, j

\* A line that has the column looked for: it is found.
LEMMA ReachesField ==
    ASSUME text \in Texts, column \in Nat \ {0}, NEW s \in Records,
           NEW f, Walk(f), f[1] = s,
           NEW j \in FieldsOf(s), Rank(j, FieldsOf(s)) = column - 1,
           text[j] \in Words
    PROVE  Find(f[column], Words) = j
<1> DEFINE e == Find(s, {"nl"})
           F == FieldsOf(s)
           A == {m \in Nat : m + 1 <= column =>
                                 AtColumn(s, f[m + 1], m + 1) /\ f[m + 1] <= j}
<1>1. \A k \in 1 .. column : f[k] \in 1 .. End /\ f[k] \in Nat
  BY TextIs DEF Walk
<1>2. /\ s \in 1 .. Len(text) /\ s \in Nat /\ s \in 1 .. End /\ End \in Nat
      /\ e < End /\ End = Len(text) + 1 /\ Len(text) \in Nat
  BY RecordsFinite, TextIs
<1>3. e \in s .. End /\ e \in Nat
  BY <1>2, FindIs
<1>4. column \in 1 .. column
  OBVIOUS
<1>5. j \in F /\ Rank(j, F) = column - 1 /\ j \in s .. e - 1
  BY DEF FieldsOf, Fields
<1>5a. j = s \/ text[j - 1] \in Blanks
  BY DEF FieldsOf, Fields, Blanks
<1>6. F \in SUBSET Nat /\ IsFiniteSet(F)
  BY <1>2, FieldsFinite DEF FieldsOf
<1> HIDE DEF e, F
<1>7. j \in Nat /\ j < e /\ s <= j /\ j <= Len(text)
  BY <1>2, <1>3, <1>5
<1>8. text[j] \in Words
  OBVIOUS
<1>9. ASSUME NEW k \in 1 .. column, AtColumn(s, f[k], k), f[k] <= j
      PROVE  /\ Find(f[k], Words) <= j /\ Find(f[k], Words) < e
             /\ Find(f[k], Words) \in Nat /\ Find(f[k], Words) \in F
             /\ Rank(Find(f[k], Words), F) = k - 1 /\ s <= Find(f[k], Words)
  <2>1. f[k] \in 1 .. End /\ f[k] \in Nat
    BY <1>1
  <2>2. j \in f[k] .. Len(text)
    BY <1>2, <1>7, <1>9, <2>1
  <2>3. Find(f[k], Words) <= j /\ Find(f[k], Words) \in f[k] .. End
    BY <1>8, <2>1, <2>2, FindIs
  <2>4. Find(f[k], Words) \in Nat /\ Find(f[k], Words) < e
    BY <1>2, <1>3, <1>7, <2>1, <2>3
  <2>5. f[k] \in s .. e
    BY <1>9 DEF AtColumn, e
  <2>6. s <= Find(f[k], Words)
    BY <1>2, <1>3, <2>1, <2>3, <2>4, <2>5
  <2>7. Find(f[k], Words) \in F /\ Rank(Find(f[k], Words), F) = k - 1
    BY <1>9, <2>4, NextField DEF AtColumn, e, F, FieldsOf
  <2> QED
    BY <2>3, <2>4, <2>6, <2>7
<1>10. 0 \in A
  BY <1>7, FirstColumn
<1>11. ASSUME NEW m \in Nat, m \in A PROVE m + 1 \in A
  <2> DEFINE k == m + 1
             word == Find(f[k], Words)
  <2> SUFFICES ASSUME k + 1 <= column
               PROVE  AtColumn(s, f[k + 1], k + 1) /\ f[k + 1] <= j
    OBVIOUS
  <2>1. k \in Nat \ {0} /\ k \in 1 .. column /\ k \in 1 .. column - 1 /\ k <= column
        /\ k # column
    OBVIOUS
  <2>2. AtColumn(s, f[k], k) /\ f[k] <= j
    BY <1>11, <2>1
  <2> HIDE DEF k
  <2>3. /\ word <= j /\ word < e /\ word \in Nat
        /\ Rank(word, F) = k - 1 /\ s <= word
    BY <1>9, <2>1, <2>2
  <2>4. SkipWord(f[k]) = Find(word, Blanks) /\ word \in 1 .. End
    <3>1. f[k] \in 1 .. End
      BY <1>1, <2>1
    <3>2. word \in f[k] .. End
      BY <3>1, SkipWordIs
    <3>3. word \in 1 .. End
      BY <1>2, <3>1, <3>2
    <3>4. SkipWord(f[k]) = Find(word, Blanks)
      BY <3>1, SkipWordIs
    <3> QED
      BY <3>3, <3>4
  <2>5. f[k + 1] = SkipWord(f[k])
    BY <2>1 DEF Walk
  <2>6. AtColumn(s, SkipWord(f[k]), k + 1)
    BY <2>1, <2>2, <2>3, NextColumn DEF e
  <2> HIDE DEF word
  <2>7. word # j
    BY <1>5, <2>1, <2>3
  <2>8. j - 1 \in word .. Len(text) /\ j # s
    BY <1>2, <1>7, <2>3, <2>7
  <2>9. text[j - 1] \in Blanks
    BY <1>5a, <2>8
  <2>10. Find(word, Blanks) <= j - 1 /\ Find(word, Blanks) \in word .. End
    BY <2>4, <2>8, <2>9, FindIs
  <2>11. Find(word, Blanks) <= j
    BY <1>2, <1>7, <2>3, <2>10
  <2> QED
    BY <2>4, <2>5, <2>6, <2>11
<1>12. Nat \subseteq A
  BY <1>10, <1>11, InductionSet
<1>13. AtColumn(s, f[column], column) /\ f[column] <= j
  <2>1. column - 1 \in Nat /\ (column - 1) + 1 = column /\ column <= column
    OBVIOUS
  <2> QED
    BY <1>12, <2>1
<1> DEFINE w == Find(f[column], Words)
<1>14. w <= j /\ w \in Nat /\ w \in F /\ Rank(w, F) = column - 1
  BY <1>4, <1>9, <1>13
<1> HIDE DEF w
<1>15. ASSUME w < j PROVE FALSE
  <2>1. Rank(j, F) >= Rank(w, F) + 1
    BY <1>6, <1>7, <1>14, <1>15, RankOne
  <2> QED
    BY <1>5, <1>14, <2>1
<1>16. w = j
  BY <1>7, <1>14, <1>15
<1> QED
  BY <1>16 DEF w
-------------------------------------------------------------------------------
(* The invariant of get_exec_times() *)

\* A file in which the second pass cannot take a comment for a record, even if
\* it runs on into other lines.
Plain == Complete /\ (column > 1 => \A k \in DOMAIN text : text[k] # "#")

\* The times read so far are those of the first records.
TimesRead ==
    \A n \in DOMAIN times : \E s \in Records :
        Rank(s, Records) = n - 1 /\ IsField(times[n], s, column, {" "})

\* Both passes stop at beginnings of lines only; the first counts the records
\* that it has passed.
PassInv ==
    /\ text \in Texts /\ column \in Columns /\ pos \in Starts \cup {End}
    /\ eof \in BOOLEAN /\ num_jobs \in Nat /\ times \in Seq(Nat)
    /\ state \in {"open", "count"} => times = <<>>
    /\ state = "open" => pos = 1 /\ num_jobs = 0 /\ eof = FALSE
    /\ state = "count" => num_jobs = Rank(pos, Records)
    /\ state \in {"read", "invalid", "returned", "aborted"} =>
           num_jobs = Cardinality(Records)
    /\ state = "read" => Len(times) <= num_jobs
    /\ state = "returned" => Len(times) = num_jobs

\* What GoodFilesAccepted assumes of a file.
GoodFile == WellFormed({" "})

\* In a file as RecordsRead assumes it, the second pass takes at least a record
\* for each time, and if it has not taken more, the times are right.
StepInv ==
    (Plain \/ GoodFile) /\ state \in {"read", "returned"} =>
        /\ Len(times) <= Rank(pos, Records)
        /\ Len(times) = Rank(pos, Records) => TimesRead

\* In a well-formed file it takes one record for each time.
GoodInv ==
    GoodFile =>
        /\ state \notin {"invalid", "aborted"}
        /\ state = "read" => eof = FALSE /\ Len(times) = Rank(pos, Records)

FileInv == PassInv /\ StepInv /\ GoodInv

\* The text and the column stay, and with them what a record is.
LEMMA TextSame ==
    ASSUME text' = text, column' = column
    PROVE  /\ Records' = Records /\ End' = End /\ Starts' = Starts
           /\ Plain' <=> Plain
           /\ GoodFile' <=> GoodFile
           /\ \A j, s : IsField(j, s, column, {" "})' <=> IsField(j, s, column, {" "})
<1>1. End' = End /\ Starts' = Starts /\ (Complete' <=> Complete) /\ (Plain' <=> Plain)
  BY DEF End, Starts, Complete, Plain
<1>2. \A j, S : Find(j, S)' = Find(j, S)
  BY <1>1 DEF Find
<1>3. Records' = Records
  BY <1>1, <1>2 DEF Records
<1>4. \A s, S : Fields(s, S)' = Fields(s, S)
  BY <1>2 DEF Fields
<1>5. \A j, s, S : IsField(j, s, column, S)' <=> IsField(j, s, column, S)
  BY <1>4 DEF IsField
<1>6. GoodFile' <=> GoodFile
  BY <1>1, <1>3, <1>5 DEF GoodFile, WellFormed
<1> QED
  BY <1>1, <1>3, <1>5, <1>6

\* A turn of the first loop that finds a newline passes one record.
LEMMA FirstRecord ==
    ASSUME text \in Texts, NEW p \in Starts \cup {End}, ~AtEof(skip_comments(p))
    PROVE  /\ skip_comments(p) \in Records
           /\ Rank(skip_comments(p), Records) = Rank(p, Records)
           /\ Rank(skip_to_next_line(skip_comments(p)), Records) = Rank(p, Records) + 1
<1> DEFINE s == skip_comments(p)
           e == Find(s, {"nl"})
<1>1. /\ p \in 1 .. End /\ p \in Nat /\ End \in Nat
      /\ Records \in SUBSET Nat /\ IsFiniteSet(Records)
  BY StartsAre, TextIs, RecordsFinite
<1>2. /\ s \in p .. End /\ s \in Starts \cup {End} /\ (s < End => text[s] # "#")
      /\ \A q \in Starts : p <= q /\ q < s => text[q] = "#"
  BY SkipCommentsIs
<1>3. s \in Nat /\ s \in 1 .. End /\ p <= s
  BY <1>1, <1>2
<1>4. ~AtEof(s)
  OBVIOUS
<1> HIDE DEF s
<1>5. e \in s .. End /\ e # End
  BY <1>3, <1>4, FindIs DEF AtEof
<1>6. e \in Nat /\ e < End /\ s < End /\ s <= e
  BY <1>1, <1>3, <1>5
<1>7. s \in Starts
  BY <1>2, <1>6
<1>8. s \in Records
  BY <1>2, <1>6, <1>7 DEF Records
<1>9. \A x \in Records : ~(p <= x /\ x < s)
  BY <1>2 DEF Records
<1>10. Rank(p, Records) = Rank(s, Records)
  BY <1>1, <1>3, <1>9, RankSame
<1>11. skip_to_next_line(s) = e + 1
  BY <1>3, <1>4, NextLineIs
<1>12. ASSUME NEW x \in Records, s <= x, x < e + 1 PROVE x = s
  <2>1. x \in Starts /\ x \in Nat
    BY <1>1, RecordsFinite
  <2> SUFFICES ASSUME s < x PROVE FALSE
    BY <1>3, <1>12, <2>1
  <2>2. e < x
    BY <1>3, <2>1, StartsApart
  <2> QED
    BY <1>6, <1>12, <2>1, <2>2
<1> HIDE DEF e
<1>13. e + 1 \in Nat /\ s <= s /\ s < e + 1
  BY <1>3, <1>6
<1>14. \A x \in Records : s <= x /\ x < e + 1 => x = s
  BY <1>12
<1>15. Rank(e + 1, Records) = Rank(s, Records) + 1
  BY <1>1, <1>3, <1>8, <1>13, <1>14, RankOne
<1> QED
  BY <1>8, <1>10, <1>11, <1>15 DEF s

\* The turn that finds the end of the file leaves no record.
LEMMA NoRecordsLeft ==
    ASSUME text \in Texts, NEW p \in Starts \cup {End}, AtEof(skip_comments(p))
    PROVE  Rank(p, Records) = Cardinality(Records)
<1> DEFINE s == skip_comments(p)
<1>1. /\ p \in 1 .. End /\ p \in Nat /\ End \in Nat /\ End = Len(text) + 1
      /\ Len(text) \in Nat /\ Records \in SUBSET Nat /\ IsFiniteSet(Records)
  BY StartsAre, TextIs, RecordsFinite
<1>2. /\ s \in p .. End
      /\ \A q \in Starts : p <= q /\ q < s => text[q] = "#"
  BY SkipCommentsIs
<1>3. s \in Nat /\ s \in 1 .. End
  BY <1>1, <1>2
<1>4. Find(s, {"nl"}) = End
  BY DEF AtEof
<1> HIDE DEF s
<1>5. ASSUME NEW x \in Records, ~(x < p) PROVE FALSE
  <2> DEFINE e == Find(x, {"nl"})
  <2>1. x \in Nat /\ x \in 1 .. Len(text) /\ x \in Starts /\ e < End
    BY <1>1, RecordsFinite
  <2>2. text[x] # "#"
    BY RecordsFinite
  <2>3. x \in 1 .. End /\ p <= x
    BY <1>1, <1>5, <2>1
  <2>4. ~(x < s)
    BY <1>2, <2>1, <2>2, <2>3
  <2>5. e \in x .. End /\ text[e] \in {"nl"}
    BY <2>1, <2>3, FindIs
  <2> HIDE DEF e
  <2>6. e \in Nat /\ e \in s .. Len(text)
    BY <1>1, <1>3, <2>1, <2>4, <2>5
  <2>7. Find(s, {"nl"}) <= e
    BY <1>3, <2>5, <2>6, FindIs
  <2> QED
    BY <1>1, <1>4, <2>1, <2>6, <2>7
<1>6. \A x \in Records : x < p
  BY <1>5
<1> QED
  BY <1>1, <1>6, RankIs

\* In a complete file every character has a newline after it, or is one.
LEMMA CompleteLine ==
    ASSUME text \in Texts, Complete, NEW p \in 1 .. Len(text)
    PROVE  Find(p, {"nl"}) < End /\ ~AtEof(p)
<1>1. /\ Len(text) \in Nat /\ p \in Nat /\ End = Len(text) + 1 /\ p \in 1 .. End
      /\ Len(text) \in p .. Len(text)
  BY TextIs
<1>2. text[Len(text)] \in {"nl"}
  <2>1. text # <<>>
    BY <1>1
  <2> QED
    BY <2>1 DEF Complete
<1>3. Find(p, {"nl"}) <= Len(text) /\ Find(p, {"nl"}) \in p .. End
  BY <1>1, <1>2, FindIs
<1>4. Find(p, {"nl"}) < End
  BY <1>1, <1>3
<1>5. Find(p, {"nl"}) # End
  BY <1>1, <1>3
<1> QED
  BY <1>4, <1>5 DEF AtEof

\* In a file without comments, or when the first column is wanted, a word that
\* is found, unless it begins a comment, is in a record of the lines ahead.
LEMMA LineOfNumber ==
    ASSUME text \in Texts, column \in Nat \ {0}, pos \in Starts \cup {End}, Plain,
           NEW f, Walk(f), Find(f[column], Words) < End,
           text[Find(f[column], Words)] # "#"
    PROVE  \E r \in Records :
               /\ pos <= r /\ r <= Find(f[column], Words)
               /\ \A k \in r .. Find(f[column], Words) - 1 : text[k] # "nl"
<1> DEFINE j == Find(f[column], Words)
           s == skip_comments(pos)
<1>1. /\ pos \in 1 .. End /\ pos \in Nat /\ End \in Nat /\ End = Len(text) + 1
      /\ Len(text) \in Nat /\ DOMAIN text = 1 .. Len(text)
  BY StartsAre, TextIs
<1>2. /\ s \in pos .. End /\ s \in Starts \cup {End} /\ (s < End => text[s] # "#")
  BY SkipCommentsIs
<1>3. 1 \in 1 .. column /\ column \in 1 .. column
  OBVIOUS
<1>4. f[1] = s /\ f[column] \in 1 .. End
  BY <1>3 DEF Walk
<1>5. f[1] <= f[column]
  BY <1>3, WalkForward
<1>6. /\ j \in f[column] .. End
      /\ \A k \in f[column] .. j - 1 : text[k] \notin Words
  BY <1>4, FindIs
<1>7. j < End
  OBVIOUS
<1>7a. text[j] # "#"
  OBVIOUS
<1> HIDE DEF j, s
<1>8. /\ j \in Nat /\ j \in 1 .. Len(text) /\ s \in Nat /\ pos <= s /\ s <= j
      /\ f[column] \in Nat /\ s <= f[column] /\ s \in 1 .. End
  BY <1>1, <1>2, <1>4, <1>5, <1>6, <1>7
<1>9. PICK r \in Starts : r <= j /\ r \in 1 .. Len(text) /\ \A k \in r .. j - 1 : text[k] # "nl"
  BY <1>8, LineOf
<1>10. r \in Nat /\ r < End
  BY <1>1, <1>9
<1>11. s \in Starts
  BY <1>1, <1>2, <1>7, <1>8
<1>12. s <= r
  <2> SUFFICES ASSUME r < s PROVE FALSE
    BY <1>8, <1>10
  <2>1. s - 1 \in 1 .. Len(text) /\ text[s - 1] = "nl"
    BY <1>9, <1>10, <1>11, StartsAre
  <2>2. s - 1 \in r .. j - 1
    BY <1>8, <1>10
  <2> QED
    BY <1>9, <2>1, <2>2
<1>13. text[r] # "#"
  <2>1. CASE column > 1
    BY <1>1, <1>9, <2>1 DEF Plain
  <2>2. CASE column = 1
    <3>1. CASE r = s
      BY <1>2, <1>10, <3>1
    <3>2. CASE r # s
      <4>1. f[column] = s
        BY <1>4, <2>2
      <4>2. r = j \/ r \in s .. j - 1
        BY <1>8, <1>9, <1>10, <1>12
      <4>3. CASE r \in s .. j - 1
        <5>1. text[r] \notin Words
          BY <1>6, <4>1, <4>3
        <5> QED
          BY <5>1 DEF Words, Chars, Blanks
      <4>4. CASE r = j
        BY <1>7a, <4>4
      <4> QED
        BY <4>2, <4>3, <4>4
    <3> QED
      BY <3>1, <3>2
  <2> QED
    BY <2>1, <2>2
<1>14. Complete
  BY DEF Plain
<1>15. Find(r, {"nl"}) < End
  BY <1>9, <1>14, CompleteLine
<1>16. r \in Records
  BY <1>9, <1>10, <1>13, <1>15 DEF Records
<1>17. pos <= r
  BY <1>1, <1>8, <1>10, <1>12
<1> QED
  BY <1>9, <1>16, <1>17 DEF j

\* fscanf("%lf") stops at or after the number's first digit.
LEMMA NumberIs ==
    ASSUME text \in Texts, NEW p \in 1 .. End, IsNumber(p)
    PROVE  /\ NumberAt(p) = Find(p, Words) /\ NumberAt(p) \in 1 .. Len(text)
           /\ NumberAt(p) \in Nat /\ text[NumberAt(p)] = "d"
           /\ NumberEnd(p) \in NumberAt(p) .. End
           /\ NumberEnd(p) \in 1 .. End /\ NumberEnd(p) \in Nat
<1> DEFINE j == NumberAt(p)
           n == NumberEnd(p)
<1>1. j = Find(p, Words)
  BY DEF NumberAt, Words
<1>2. j < End /\ text[j] = "d"
  BY DEF IsNumber
<1>3. j \in p .. End
  BY <1>1, FindIs
<1>4. n = Find(j, Chars \ {"d"})
  BY DEF NumberEnd
<1> HIDE DEF j, n
<1>5. j \in Nat /\ j \in 1 .. Len(text) /\ j \in 1 .. End
  BY <1>2, <1>3, TextIs
<1>6. n \in j .. End
  BY <1>4, <1>5, FindIs
<1>7. n \in 1 .. End /\ n \in Nat
  BY <1>5, <1>6, TextIs
<1> QED
  BY <1>1, <1>2, <1>5, <1>6, <1>7 DEF j, n

\* A turn of the second loop takes a record at least; if it takes only one, the
\* time is that record's.
LEMMA ReadsRecord ==
    ASSUME text \in Texts, column \in Nat \ {0}, pos \in Starts \cup {End}, Plain,
           IsNumber(ColumnAt),
           NEW q, q = skip_to_next_line(NumberEnd(ColumnAt))
    PROVE  /\ Rank(q, Records) >= Rank(pos, Records) + 1
           /\ Rank(q, Records) = Rank(pos, Records) + 1 =>
                  \E s \in Records : Rank(s, Records) = Rank(pos, Records)
                                     /\ IsField(NumberAt(ColumnAt), s, column, {" "})
<1> DEFINE c == ColumnAt
           j == NumberAt(c)
           s == skip_comments(pos)
<1>1. PICK f : Walk(f) /\ ColumnAt = f[column]
  BY WalkExists
<1>2. 1 \in 1 .. column /\ column \in 1 .. column
  OBVIOUS
<1>3. c \in 1 .. End /\ f[1] = s
  BY <1>1, <1>2 DEF Walk
<1>4. /\ j = Find(c, Words) /\ j \in 1 .. Len(text) /\ j \in Nat /\ text[j] = "d"
      /\ NumberEnd(c) \in j .. End /\ NumberEnd(c) \in 1 .. End /\ NumberEnd(c) \in Nat
  BY <1>3, NumberIs
<1>5. /\ pos \in 1 .. End /\ pos \in Nat /\ End \in Nat /\ End = Len(text) + 1
      /\ Len(text) \in Nat /\ Records \in SUBSET Nat /\ IsFiniteSet(Records)
  BY StartsAre, TextIs, RecordsFinite
<1>6. j < End /\ text[j] # "#" /\ c = f[column]
  BY <1>1, <1>4, <1>5
<1>7. q \in NumberEnd(c) .. End /\ (~AtEof(NumberEnd(c)) => q = Find(NumberEnd(c), {"nl"}) + 1)
      /\ (AtEof(NumberEnd(c)) => q = End)
  BY <1>4, NextLineIs
<1>8. Find(NumberEnd(c), {"nl"}) \in NumberEnd(c) .. End
  BY <1>4, FindIs
<1> HIDE DEF c, j, s
<1>9. q \in Nat /\ j < q
  <2>1. CASE AtEof(NumberEnd(c))
    BY <1>4, <1>5, <1>6, <1>7, <2>1
  <2>2. CASE ~AtEof(NumberEnd(c))
    BY <1>4, <1>5, <1>7, <1>8, <2>2
  <2> QED
    BY <2>1, <2>2
<1>10. PICK r \in Records : /\ pos <= r /\ r <= j
                            /\ \A k \in r .. j - 1 : text[k] # "nl"
  BY <1>1, <1>4, <1>6, LineOfNumber
<1>11. r \in Nat /\ r < q
  BY <1>4, <1>5, <1>9, <1>10
<1>12. Rank(q, Records) >= Rank(pos, Records) + 1
  BY <1>5, <1>9, <1>10, <1>11, RankOne
<1>13. ASSUME Rank(q, Records) = Rank(pos, Records) + 1
       PROVE  /\ s \in Records /\ Rank(s, Records) = Rank(pos, Records)
              /\ IsField(j, s, column, {" "})
  <2>1. \A x \in Records : pos <= x /\ x < q => x = r
    BY <1>5, <1>9, <1>10, <1>11, <1>13, RankOne
  <2>2. s \in pos .. End /\ f[1] <= f[column] /\ f[column] \in 1 .. End
    BY <1>1, <1>2, SkipCommentsIs, WalkForward DEF s, Walk
  <2>3. j \in f[column] .. End
    BY <1>4, <1>6, <2>2, FindIs
  <2>4. s \in 1 .. Len(text) /\ s \in Nat /\ s < q /\ pos <= s
    BY <1>3, <1>4, <1>5, <1>9, <2>2, <2>3
  <2>5. ~AtEof(s)
    BY <2>4, CompleteLine DEF Plain
  <2>6. s \in Records /\ Rank(s, Records) = Rank(pos, Records)
    BY <2>5, FirstRecord DEF s
  <2>7. s = r
    BY <2>1, <2>4, <2>6
  <2>8. j < Find(s, {"nl"})
    <3> DEFINE e == Find(s, {"nl"})
    <3>1. s \in 1 .. End
      BY <1>5, <2>4
    <3>2. e \in s .. End /\ e < End /\ text[e] \in {"nl"}
      BY <2>6, <3>1, FindIs, RecordsFinite
    <3>3. text[e] = "nl"
      BY <3>2
    <3> HIDE DEF e
    <3>4. e # j
      BY <1>4, <3>3
    <3>5. ~(e \in s .. j - 1)
      BY <1>10, <2>7, <3>3
    <3>6. e \in Nat
      BY <1>5, <3>1, <3>2
    <3>7. j < e
      BY <1>4, <2>4, <3>2, <3>4, <3>5, <3>6
    <3> QED
      BY <3>7 DEF e
  <2>9. Find(f[column], Words) < Find(s, {"nl"})
    BY <1>4, <1>6, <2>8
  <2>10. IsField(Find(f[column], Words), s, column, {" "})
    BY <1>1, <1>3, <2>6, <2>9, StaysInLine
  <2> QED
    BY <1>4, <1>6, <2>6, <2>10
<1> QED
  BY <1>12, <1>13 DEF j, c

\* In a well-formed file, while records are left, a turn of the second loop
\* finds a number and takes exactly one record.
LEMMA ReadsGood ==
    ASSUME text \in Texts, column \in Nat \ {0}, pos \in Starts \cup {End},
           GoodFile, Rank(pos, Records) # Cardinality(Records)
    PROVE  /\ IsNumber(ColumnAt) /\ ~AtEof(NumberEnd(ColumnAt))
           /\ Rank(skip_to_next_line(NumberEnd(ColumnAt)), Records)
                = Rank(pos, Records) + 1
           /\ \E s \in Records : Rank(s, Records) = Rank(pos, Records)
                                 /\ IsField(NumberAt(ColumnAt), s, column, {" "})
<1> DEFINE s == skip_comments(pos)
           e == Find(s, {"nl"})
<1>1. PICK f : Walk(f) /\ ColumnAt = f[column]
  BY WalkExists
<1>2. 1 \in 1 .. column /\ column \in 1 .. column
  OBVIOUS
<1>3. ColumnAt \in 1 .. End /\ f[1] = s
  BY <1>1, <1>2 DEF Walk
<1>4. ~AtEof(s)
  BY NoRecordsLeft
<1>5. /\ s \in Records /\ Rank(s, Records) = Rank(pos, Records)
      /\ Rank(skip_to_next_line(s), Records) = Rank(pos, Records) + 1
  BY <1>4, FirstRecord
<1> HIDE DEF s
<1>6. PICK j \in DOMAIN text : /\ j \in FieldsOf(s) /\ Rank(j, FieldsOf(s)) = column - 1
                               /\ text[j] = "d"
  BY <1>5 DEF GoodFile, WellFormed, IsField, FieldsOf
<1>7. j \in FieldsOf(s) /\ Rank(j, FieldsOf(s)) = column - 1
  BY <1>6
<1>8. text[j] \in Words
  BY <1>6 DEF Words, Chars, Blanks
<1>9. Find(f[column], Words) = j
  BY <1>1, <1>3, <1>5, <1>7, <1>8, ReachesField
<1>10. NumberAt(ColumnAt) = j
  BY <1>1, <1>9 DEF NumberAt, Words
<1>11. j \in 1 .. Len(text) /\ j \in Nat /\ End = Len(text) + 1 /\ Len(text) \in Nat
       /\ j < End
  BY TextIs
<1>12. IsNumber(ColumnAt)
  BY <1>6, <1>10, <1>11 DEF IsNumber
<1>13. j \in s .. e - 1
  BY <1>7 DEF FieldsOf, Fields
<1>14. s \in 1 .. Len(text) /\ s \in Nat /\ s \in 1 .. End /\ e < End
  BY <1>5, <1>11, RecordsFinite
<1>15. /\ e \in s .. End /\ text[e] \in {"nl"}
       /\ \A k \in s .. e - 1 : text[k] \notin {"nl"}
  BY <1>14, FindIs
<1> DEFINE n == NumberEnd(ColumnAt)
           g == Find(n, {"nl"})
<1>16. n = Find(j, Chars \ {"d"})
  BY <1>10 DEF NumberEnd
<1>17. text[e] \in Chars \ {"d"}
  BY <1>15 DEF Chars
<1> HIDE DEF e, n
<1>18. e \in Nat /\ j <= e /\ e \in j .. Len(text) /\ j \in 1 .. End
  BY <1>11, <1>13, <1>14, <1>15
<1>19. n \in j .. End /\ n <= e
  BY <1>16, <1>17, <1>18, FindIs
<1>20. n \in Nat /\ n \in 1 .. End /\ e \in n .. Len(text) /\ s <= n
  BY <1>11, <1>13, <1>14, <1>18, <1>19
<1>21. g \in n .. End /\ g <= e /\ (g < End => text[g] \in {"nl"})
  BY <1>15, <1>20, FindIs
<1> HIDE DEF g
<1>22. g \in Nat /\ g < End /\ s <= g
  BY <1>11, <1>14, <1>18, <1>20, <1>21
<1>23. g = e
  <2> SUFFICES ASSUME g # e PROVE FALSE
    OBVIOUS
  <2>1. g \in s .. e - 1
    BY <1>14, <1>18, <1>21, <1>22
  <2> QED
    BY <1>15, <1>21, <1>22, <2>1
<1>24. g # End
  BY <1>11, <1>22
<1>25. ~AtEof(n)
  BY <1>24 DEF AtEof, g
<1>26. skip_to_next_line(n) = e + 1
  BY <1>20, <1>23, <1>25, NextLineIs DEF g
<1>27. skip_to_next_line(s) = e + 1
  BY <1>4, <1>14, NextLineIs DEF e
<1>28. IsField(NumberAt(ColumnAt), s, column, {" "})
  BY <1>7, <1>10, Zenon DEF IsField, FieldsOf
<1>29. Rank(skip_to_next_line(n), Records) = Rank(pos, Records) + 1
  BY <1>5, <1>26, <1>27
<1>30. \E t \in Records : Rank(t, Records) = Rank(pos, Records)
                          /\ IsField(NumberAt(ColumnAt), t, column, {" "})
  BY <1>5, <1>28, Zenon
<1> QED
  BY <1>12, <1>25, <1>29, <1>30, Zenon DEF n

\* What the steps use of the text and of positions in it.
LEMMA FileFacts ==
    ASSUME PassInv
    PROVE  /\ text \in Texts /\ column \in Nat \ {0} /\ pos \in Starts \cup {End}
           /\ Rank(pos, Records) \in Nat /\ Cardinality(Records) \in Nat
           /\ Rank(pos, Records) <= Cardinality(Records)
           /\ Rank(1, Records) = 0 /\ 1 \in Starts
<1>1. text \in Texts /\ column \in Nat \ {0} /\ pos \in Starts \cup {End}
  BY BoundsTyped DEF PassInv
<1>2. Records \in SUBSET Nat /\ IsFiniteSet(Records) /\ pos \in Nat /\ 1 \in Starts
  BY <1>1, RecordsFinite, StartsAre, TextIs
<1>3. \A x \in Records : x >= 1
  BY <1>1, RecordsFinite, TextIs
<1>4. Rank(1, Records) = 0
  BY <1>2, <1>3, RankIs
<1>5. /\ Rank(pos, Records) \in Nat /\ Cardinality(Records) \in Nat
      /\ Rank(pos, Records) <= Cardinality(Records)
  BY <1>2, RankIs
<1> QED
  BY <1>1, <1>2, <1>4, <1>5

\* The call begins with nothing read.
LEMMA InitFileInv == FileInit => FileInv
<1> SUFFICES ASSUME FileInit PROVE FileInv
  OBVIOUS
<1>1. PassInv
  <2>1. 1 \in Starts
    BY DEF Starts
  <2>2. times \in Seq(Nat)
    BY DEF FileInit
  <2> QED
    BY <2>1, <2>2 DEF FileInit, PassInv
<1>2. StepInv /\ GoodInv
  BY DEF FileInit, StepInv, GoodInv
<1> QED
  BY <1>1, <1>2 DEF FileInv

\* fopen() reads nothing.
LEMMA OpenFileInv == FileInv /\ Open => FileInv'
<1> SUFFICES ASSUME FileInv, Open PROVE FileInv'
  OBVIOUS
<1>1. PassInv /\ state = "open" /\ state' \in {"count", "failed"} /\ text' = text
      /\ column' = column /\ pos' = pos /\ eof' = eof /\ num_jobs' = num_jobs
      /\ times' = times
  BY DEF FileInv, Open
<1>2. Rank(1, Records) = 0 /\ pos = 1 /\ num_jobs = 0
  BY <1>1, FileFacts DEF PassInv
<1>3. Records' = Records /\ End' = End /\ Starts' = Starts
  BY <1>1, TextSame
<1>4. Rank(pos', Records') = 0
  BY <1>1, <1>2, <1>3
<1>5. PassInv'
  BY <1>1, <1>2, <1>3, <1>4, Zenon DEF PassInv, Rank, Texts
<1>6. StepInv' /\ GoodInv'
  BY <1>1 DEF StepInv, GoodInv
<1> QED
  BY <1>5, <1>6 DEF FileInv

\* A turn of the first loop counts the record that it passes.
LEMMA CountJobFileInv == FileInv /\ CountJob => FileInv'
<1> SUFFICES ASSUME FileInv, CountJob PROVE FileInv'
  OBVIOUS
<1> DEFINE line == skip_comments(pos)
<1>1. PassInv /\ state = "count" /\ state' = "count" /\ text' = text /\ column' = column
      /\ eof' = eof /\ num_jobs' = num_jobs + 1 /\ times' = times
      /\ ~AtEof(line) /\ pos' = skip_to_next_line(line)
  BY DEF FileInv, CountJob
<1>2. text \in Texts /\ pos \in Starts \cup {End}
  BY <1>1, FileFacts
<1>3. Rank(pos', Records) = Rank(pos, Records) + 1
  BY <1>1, <1>2, FirstRecord
<1>4. pos' \in Starts \cup {End}
  <2>1. line \in Records
    BY <1>1, <1>2, FirstRecord
  <2>2. line \in 1 .. End
    BY <1>2, <2>1, RecordsFinite, TextIs
  <2> QED
    BY <1>1, <1>2, <2>2, NextLineIs
<1>5. Records' = Records /\ End' = End /\ Starts' = Starts
  BY <1>1, TextSame
<1>6. num_jobs' = Rank(pos', Records') /\ num_jobs' \in Nat
  BY <1>1, <1>3, <1>5 DEF PassInv
<1>7. PassInv'
  BY <1>1, <1>4, <1>5, <1>6, Zenon DEF PassInv, Rank, Texts
<1>8. StepInv' /\ GoodInv'
  BY <1>1 DEF StepInv, GoodInv
<1> QED
  BY <1>7, <1>8 DEF FileInv

\* The first pass ends with all records counted; the second begins before them.
LEMMA RewindFileInv == FileInv /\ Rewind => FileInv'
<1> SUFFICES ASSUME FileInv, Rewind PROVE FileInv'
  OBVIOUS
<1>1. PassInv /\ state = "count" /\ state' \in {"read", "failed"} /\ text' = text
      /\ column' = column /\ eof' = FALSE /\ num_jobs' = num_jobs /\ times' = times
      /\ AtEof(skip_comments(pos)) /\ pos' = 1
  BY DEF FileInv, Rewind
<1>2. text \in Texts /\ pos \in Starts \cup {End} /\ Rank(1, Records) = 0 /\ 1 \in Starts
  BY <1>1, FileFacts
<1>3. num_jobs = Cardinality(Records) /\ times = <<>> /\ num_jobs \in Nat
  BY <1>1, <1>2, NoRecordsLeft DEF PassInv
<1>4. Records' = Records /\ End' = End /\ Starts' = Starts
  BY <1>1, TextSame
<1>5. num_jobs' = Cardinality(Records') /\ Rank(pos', Records') = 0 /\ Len(times') = 0
      /\ Len(times') <= num_jobs'
  BY <1>1, <1>2, <1>3, <1>4
<1>6. PassInv'
  BY <1>1, <1>2, <1>3, <1>4, <1>5, Zenon DEF PassInv, Rank, Texts
<1>7. TimesRead'
  <2>1. DOMAIN times' = {}
    BY <1>1, <1>3
  <2> QED
    BY <2>1, Zenon DEF TimesRead
<1>8. Len(times') <= Rank(pos', Records')
  BY <1>5
<1>9. StepInv'
  BY <1>7, <1>8, Zenon DEF StepInv, Rank
<1>10. GoodInv'
  BY <1>1, <1>5, Zenon DEF GoodInv, Rank
<1> QED
  BY <1>6, <1>9, <1>10 DEF FileInv

\* A turn of the second loop.
LEMMA ReadTimeFileInv == FileInv /\ ReadTime => FileInv'
<1> SUFFICES ASSUME FileInv, ReadTime PROVE FileInv'
  OBVIOUS
<1> DEFINE j == NumberAt(ColumnAt)
           r == Rank(pos, Records)
<1>1. PassInv /\ state = "read" /\ state' = "read" /\ text' = text /\ column' = column
      /\ eof' = AtEof(NumberEnd(ColumnAt)) /\ num_jobs' = num_jobs /\ times' = Append(times, j)
      /\ IsNumber(ColumnAt) /\ pos' = skip_to_next_line(NumberEnd(ColumnAt))
      /\ Len(times) < num_jobs
  BY DEF FileInv, ReadTime, Reading
<1>2. /\ text \in Texts /\ column \in Nat \ {0} /\ pos \in Starts \cup {End}
      /\ r \in Nat /\ Cardinality(Records) \in Nat
  BY <1>1, FileFacts
<1>3. /\ Records' = Records /\ End' = End /\ Starts' = Starts
      /\ (Plain' <=> Plain) /\ (GoodFile' <=> GoodFile)
      /\ \A k, s : IsField(k, s, column, {" "})' <=> IsField(k, s, column, {" "})
  BY <1>1, TextSame
<1>4. ColumnAt \in 1 .. End
  <2>1. column \in 1 .. column
    BY <1>2
  <2>2. PICK f : Walk(f) /\ ColumnAt = f[column]
    BY <1>2, WalkExists
  <2> QED
    BY <2>1, <2>2 DEF Walk
<1>5. j \in Nat /\ NumberEnd(ColumnAt) \in 1 .. End
  BY <1>1, <1>2, <1>4, NumberIs
<1>6. pos' \in Starts \cup {End}
  BY <1>1, <1>2, <1>5, NextLineIs
<1>7. times \in Seq(Nat) /\ num_jobs = Cardinality(Records) /\ num_jobs \in Nat
  BY <1>1 DEF PassInv
<1> HIDE DEF j
<1>8. /\ times' \in Seq(Nat) /\ Len(times') = Len(times) + 1 /\ Len(times) \in Nat
      /\ DOMAIN times = 1 .. Len(times) /\ DOMAIN times' = 1 .. Len(times) + 1
      /\ times'[Len(times) + 1] = j
      /\ \A n \in 1 .. Len(times) : times'[n] = times[n]
  BY <1>1, <1>5, <1>7
<1>9. eof' \in BOOLEAN /\ Len(times') <= num_jobs'
  <2>1. Len(times') <= num_jobs'
    BY <1>1, <1>7, <1>8
  <2> QED
    BY <1>1, <2>1 DEF AtEof
<1>10. PassInv'
  BY <1>1, <1>3, <1>6, <1>7, <1>8, <1>9, Zenon DEF PassInv, Rank, Texts
<1>11. ASSUME Plain \/ GoodFile
       PROVE  Len(times') <= Rank(pos', Records)
              /\ (Len(times') = Rank(pos', Records) => TimesRead')
  <2>1. /\ Rank(pos', Records) >= r + 1
        /\ Rank(pos', Records) = r + 1 =>
               \E s \in Records : Rank(s, Records) = r /\ IsField(j, s, column, {" "})
    <3>1. CASE Plain
      BY <1>1, <1>2, <3>1, ReadsRecord DEF j
    <3>2. CASE GoodFile
      <4>1. Len(times) = r
        BY <1>1, <3>2 DEF FileInv, GoodInv
      <4>2. r # Cardinality(Records)
        BY <1>1, <1>2, <1>7, <4>1
      <4>3. /\ Rank(pos', Records) = r + 1
            /\ \E s \in Records : Rank(s, Records) = r /\ IsField(j, s, column, {" "})
        <5>1. /\ Rank(skip_to_next_line(NumberEnd(ColumnAt)), Records) = r + 1
              /\ \E s \in Records : Rank(s, Records) = r /\ IsField(j, s, column, {" "})
          BY <1>2, <3>2, <4>2, ReadsGood, Zenon DEF j, r
        <5> QED
          BY <1>1, <5>1, Zenon
      <4>4. Rank(pos', Records) >= r + 1
        <5>1. Rank(pos', Records) = r + 1
          BY <4>3, Zenon
        <5> HIDE DEF r
        <5> QED
          BY <1>2, <5>1
      <4> QED
        BY <4>3, <4>4, Zenon
    <3> QED
      BY <1>11, <3>1, <3>2
  <2>2. Len(times) <= r /\ (Len(times) = r => TimesRead)
    BY <1>1, <1>11 DEF FileInv, StepInv
  <2>3. Rank(pos', Records) \in Nat
    <3>1. pos' \in Nat /\ Records \in SUBSET Nat /\ IsFiniteSet(Records)
      BY <1>2, <1>6, RecordsFinite, StartsAre, TextIs
    <3> QED
      BY <3>1, RankIs
  <2> DEFINE IsTime(t, n) == \E s \in Records : Rank(s, Records) = n - 1
                                                /\ IsField(t, s, column, {" "})
             q == Rank(pos', Records)
  <2>4. q = r + 1 => IsTime(j, r + 1)
    <3>1. (r + 1) - 1 = r
      BY <1>2
    <3> QED
      BY <2>1, <3>1, Zenon
  <2>5. Len(times) = r => \A n \in DOMAIN times : IsTime(times[n], n)
    BY <2>2, Zenon DEF TimesRead
  <2>6. (\A n \in DOMAIN times' : IsTime(times'[n], n)) => TimesRead'
    BY <1>1, <1>3, Zenon DEF TimesRead, Rank
  <2>7. q >= r + 1
    BY <2>1
  <2> HIDE DEF IsTime, r, q
  <2>8. /\ r \in Nat /\ q \in Nat /\ Len(times) \in Nat /\ Len(times) <= r
        /\ Len(times') = Len(times) + 1
    BY <1>2, <1>8, <2>2, <2>3 DEF q, r
  <2>9. Len(times') <= q
    BY <2>7, <2>8
  <2>10. ASSUME Len(times') = q PROVE \A n \in DOMAIN times' : IsTime(times'[n], n)
    <3>1. Len(times) = r /\ q = r + 1
      BY <2>7, <2>8, <2>10
    <3> TAKE n \in DOMAIN times'
    <3>2. CASE n \in 1 .. Len(times)
      BY <1>8, <2>5, <3>1, <3>2
    <3>3. CASE n = Len(times) + 1
      BY <1>8, <2>4, <3>1, <3>3
    <3> QED
      BY <1>8, <3>2, <3>3
  <2> QED
    BY <2>6, <2>9, <2>10 DEF q
<1>12. StepInv'
  BY <1>3, <1>11, Zenon DEF StepInv, Rank
<1>13. ASSUME GoodFile PROVE eof' = FALSE /\ Len(times') = Rank(pos', Records)
  <2>1. Len(times) = r
    BY <1>1, <1>13 DEF FileInv, GoodInv
  <2>2. r # Cardinality(Records)
    BY <1>1, <1>2, <1>7, <2>1
  <2>3. ~AtEof(NumberEnd(ColumnAt)) /\ Rank(pos', Records) = r + 1
    BY <1>1, <1>2, <1>13, <2>2, ReadsGood
  <2>4. eof' = FALSE
    BY <1>1, <1>9, <2>3
  <2> QED
    BY <1>8, <2>1, <2>3, <2>4
<1>14. state' \notin {"invalid", "aborted"}
  BY <1>1
<1>15. GoodInv'
  BY <1>3, <1>13, <1>14, Zenon DEF GoodInv, Rank
<1> QED
  BY <1>10, <1>12, <1>15 DEF FileInv

\* The error exit: not on a well-formed file.
LEMMA InvalidTimeFileInv == FileInv /\ InvalidTime => FileInv'
<1> SUFFICES ASSUME FileInv, InvalidTime PROVE FileInv'
  OBVIOUS
<1>1. PassInv /\ state = "read" /\ state' = "invalid" /\ text' = text /\ column' = column
      /\ eof' = eof /\ num_jobs' = num_jobs /\ times' = times /\ pos' = pos
      /\ ~IsNumber(ColumnAt) /\ Len(times) < num_jobs
  BY DEF FileInv, InvalidTime, Reading
<1>2. /\ text \in Texts /\ column \in Nat \ {0} /\ pos \in Starts \cup {End}
      /\ Rank(pos, Records) \in Nat
  BY <1>1, FileFacts
<1>3. /\ Records' = Records /\ End' = End /\ Starts' = Starts
      /\ (Plain' <=> Plain) /\ (GoodFile' <=> GoodFile)
  BY <1>1, TextSame
<1>4. num_jobs = Cardinality(Records) /\ num_jobs \in Nat /\ times \in Seq(Nat)
  BY <1>1 DEF PassInv
<1>5. ASSUME GoodFile PROVE FALSE
  <2>1. Len(times) = Rank(pos, Records)
    BY <1>1, <1>5 DEF FileInv, GoodInv
  <2>2. Rank(pos, Records) # Cardinality(Records)
    BY <1>1, <1>2, <1>4, <2>1
  <2> QED
    BY <1>1, <1>2, <1>5, <2>2, ReadsGood
<1>6. PassInv'
  BY <1>1, <1>3, <1>4, Zenon DEF PassInv, Rank, Texts
<1>7. StepInv'
  BY <1>1 DEF StepInv
<1>8. GoodInv'
  BY <1>3, <1>5 DEF GoodInv
<1> QED
  BY <1>6, <1>7, <1>8 DEF FileInv

\* The assertion and the return.
LEMMA CheckCountFileInv == FileInv /\ CheckCount => FileInv'
<1> SUFFICES ASSUME FileInv, CheckCount PROVE FileInv'
  OBVIOUS
<1>1. PassInv /\ state = "read" /\ text' = text /\ column' = column
      /\ eof' = eof /\ num_jobs' = num_jobs /\ times' = times /\ pos' = pos
      /\ state' = (IF Len(times) = num_jobs THEN "returned" ELSE "aborted")
      /\ ~(Len(times) < num_jobs /\ ~eof)
  BY DEF FileInv, CheckCount, Reading
<1>2. /\ Rank(pos, Records) \in Nat /\ Rank(pos, Records) <= Cardinality(Records)
  BY <1>1, FileFacts
<1>3. /\ Records' = Records /\ End' = End /\ Starts' = Starts
      /\ (Plain' <=> Plain) /\ (GoodFile' <=> GoodFile)
      /\ \A k, s : IsField(k, s, column, {" "})' <=> IsField(k, s, column, {" "})
  BY <1>1, TextSame
<1>4. num_jobs = Cardinality(Records) /\ num_jobs \in Nat /\ times \in Seq(Nat)
  BY <1>1 DEF PassInv
<1>5. ASSUME GoodFile PROVE state' = "returned"
  <2>1. Len(times) = Rank(pos, Records) /\ eof = FALSE
    BY <1>1, <1>5 DEF FileInv, GoodInv
  <2>2. Len(times) = num_jobs
    BY <1>1, <1>2, <1>4, <2>1
  <2> QED
    BY <1>1, <2>2
<1>6. state' \in {"returned", "aborted"} /\ (state' = "returned" => Len(times') = num_jobs')
  BY <1>1
<1>7. PassInv'
  BY <1>1, <1>3, <1>4, <1>6, Zenon DEF PassInv, Rank, Texts
<1>8. TimesRead => TimesRead'
  BY <1>1, <1>3, Zenon DEF TimesRead, Rank
<1>9. Plain \/ GoodFile =>
          Len(times') <= Rank(pos', Records')
               /\ (Len(times') = Rank(pos', Records') => TimesRead')
  BY <1>1, <1>3, <1>8 DEF FileInv, StepInv
<1>10. StepInv'
  BY <1>3, <1>9, Zenon DEF StepInv, Rank
<1>11. GoodFile => state' \notin {"invalid", "aborted"} /\ state' # "read"
  BY <1>5
<1>12. GoodInv'
  BY <1>3, <1>11, Zenon DEF GoodInv
<1> QED
  BY <1>7, <1>10, <1>12 DEF FileInv

\* Nothing changes.
LEMMA StutterFileInv == FileInv /\ UNCHANGED filevars => FileInv'
<1> SUFFICES ASSUME FileInv, UNCHANGED filevars PROVE FileInv'
  OBVIOUS
<1>1. /\ text' = text /\ column' = column /\ pos' = pos /\ eof' = eof
      /\ num_jobs' = num_jobs /\ times' = times /\ state' = state
  BY DEF filevars
<1>2. /\ Records' = Records /\ End' = End /\ Starts' = Starts
      /\ (Plain' <=> Plain) /\ (GoodFile' <=> GoodFile)
      /\ \A k, s : IsField(k, s, column, {" "})' <=> IsField(k, s, column, {" "})
  BY <1>1, TextSame
<1>3. TimesRead' <=> TimesRead
  BY <1>1, <1>2, Zenon DEF TimesRead, Rank
<1>4. PassInv'
  BY <1>1, <1>2, Zenon DEF FileInv, PassInv, Rank, Texts
<1>5. StepInv'
  BY <1>1, <1>2, <1>3, Zenon DEF FileInv, StepInv, Rank
<1>6. GoodInv'
  BY <1>1, <1>2, Zenon DEF FileInv, GoodInv, Rank
<1> QED
  BY <1>4, <1>5, <1>6 DEF FileInv

\* get_exec_times(), for texts of every length and every column: both passes
\* stop at beginnings of lines only, the first counts the records, and the
\* second takes at least a record for each time that it reads.
THEOREM FileInvariant == FileSpec => []FileInv
<1>1. FileInv /\ [FileNext]_filevars => FileInv'
  BY OpenFileInv, CountJobFileInv, RewindFileInv, ReadTimeFileInv, InvalidTimeFileInv,
     CheckCountFileInv, StutterFileInv DEF FileNext
<1> QED
  BY <1>1, InitFileInv, PTL DEF FileSpec

\* When get_exec_times() returns from a file of complete lines, the time of job i
\* is field -o of record i, columns being words separated by blanks: the passes
\* have taken equally many records, so no turn of the second one has run on into
\* another line.  This is for files in which comments are kept apart: the first
\* column is read, there are no comments, or no line is short.
THEOREM RecordsReadHolds == FileSpec => []RecordsRead
<1>1. FileInv => RecordsRead
  <2> SUFFICES ASSUME FileInv, state = "returned", Complete, CommentsApart
               PROVE  Len(times) = Cardinality(Records) /\ TimesRead
    BY Zenon DEF RecordsRead, TimesRead
  <2>1. Plain \/ GoodFile
    <3>1. CASE column = 1
      BY <3>1 DEF Plain
    <3>2. CASE \A k \in DOMAIN text : text[k] # "#"
      BY <3>2 DEF Plain
    <3>3. CASE GoodFile
      BY <3>3
    <3> QED
      BY <3>1, <3>2, <3>3, Zenon DEF CommentsApart, GoodFile
  <2>2. PassInv /\ Len(times) = Cardinality(Records)
    BY DEF FileInv, PassInv
  <2>3. Len(times) <= Rank(pos, Records) /\ (Len(times) = Rank(pos, Records) => TimesRead)
    BY <2>1 DEF FileInv, StepInv
  <2>4. Rank(pos, Records) \in Nat /\ Rank(pos, Records) <= Cardinality(Records)
        /\ Cardinality(Records) \in Nat
    BY <2>2, FileFacts
  <2>5. Len(times) = Rank(pos, Records)
    BY <2>2, <2>3, <2>4
  <2> QED
    BY <2>2, <2>3, <2>5
<1> QED
  BY <1>1, FileInvariant, PTL

\* A file with a number in the wanted column of every record meets neither the
\* error exit nor the assertion of get_exec_times().
THEOREM GoodFilesAcceptedHolds == FileSpec => []GoodFilesAccepted
<1>1. FileInv => GoodFilesAccepted
  BY DEF FileInv, GoodInv, GoodFile, GoodFilesAccepted
<1> QED
  BY <1>1, FileInvariant, PTL

\* The turns of the two loops that are left at most, with the steps between.
TurnsLeft ==
    CASE state = "open"  -> 2 * Cardinality(Records) + 3
      [] state = "count" -> 2 * Cardinality(Records) + 2 - num_jobs
      [] state = "read"  -> Cardinality(Records) + 1 - Len(times)
      [] OTHER           -> 0

\* A step brings the call nearer to its end.
TurnDone == TurnsLeft \in Nat /\ TurnsLeft' \in Nat /\ TurnsLeft' < TurnsLeft

\* The loops turn no more often than there are records.
TurnBound ==
    /\ Cardinality(Records) \in Nat
    /\ state = "count" => num_jobs \in 0 .. Cardinality(Records)
    /\ state = "read" => num_jobs = Cardinality(Records)
    /\ times \in Seq(Nat) /\ Len(times) \in Nat
    /\ state = "read" => Len(times) <= Cardinality(Records)
    /\ state \in {"open", "count"} => Len(times) = 0
    /\ state = "open" => num_jobs = 0

\* It follows from the invariant.
LEMMA FileTurnBound == FileInv => TurnBound
<1> SUFFICES ASSUME FileInv PROVE TurnBound
  OBVIOUS
<1>1. PassInv
  BY DEF FileInv
<1>2. /\ Rank(pos, Records) \in Nat /\ Cardinality(Records) \in Nat
      /\ Rank(pos, Records) <= Cardinality(Records)
  BY <1>1, FileFacts
<1>3. times \in Seq(Nat) /\ Len(times) \in Nat
      /\ (state \in {"open", "count"} => Len(times) = 0)
  BY <1>1 DEF PassInv
<1> QED
  BY <1>1, <1>2, <1>3 DEF PassInv, TurnBound

\* One step.
LEMMA FileStepDone ==
    ASSUME TurnBound, TurnBound', FileNext PROVE TurnDone
<1> DEFINE c == Cardinality(Records)
<1>1. ASSUME text' = text, column' = column PROVE Cardinality(Records)' = c
  BY <1>1, TextSame
<1>2. CASE Open
  <2>1. c' = c /\ c \in Nat /\ state = "open" /\ state' \in {"count", "failed"}
        /\ num_jobs' = num_jobs /\ num_jobs = 0
    BY <1>1, <1>2 DEF Open, TurnBound
  <2> QED
    BY <2>1 DEF TurnDone, TurnsLeft
<1>3. CASE CountJob
  <2>1. c' = c /\ c \in Nat /\ state = "count" /\ state' = "count"
        /\ num_jobs' = num_jobs + 1
    BY <1>1, <1>3 DEF CountJob, TurnBound
  <2>2. num_jobs \in 0 .. c /\ num_jobs' \in 0 .. c
    BY <2>1 DEF TurnBound
  <2> QED
    BY <2>1, <2>2 DEF TurnDone, TurnsLeft
<1>4. CASE Rewind
  <2>1. c' = c /\ c \in Nat /\ state = "count" /\ state' \in {"read", "failed"}
        /\ times' = times
    BY <1>1, <1>4 DEF Rewind, TurnBound
  <2>2. num_jobs \in 0 .. c /\ Len(times) = 0
    BY <2>1 DEF TurnBound
  <2> QED
    BY <2>1, <2>2 DEF TurnDone, TurnsLeft
<1>5. CASE ReadTime
  <2>1. c' = c /\ c \in Nat /\ state = "read" /\ state' = "read" /\ Len(times) \in Nat
        /\ times' = Append(times, NumberAt(ColumnAt)) /\ Len(times') \in Nat
        /\ Len(times') <= c /\ times \in Seq(Nat)
    BY <1>1, <1>5 DEF ReadTime, Reading, TurnBound
  <2>2. Len(times') = Len(times) + 1
    BY <2>1
  <2> QED
    BY <2>1, <2>2 DEF TurnDone, TurnsLeft
<1>6. CASE InvalidTime \/ CheckCount
  <2>1. c' = c /\ c \in Nat /\ state = "read" /\ Len(times) \in Nat /\ Len(times) <= c
        /\ state' \in {"invalid", "returned", "aborted"}
    BY <1>1, <1>6 DEF InvalidTime, CheckCount, Reading, TurnBound
  <2> QED
    BY <2>1 DEF TurnDone, TurnsLeft
<1> QED
  BY <1>2, <1>3, <1>4, <1>5, <1>6 DEF FileNext

\* get_exec_times() ends: whatever the file, each step lowers TurnsLeft, so the
\* "while (!feof(file))" of the first loop and the second loop end after at most
\* one turn for each record, and a last one.
THEOREM FileReadingEnds == FileSpec => [][TurnDone]_filevars
<1>1. TurnBound /\ TurnBound' /\ [FileNext]_filevars => [TurnDone]_filevars
  BY FileStepDone
<1> QED
  BY <1>1, FileTurnBound, FileInvariant, PTL DEF FileSpec
===============================================================================
