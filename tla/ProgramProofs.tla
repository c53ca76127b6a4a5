--------------------------- MODULE ProgramProofs ---------------------------
(***************************************************************************)
(* Proofs about UserProgram, for any images and programs, any sizes of     *)
(* page and memory, and each of the word sizes of module Word.             *)
(***************************************************************************)
EXTENDS UserProgram, FiniteSetTheorems, SequenceTheorems, WellFoundedInduction, TLAPS

-----------------------------------------------------------------------------
(* Numbers.                                                                *)

LEMMA LeastOf ==
    ASSUME NEW T \in SUBSET Nat, T # {}
    PROVE  \E x \in T : \A y \in T : x <= y
<1> DEFINE R == OpToRel(<, Nat)
<1>1. IsWellFoundedOn(R, Nat)
  BY NatLessThanWellFounded
<1>2. \A x, y \in Nat : <<x, y>> \in R <=> x < y
  BY DEF OpToRel
<1> HIDE DEF R
<1>3. PICK x \in T : \A y \in T : ~ (<<y, x>> \in R)
  BY <1>1, WFMin
<1>4. ASSUME NEW y \in T PROVE x <= y
  <2>1. ~(y < x)
    BY <1>2, <1>3
  <2> QED
    BY <2>1
<1> QED
  BY <1>4

(* A set of numbers up to n that holds 0 and each successor holds them all. *)
LEMMA UpTo ==
    ASSUME NEW n \in Nat, NEW T, 0 \in T, \A i \in 1..n : i - 1 \in T => i \in T
    PROVE  \A i \in 0..n : i \in T
<1> DEFINE Missing == {i \in 0..n : i \notin T}
<1> SUFFICES ASSUME Missing # {} PROVE FALSE
  OBVIOUS
<1>1. Missing \in SUBSET Nat
  OBVIOUS
<1>2. PICK x \in Missing : \A y \in Missing : x <= y
  BY <1>1, LeastOf
<1>3. x \in 1..n /\ x - 1 \notin Missing /\ x - 1 \in 0..n
  BY <1>2
<1> QED
  BY <1>2, <1>3

LEMMA Division ==
    ASSUME NEW n \in Nat \ {0}, NEW a \in Int
    PROVE  a \div n \in Int /\ a % n \in 0..(n - 1) /\ a = (a \div n) * n + (a % n)
  OBVIOUS

LEMMA NextMultiple ==
    ASSUME NEW n \in Nat \ {0}, NEW i \in Int, NEW j \in Int, i < j
    PROVE  i * n + n <= j * n
<1>1. j - i - 1 \in Nat
  OBVIOUS
<1>2. (j - i - 1) * n >= 0
  BY <1>1
<1>3. (j - i - 1) * n = j * n - i * n - n
  OBVIOUS
<1> QED
  BY <1>2, <1>3

LEMMA QuotientIsUnique ==
    ASSUME NEW n \in Nat \ {0}, NEW i \in Int, NEW r \in 0..(n - 1)
    PROVE  (i * n + r) \div n = i /\ (i * n + r) % n = r
<1> DEFINE a == i * n + r
           q == a \div n
           m == a % n
<1>1. a \in Int
  OBVIOUS
<1>2. q \in Int /\ m \in 0..(n - 1) /\ a = q * n + m
  BY <1>1, Division
<1> HIDE DEF q, m
<1>3. ~(q < i)
  <2> SUFFICES ASSUME q < i PROVE FALSE
    OBVIOUS
  <2>1. q * n + n <= i * n
    BY <1>2, NextMultiple
  <2> QED
    BY <1>2, <2>1
<1>4. ~(i < q)
  <2> SUFFICES ASSUME i < q PROVE FALSE
    OBVIOUS
  <2>1. i * n + n <= q * n
    BY <1>2, NextMultiple
  <2> QED
    BY <1>2, <2>1
<1>5. q = i
  BY <1>2, <1>3, <1>4
<1>6. m = r
  BY <1>2, <1>5
<1> QED
  BY <1>5, <1>6 DEF q, m

LEMMA Multiple ==
    ASSUME NEW n \in Nat \ {0}, NEW i \in Int, NEW a, a = i * n
    PROVE  a \div n = i /\ a % n = 0
<1>1. 0 \in 0..(n - 1) /\ i * n + 0 = i * n
  OBVIOUS
<1>2. (i * n + 0) \div n = i /\ (i * n + 0) % n = 0
  BY <1>1, QuotientIsUnique
<1> QED
  BY <1>1, <1>2

(* The powers of two that fit a word of 32 bits. *)
LEMMA Powers ==
    /\ \A n \in 0..32 : 2^n \in Nat \ {0}
    /\ \A n \in 1..32 : 2^n = 2 * 2^(n - 1)
    /\ 2^0 = 1
<1> DEFINE double(n) == 2^n \in Nat \ {0} /\ 2^(n + 1) = 2 * 2^n
<1>1. /\ double(0) /\ double(1) /\ double(2) /\ double(3) /\ double(4) /\ double(5) /\ double(6)
      /\ double(7) /\ double(8) /\ double(9) /\ double(10) /\ double(11) /\ double(12)
      /\ double(13) /\ double(14) /\ double(15) /\ double(16) /\ double(17) /\ double(18)
      /\ double(19) /\ double(20) /\ double(21) /\ double(22) /\ double(23) /\ double(24)
      /\ double(25) /\ double(26) /\ double(27) /\ double(28) /\ double(29) /\ double(30)
      /\ double(31) /\ double(32)
  OBVIOUS
<1> HIDE DEF double
<1>2. \A n \in 0..32 : double(n)
  BY <1>1
<1>3. ASSUME NEW n \in 1..32 PROVE 2^n = 2 * 2^(n - 1)
  <2>1. n - 1 \in 0..32 /\ (n - 1) + 1 = n
    OBVIOUS
  <2>2. 2^((n - 1) + 1) = 2 * 2^(n - 1)
    BY <1>2, <2>1 DEF double
  <2> QED
    BY <2>1, <2>2
<1> QED
  BY <1>2, <1>3 DEF double

LEMMA WordSizes ==
    \/ ByteBits = 2 /\ ByteBase = 4 /\ WordBits = 8 /\ HalfBits = 4 /\ Base = 256
    \/ ByteBits = 4 /\ ByteBase = 16 /\ WordBits = 16 /\ HalfBits = 8 /\ Base = 65536
    \/ ByteBits = 8 /\ ByteBase = 256 /\ WordBits = 32 /\ HalfBits = 16 /\ Base = 4294967296
<1>2. CASE ByteBits = 2
  BY <1>2 DEF ByteBase, WordBits, HalfBits, Base
<1>3. CASE ByteBits = 4
  BY <1>3 DEF ByteBase, WordBits, HalfBits, Base
<1>4. CASE ByteBits = 8
  BY <1>4 DEF ByteBase, WordBits, HalfBits, Base
<1> QED
  BY <1>2, <1>3, <1>4, WordAssumption

LEMMA ByteFacts ==
    /\ ByteBase \in {4, 16, 256}
    /\ ByteBase^0 = 1 /\ ByteBase^1 = ByteBase /\ ByteBase^2 = ByteBase * ByteBase
    /\ ByteBase^3 = ByteBase * ByteBase * ByteBase /\ ByteBase^4 = Base
    /\ Base = ByteBase * ByteBase * ByteBase * ByteBase
    /\ ByteBits \in 2..8 /\ HalfBits \in 4..16 /\ WordBits \in 8..32 /\ HalfBits < WordBits
    /\ 2^ByteBits = ByteBase /\ 2^(ByteBits - 1) = ByteBase \div 2
    /\ 2^HalfBits = ByteBase * ByteBase /\ 2^(HalfBits - 1) = (ByteBase * ByteBase) \div 2
    /\ 2^WordBits = Base
<1>2. CASE ByteBits = 2
  BY <1>2 DEF ByteBase, WordBits, HalfBits, Base
<1>3. CASE ByteBits = 4
  BY <1>3 DEF ByteBase, WordBits, HalfBits, Base
<1>4. CASE ByteBits = 8
  BY <1>4 DEF ByteBase, WordBits, HalfBits, Base
<1> QED
  BY <1>2, <1>3, <1>4, WordAssumption

LEMMA BaseFacts == Base \in Nat \ {0} /\ Base % 2 = 0 /\ Base >= 256 /\ Base \div 2 \in Nat \ {0}
                   /\ 2 * (Base \div 2) = Base
BY WordSizes

LEMMA AsWordInWord == \A n \in Int : AsWord(n) \in Word
BY WordSizes DEF AsWord, Word

(* The function f on 0..N with values in S starts with a and takes the     *)
(* steps G.                                                                *)
Stepwise(f, N, S, a, G) ==
    f \in [0..N -> S] /\ f[0] = a /\ \A n \in 1..N : f[n] = G[n][f[n - 1]]

Closed(N, S, G) == \A n \in 1..N : \A x \in S : G[n][x] \in S

LEMMA Recursion ==
    ASSUME NEW N \in Nat, NEW S, NEW a \in S, NEW G, Closed(N, S, G)
    PROVE  \E f : Stepwise(f, N, S, a, G)
<1> USE DEF Closed, Stepwise
<1> DEFINE Is(m, f) == f \in [0..m -> S] /\ f[0] = a /\ \A n \in 1..m : f[n] = G[n][f[n - 1]]
           T == {m \in 0..N : \E f : Is(m, f)}
<1>1. 0 \in T
  <2>1. Is(0, [n \in 0..0 |-> a]) /\ 0 \in 0..N
    OBVIOUS
  <2> HIDE DEF Is
  <2> QED
    BY <2>1
<1>2. ASSUME NEW i \in 1..N, i - 1 \in T PROVE i \in T
  <2>1. PICK f : Is(i - 1, f)
    BY <1>2
  <2> DEFINE g == [n \in 0..i |-> IF n = i THEN G[i][f[i - 1]] ELSE f[n]]
  <2>2. f \in [0..(i - 1) -> S] /\ f[i - 1] \in S /\ G[i][f[i - 1]] \in S
    BY <2>1
  <2>3. g \in [0..i -> S]
    BY <2>2
  <2>4. g[0] = a
    BY <2>1
  <2>5. ASSUME NEW n \in 1..i PROVE g[n] = G[n][g[n - 1]]
    <3>1. n - 1 \in 0..i /\ n - 1 # i /\ g[n - 1] = f[n - 1]
      OBVIOUS
    <3>2. CASE n = i
      BY <3>1, <3>2
    <3>3. CASE n # i
      <4>1. n \in 1..(i - 1) /\ g[n] = f[n]
        BY <3>3
      <4> QED
        BY <2>1, <3>1, <4>1
    <3> QED
      BY <3>2, <3>3
  <2>6. Is(i, g) /\ i \in 0..N
    BY <2>3, <2>4, <2>5
  <2> HIDE DEF Is, g
  <2> QED
    BY <2>6
<1> HIDE DEF T
<1>3. \A i \in 0..N : i \in T
  BY <1>1, <1>2, UpTo
<1>4. N \in T
  BY <1>3
<1> QED
  BY <1>4 DEF T

-----------------------------------------------------------------------------
(* Words.                                                                  *)

LEMMA BitIsBit == \A w \in Nat : \A k \in 0..32 : Bit(w, k) \in {0, 1}
BY Powers DEF Bit

(* A bitwise operation, bit by bit: its value below bit n. *)
LEMMA CombinedSum ==
    ASSUME NEW op \in [{0, 1} -> [{0, 1} -> {0, 1}]], NEW a \in Nat, NEW b \in Nat
    PROVE  \E low \in [0..WordBits -> Nat], bit \in [1..WordBits -> {0, 1}] :
              /\ Combined(op, a, b) = low[WordBits]
              /\ low[0] = 0
              /\ \A n \in 1..WordBits : bit[n] = op[Bit(a, n - 1)][Bit(b, n - 1)]
              /\ \A n \in 1..WordBits : low[n] = low[n - 1] + 2^(n - 1) * bit[n]
<1> DEFINE bit(n) == op[Bit(a, n - 1)][Bit(b, n - 1)]
           G == [n \in 1..WordBits |-> [x \in Nat |-> x + 2^(n - 1) * bit(n)]]
           Eq(f) == f = [n \in 0..WordBits |-> IF n = 0 THEN 0 ELSE f[n - 1] + 2^(n - 1) * bit(n)]
<1>0. WordBits \in 8..32
  BY ByteFacts
<1>1. ASSUME NEW n \in 1..WordBits PROVE bit(n) \in {0, 1} /\ 2^(n - 1) \in Nat /\ 2^(n - 1) * bit(n) \in Nat
  <2>1. n - 1 \in 0..32
    BY <1>0
  <2>2. bit(n) \in {0, 1}
    BY <2>1, BitIsBit
  <2>3. 2^(n - 1) \in Nat
    BY <2>1, Powers
  <2> HIDE DEF bit
  <2> QED
    BY <2>2, <2>3
<1> HIDE DEF bit
<1>2. \A n \in 1..WordBits : \A x \in Nat : G[n][x] = x + 2^(n - 1) * bit(n) /\ G[n][x] \in Nat
  BY <1>1
<1> HIDE DEF G
<1>a. WordBits \in Nat /\ 0 \in Nat /\ Closed(WordBits, Nat, G)
  BY <1>0, <1>2 DEF Closed
<1>3. PICK f : Stepwise(f, WordBits, Nat, 0, G)
  BY <1>a, Recursion
<1>4. Eq(f)
  <2>1. ASSUME NEW n \in 0..WordBits
        PROVE  f[n] = IF n = 0 THEN 0 ELSE f[n - 1] + 2^(n - 1) * bit(n)
    <3>1. CASE n = 0
      BY <1>3, <3>1 DEF Stepwise
    <3>2. CASE n # 0
      <4>1. n \in 1..WordBits /\ n - 1 \in 0..WordBits
        BY <1>0, <3>2
      <4> QED
        BY <1>2, <1>3, <3>2, <4>1 DEF Stepwise
    <3> QED
      BY <3>1, <3>2
  <2> QED
    BY <1>3, <2>1 DEF Stepwise
<1> DEFINE low == CHOOSE g : Eq(g)
<1>5. Eq(low)
  BY <1>4
<1>6. Combined(op, a, b) = low[WordBits]
  BY DEF Combined, bit
<1> HIDE DEF low
<1>7. /\ low[0] = 0
      /\ \A n \in 1..WordBits : low[n] = low[n - 1] + 2^(n - 1) * bit(n)
  <2>1. \A n \in 0..WordBits : low[n] = IF n = 0 THEN 0 ELSE low[n - 1] + 2^(n - 1) * bit(n)
    BY <1>5
  <2> QED
    BY <1>0, <2>1
<1>8. low \in [0..WordBits -> Nat]
  <2> DEFINE T == {n \in 0..WordBits : low[n] \in Nat}
  <2>0. WordBits \in Nat
    BY <1>0
  <2>1. 0 \in T
    <3>1. 0 \in 0..WordBits /\ low[0] \in Nat
      BY <2>0, <1>7
    <3> QED
      BY <3>1
  <2>2. ASSUME NEW n \in 1..WordBits, n - 1 \in T PROVE n \in T
    <3>1. n \in 0..WordBits /\ low[n] \in Nat
      BY <2>0, <1>1, <1>7, <2>2
    <3> QED
      BY <3>1
  <2> HIDE DEF T
  <2>3. \A n \in 0..WordBits : n \in T
    BY <2>0, <2>1, <2>2, UpTo
  <2>4. \A n \in 0..WordBits : low[n] \in Nat
    BY <2>3 DEF T
  <2> QED
    BY <1>5, <2>4
<1> DEFINE d == [n \in 1..WordBits |-> bit(n)]
<1>9. d \in [1..WordBits -> {0, 1}] /\ \A n \in 1..WordBits : d[n] = bit(n)
  BY <1>1
<1> HIDE DEF d
<1>10. \A n \in 1..WordBits : low[n] = low[n - 1] + 2^(n - 1) * d[n]
  BY <1>7, <1>9
<1>11. \A n \in 1..WordBits : d[n] = op[Bit(a, n - 1)][Bit(b, n - 1)]
  BY <1>9, Zenon DEF bit
<1> QED
  BY <1>6, <1>7, <1>8, <1>9, <1>10, <1>11, Zenon

LEMMA CombinedInWord ==
    ASSUME NEW op \in [{0, 1} -> [{0, 1} -> {0, 1}]], NEW a \in Nat, NEW b \in Nat
    PROVE  Combined(op, a, b) \in Word
<1>0. WordBits \in 8..32 /\ 2^WordBits = Base
  BY ByteFacts
<1>1. PICK low \in [0..WordBits -> Nat], bit \in [1..WordBits -> {0, 1}] :
         /\ Combined(op, a, b) = low[WordBits]
         /\ low[0] = 0
         /\ \A n \in 1..WordBits : low[n] = low[n - 1] + 2^(n - 1) * bit[n]
  BY CombinedSum, Zenon
<1> DEFINE T == {n \in 0..WordBits : low[n] \in 0..(2^n - 1)}
<1>2. 0 \in T
  <2>1. 0 \in 0..WordBits /\ low[0] \in 0..(2^0 - 1)
    BY <1>0, <1>1, Powers
  <2> QED
    BY <2>1
<1>3. ASSUME NEW n \in 1..WordBits, n - 1 \in T PROVE n \in T
  <2> DEFINE p == 2^(n - 1)
             q == 2^n
  <2>1. n - 1 \in 0..32 /\ n \in 1..32
    BY <1>0
  <2>2. q = 2 * p /\ p \in Nat
    BY <2>1, Powers
  <2>3. bit[n] \in {0, 1}
    OBVIOUS
  <2>4. low[n - 1] \in 0..(p - 1) /\ low[n] = low[n - 1] + p * bit[n]
    BY <1>1, <1>3
  <2> HIDE DEF p, q
  <2>5. low[n] \in 0..(q - 1)
    BY <2>2, <2>3, <2>4
  <2> QED
    BY <2>5 DEF q
<1> HIDE DEF T
<1>a. WordBits \in Nat /\ WordBits \in 0..WordBits
  BY <1>0
<1>4. WordBits \in T
  BY <1>a, <1>2, <1>3, UpTo
<1>5. low[WordBits] \in 0..(2^WordBits - 1)
  BY <1>4 DEF T
<1> QED
  BY <1>0, <1>1, <1>5 DEF Word

LEMMA LogicalInWord ==
    ASSUME NEW a \in Nat, NEW b \in Nat
    PROVE  And(a, b) \in Word /\ Or(a, b) \in Word /\ Xor(a, b) \in Word
<1>1. {BitAnd, BitOr, BitXor} \subseteq [{0, 1} -> [{0, 1} -> {0, 1}]]
  BY DEF BitAnd, BitOr, BitXor
<1> QED
  BY <1>1, CombinedInWord DEF And, Or, Xor

LEMMA SignedValue ==
    ASSUME NEW w \in Word
    PROVE  /\ w \in Nat /\ Signed(w) \in Int
           /\ Signed(w) \in (-(Base \div 2))..(Base \div 2 - 1)
           /\ Negative(w) \in BOOLEAN
           /\ Negative(w) <=> Signed(w) < 0
           /\ AsWord(Signed(w)) = w
BY WordSizes DEF Word, Signed, Negative, AsWord

LEMMA ShiftsInWord ==
    ASSUME NEW w \in Word, NEW k \in 0..32
    PROVE  ShiftLeft(w, k) \in Word /\ ShiftRight(w, k) \in Word /\ ShiftRightSigned(w, k) \in Word
<1> DEFINE p == 2^k
           s == Signed(w)
<1>1. p \in Nat \ {0} /\ s \in Int
  BY Powers, SignedValue
<1>2. w \in Int /\ w \in 0..(Base - 1) /\ Base \in Nat
  BY BaseFacts DEF Word
<1> HIDE DEF p, s
<1>3. w * p \in Int /\ s \div p \in Int
  BY <1>1, <1>2
<1>4. (w * p) % Base \in Word /\ (s \div p) % Base \in Word
  BY <1>3, AsWordInWord DEF AsWord
<1>5. w \div p \in 0..(Base - 1)
  BY <1>1, <1>2
<1> QED
  BY <1>4, <1>5 DEF ShiftLeft, ShiftRight, ShiftRightSigned, AsWord, p, s, Word

LEMMA WordsAreNumbers == \A w \in Word : w \in Nat
BY BaseFacts DEF Word

-----------------------------------------------------------------------------
(* The multiplication.                                                     *)

MultState == [a : Word, bHi : Word, bLo : Word, hi : Word, lo : Word, left : BOOLEAN]

LEMMA MagnitudeInWord ==
    ASSUME NEW w \in Word, NEW s \in BOOLEAN
    PROVE  Magnitude(w, s) \in Word /\ Negate(w) \in Word
<1>1. Base - w \in Int
  BY BaseFacts, WordsAreNumbers
<1> QED
  BY <1>1, AsWordInWord DEF Magnitude, Negate

LEMMA ShiftedTyped == \A s \in MultState : Shifted(s) \in MultState
<1> SUFFICES ASSUME NEW s \in MultState PROVE Shifted(s) \in MultState
  OBVIOUS
<1> DEFINE carry == IF Negative(s.bLo) THEN 1 ELSE 0
<1>1. s.a \in Word /\ s.bHi \in Word /\ s.bLo \in Word
  BY DEF MultState
<1>2. ShiftLeft(s.bLo, 1) \in Word /\ ShiftRightSigned(s.a, 1) \in Word
  BY <1>1, ShiftsInWord
<1>3. ShiftLeft(s.bHi, 1) \in 0..(Base - 2) /\ carry \in {0, 1}
  <2>1. s.bHi \in Nat /\ 2^1 = 2
    BY <1>1, WordsAreNumbers
  <2>2. (s.bHi * 2) % Base \in 0..(Base - 2)
    BY <2>1, WordSizes
  <2> QED
    BY <2>1, <2>2 DEF ShiftLeft
<1>4. ShiftLeft(s.bHi, 1) + carry \in Word
  BY <1>3, BaseFacts DEF Word
<1> HIDE DEF carry
<1>5. Shifted(s) = [s EXCEPT !.bHi = ShiftLeft(s.bHi, 1) + carry, !.bLo = ShiftLeft(s.bLo, 1),
                             !.a = ShiftRightSigned(s.a, 1)]
  BY DEF Shifted, carry
<1> QED
  BY <1>2, <1>4, <1>5 DEF MultState

(* The state of the loop once b is added to the product. *)
Added(s) ==
    LET sum == AsWord(s.lo + s.bLo)
    IN  [s EXCEPT !.lo = sum, !.hi = AsWord(@ + CarryOut(sum, s.bLo) + s.bHi)]

LEMMA AddedTyped == \A s \in MultState : Added(s) \in MultState
<1> SUFFICES ASSUME NEW s \in MultState PROVE Added(s) \in MultState
  OBVIOUS
<1> DEFINE sum == AsWord(s.lo + s.bLo)
           high == AsWord(s.hi + CarryOut(sum, s.bLo) + s.bHi)
<1>1. s.hi \in Nat /\ s.lo \in Nat /\ s.bHi \in Nat /\ s.bLo \in Nat
  BY WordsAreNumbers DEF MultState
<1>2. sum \in Word
  BY <1>1, AsWordInWord
<1>3. CarryOut(sum, s.bLo) \in {0, 1}
  BY DEF CarryOut
<1>4. high \in Word
  BY <1>1, <1>3, AsWordInWord
<1>5. Added(s) = [s EXCEPT !.lo = sum, !.hi = high]
  BY DEF Added
<1> HIDE DEF sum, high
<1> QED
  BY <1>2, <1>4, <1>5 DEF MultState

LEMMA IterateCases ==
    ASSUME NEW s \in MultState
    PROVE  Iterate(s) = IF s.left THEN s
                        ELSE IF s.a % 2 = 0 THEN Shifted(s)
                        ELSE IF s.a \div 2 = 0 THEN [Added(s) EXCEPT !.left = TRUE] ELSE Shifted(Added(s))
BY DEF Iterate, Added, MultState

LEMMA IterateTyped == \A s \in MultState : Iterate(s) \in MultState
<1> SUFFICES ASSUME NEW s \in MultState PROVE Iterate(s) \in MultState
  OBVIOUS
<1>1. Added(s) \in MultState /\ [Added(s) EXCEPT !.left = TRUE] \in MultState
  BY AddedTyped DEF MultState
<1> QED
  BY <1>1, ShiftedTyped, IterateCases

Before(a, b, s) ==
    [a |-> Magnitude(a, s), bHi |-> 0, bLo |-> Magnitude(b, s), hi |-> 0, lo |-> 0, left |-> FALSE]

(* What Mult returns, from the states its loop goes through. *)
LEMMA MultLoop ==
    ASSUME NEW a \in Word, NEW b \in Word, NEW s \in BOOLEAN
    PROVE  \E loop \in [0..WordBits -> MultState] :
              /\ loop[0] = Before(a, b, s)
              /\ \A n \in 1..WordBits : loop[n] = Iterate(loop[n - 1])
              /\ Mult(a, b, s) =
                    IF a = 0 \/ b = 0 THEN [hi |-> 0, lo |-> 0]
                    ELSE IF s /\ Negative(a) # Negative(b)
                      THEN Negated(loop[WordBits].hi, loop[WordBits].lo)
                      ELSE [hi |-> loop[WordBits].hi, lo |-> loop[WordBits].lo]
<1> DEFINE G == [n \in 1..WordBits |-> [x \in MultState |-> Iterate(x)]]
           start == Before(a, b, s)
           Eq(f) == f = [n \in 0..WordBits |-> IF n = 0 THEN start ELSE Iterate(f[n - 1])]
<1>0. WordBits \in 8..32 /\ WordBits \in Nat
  BY ByteFacts
<1>1. Closed(WordBits, MultState, G)
  BY IterateTyped DEF Closed
<1>2. start \in MultState
  BY MagnitudeInWord, BaseFacts DEF Before, MultState, Word
<1> HIDE DEF start
<1>3. \A n \in 1..WordBits : \A x \in MultState : G[n][x] = Iterate(x)
  OBVIOUS
<1> HIDE DEF G
<1>4. PICK f : Stepwise(f, WordBits, MultState, start, G)
  BY <1>0, <1>1, <1>2, Recursion
<1>5. Eq(f)
  <2>1. ASSUME NEW n \in 0..WordBits PROVE f[n] = IF n = 0 THEN start ELSE Iterate(f[n - 1])
    <3>1. CASE n = 0
      BY <1>4, <3>1 DEF Stepwise
    <3>2. CASE n # 0
      <4>1. n \in 1..WordBits /\ n - 1 \in 0..WordBits
        BY <1>0, <3>2
      <4> QED
        BY <1>3, <1>4, <3>2, <4>1 DEF Stepwise
    <3> QED
      BY <3>1, <3>2
  <2> QED
    BY <1>4, <2>1 DEF Stepwise
<1> DEFINE loop == CHOOSE g : Eq(g)
<1>6. Eq(loop)
  BY <1>5
<1>7. Mult(a, b, s) =
          IF a = 0 \/ b = 0 THEN [hi |-> 0, lo |-> 0]
          ELSE IF s /\ Negative(a) # Negative(b)
            THEN Negated(loop[WordBits].hi, loop[WordBits].lo)
            ELSE [hi |-> loop[WordBits].hi, lo |-> loop[WordBits].lo]
  BY DEF Mult, start, Before
<1> HIDE DEF loop
<1>8. loop[0] = start /\ \A n \in 1..WordBits : loop[n] = Iterate(loop[n - 1])
  <2>1. \A n \in 0..WordBits : loop[n] = IF n = 0 THEN start ELSE Iterate(loop[n - 1])
    BY <1>6
  <2> QED
    BY <1>0, <2>1
<1>9. loop \in [0..WordBits -> MultState]
  <2> DEFINE T == {n \in 0..WordBits : loop[n] \in MultState}
  <2>1. 0 \in T
    BY <1>0, <1>2, <1>8
  <2>2. ASSUME NEW n \in 1..WordBits, n - 1 \in T PROVE n \in T
    <3>1. n \in 0..WordBits /\ loop[n] = Iterate(loop[n - 1])
      BY <1>0, <1>8
    <3> QED
      BY <3>1, <2>2, IterateTyped
  <2> HIDE DEF T
  <2>3. \A n \in 0..WordBits : n \in T
    BY <1>0, <2>1, <2>2, UpTo
  <2>4. \A n \in 0..WordBits : loop[n] \in MultState
    BY <2>3 DEF T
  <2> QED
    BY <1>6, <2>4
<1> QED
  BY <1>7, <1>8, <1>9 DEF start

LEMMA MultTyped ==
    ASSUME NEW a \in Word, NEW b \in Word, NEW s \in BOOLEAN
    PROVE  Mult(a, b, s).hi \in Word /\ Mult(a, b, s).lo \in Word
<1>1. PICK loop \in [0..WordBits -> MultState] :
         Mult(a, b, s) =
            IF a = 0 \/ b = 0 THEN [hi |-> 0, lo |-> 0]
            ELSE IF s /\ Negative(a) # Negative(b)
              THEN Negated(loop[WordBits].hi, loop[WordBits].lo)
              ELSE [hi |-> loop[WordBits].hi, lo |-> loop[WordBits].lo]
  BY MultLoop
<1>2. loop[WordBits] \in MultState
  BY ByteFacts
<1>3. ASSUME NEW hi \in Word, NEW lo \in Word
      PROVE  Negated(hi, lo).hi \in Word /\ Negated(hi, lo).lo \in Word
  <2>1. Base - lo \in Int /\ Base - 1 - hi + (IF lo = 0 THEN 1 ELSE 0) \in Int
    BY BaseFacts, WordsAreNumbers
  <2> QED
    BY <2>1, AsWordInWord DEF Negated, Negate, Not
<1>4. loop[WordBits].hi \in Word /\ loop[WordBits].lo \in Word /\ 0 \in Word
  BY <1>2, BaseFacts DEF MultState, Word
<1>5. CASE a = 0 \/ b = 0
  BY <1>1, <1>4, <1>5
<1>6. CASE ~(a = 0 \/ b = 0) /\ s /\ Negative(a) # Negative(b)
  BY <1>1, <1>3, <1>4, <1>6
<1>7. CASE ~(a = 0 \/ b = 0) /\ ~(s /\ Negative(a) # Negative(b))
  BY <1>1, <1>4, <1>7
<1> QED
  BY <1>5, <1>6, <1>7

-----------------------------------------------------------------------------
(* The bytes of a word.                                                    *)

Byte == 0..(ByteBase - 1)

(* The word of four bytes, the lowest first. *)
WordOf(a, b, c, d) ==
    a + b * ByteBase + c * (ByteBase * ByteBase) + d * (ByteBase * ByteBase * ByteBase)

LEMMA BytesOfWord ==
    ASSUME NEW a \in Byte, NEW b \in Byte, NEW c \in Byte, NEW d \in Byte
    PROVE  /\ WordOf(a, b, c, d) \in Word
           /\ ByteOf(WordOf(a, b, c, d), 0) = a
           /\ ByteOf(WordOf(a, b, c, d), 1) = b
           /\ ByteOf(WordOf(a, b, c, d), 2) = c
           /\ ByteOf(WordOf(a, b, c, d), 3) = d
<1> DEFINE w == WordOf(a, b, c, d)
<1>1. /\ ByteOf(w, 0) = w % ByteBase
      /\ ByteOf(w, 1) = (w \div ByteBase) % ByteBase
      /\ ByteOf(w, 2) = (w \div (ByteBase * ByteBase)) % ByteBase
      /\ ByteOf(w, 3) = (w \div (ByteBase * ByteBase * ByteBase)) % ByteBase
  <2>1. w \in Int /\ w \div 1 = w
    BY ByteFacts DEF WordOf, Byte
  <2> HIDE DEF w
  <2> QED
    BY <2>1, ByteFacts DEF ByteOf
<1> DEFINE B == ByteBase
<1>3. B \in {4, 16, 256} /\ a \in 0..(B - 1) /\ b \in 0..(B - 1) /\ c \in 0..(B - 1) /\ d \in 0..(B - 1)
  BY ByteFacts DEF Byte
<1>4. w = a + b * B + c * (B * B) + d * (B * B * B) /\ Base = B * B * B * B
  BY ByteFacts DEF WordOf
<1> HIDE DEF B, w
<1>2. w \in Word
  BY <1>3, <1>4 DEF Word
<1>5. w % B = a /\ (w \div B) % B = b
  <2> DEFINE e == c + d * B
             f == e * B + b
  <2>1. e \in Int /\ f \in Int /\ w = f * B + a
    BY <1>3, <1>4
  <2>2. f = e * B + b
    OBVIOUS
  <2> HIDE DEF e, f
  <2>3. w \div B = f /\ w % B = a
    BY <1>3, <2>1, QuotientIsUnique
  <2>4. f % B = b
    BY <1>3, <2>1, <2>2, QuotientIsUnique
  <2> QED
    BY <2>3, <2>4
<1>6. (w \div (B * B)) % B = c
  <2>1. w = (d * B + c) * (B * B) + (a + b * B) /\ d * B + c \in Int /\ a + b * B \in 0..(B * B - 1)
        /\ B * B \in Nat \ {0}
    BY <1>3, <1>4
  <2>2. w \div (B * B) = d * B + c
    BY <2>1, QuotientIsUnique
  <2> QED
    BY <1>3, <2>2, QuotientIsUnique
<1>7. (w \div (B * B * B)) % B = d
  <2>1. w = d * (B * B * B) + (a + b * B + c * (B * B)) /\ d \in Int
        /\ a + b * B + c * (B * B) \in 0..(B * B * B - 1) /\ B * B * B \in Nat \ {0}
    BY <1>3, <1>4
  <2>2. w \div (B * B * B) = d
    BY <2>1, QuotientIsUnique
  <2>3. d % B = d
    BY <1>3
  <2> QED
    BY <2>2, <2>3
<1> QED
  BY <1>1, <1>2, <1>5, <1>6, <1>7 DEF w, B

LEMMA WordIsItsBytes ==
    ASSUME NEW w \in Word
    PROVE  /\ ByteOf(w, 0) \in Byte /\ ByteOf(w, 1) \in Byte
           /\ ByteOf(w, 2) \in Byte /\ ByteOf(w, 3) \in Byte
           /\ w = WordOf(ByteOf(w, 0), ByteOf(w, 1), ByteOf(w, 2), ByteOf(w, 3))
<1>1. w \in Nat /\ w \in 0..(Base - 1)
  BY WordsAreNumbers DEF Word
<1> DEFINE B == ByteBase
           q == w \div B
           q2 == q \div B
           q3 == q2 \div B
<1>3. B \in Nat \ {0} /\ B \in {4, 16, 256} /\ w < B * B * B * B
  BY <1>1, ByteFacts
<1> HIDE DEF B
<1>4. q \in Int /\ w % B \in 0..(B - 1) /\ w = q * B + (w % B)
  BY <1>1, <1>3, Division
<1> HIDE DEF q
<1>5. q2 \in Int /\ q % B \in 0..(B - 1) /\ q = q2 * B + (q % B)
  BY <1>3, <1>4, Division
<1> HIDE DEF q2
<1>6. q3 \in Int /\ q2 % B \in 0..(B - 1) /\ q2 = q3 * B + (q2 % B)
  BY <1>3, <1>5, Division
<1> HIDE DEF q3
<1> DEFINE r == w % B
           s == q % B
           t == q2 % B
<1>7. r \in 0..(B - 1) /\ s \in 0..(B - 1) /\ t \in 0..(B - 1)
      /\ w = r + s * B + t * (B * B) + q3 * (B * B * B)
  <2> HIDE DEF r, s, t
  <2>1. w = q * B + r /\ q = q2 * B + s /\ q2 = q3 * B + t
    BY <1>4, <1>5, <1>6 DEF r, s, t
  <2>2. r \in 0..(B - 1) /\ s \in 0..(B - 1) /\ t \in 0..(B - 1)
    BY <1>4, <1>5, <1>6 DEF r, s, t
  <2> QED
    BY <1>3, <1>6, <2>1, <2>2
<1> HIDE DEF r, s, t
<1>8. q3 \in 0..(B - 1)
  BY <1>1, <1>3, <1>6, <1>7
<1>9. /\ r \in Byte /\ s \in Byte /\ t \in Byte /\ q3 \in Byte
      /\ w = WordOf(r, s, t, q3)
  BY <1>7, <1>8 DEF Byte, WordOf, B
<1>10. ByteOf(w, 0) = r /\ ByteOf(w, 1) = s /\ ByteOf(w, 2) = t /\ ByteOf(w, 3) = q3
  BY <1>9, BytesOfWord
<1> QED
  BY <1>9, <1>10

(* What ReadMem puts together. *)
LEMMA ValueOfBytes ==
    ASSUME NEW memory \in [0..(MemorySize - 1) -> Byte], NEW p \in Nat, NEW size \in {1, 2, 4},
           p..(p + size - 1) \subseteq 0..(MemorySize - 1)
    PROVE  ValueAt(memory, p, size) =
              IF size = 1 THEN WordOf(memory[p], 0, 0, 0)
              ELSE IF size = 2 THEN WordOf(memory[p], memory[p + 1], 0, 0)
              ELSE WordOf(memory[p], memory[p + 1], memory[p + 2], memory[p + 3])
<1> DEFINE m(n) == memory[p + n - 1]
           G == [n \in 1..size |-> [x \in Nat |-> x + m(n) * ByteBase^(n - 1)]]
           Eq(f) == f = [n \in 0..size |-> IF n = 0 THEN 0 ELSE f[n - 1] + m(n) * ByteBase^(n - 1)]
<1>0. size \in Nat /\ 0 \in Nat
  OBVIOUS
<1>1. ASSUME NEW n \in 1..size PROVE m(n) \in Nat /\ ByteBase^(n - 1) \in Nat /\ m(n) * ByteBase^(n - 1) \in Nat
  <2>1. p + n - 1 \in 0..(MemorySize - 1)
    <3>1. p + n - 1 \in p..(p + size - 1)
      OBVIOUS
    <3> QED
      BY <3>1
  <2>2. m(n) \in Nat
    BY <2>1, ByteFacts DEF Byte
  <2>3. ByteBase^(n - 1) \in Nat
    BY ByteFacts
  <2> HIDE DEF m
  <2> QED
    BY <2>2, <2>3
<1> HIDE DEF m
<1>2. \A n \in 1..size : \A x \in Nat : G[n][x] = x + m(n) * ByteBase^(n - 1) /\ G[n][x] \in Nat
  BY <1>1
<1> HIDE DEF G
<1>3. Closed(size, Nat, G)
  BY <1>2 DEF Closed
<1>4. PICK f : Stepwise(f, size, Nat, 0, G)
  BY <1>0, <1>3, Recursion
<1>5. Eq(f)
  <2>1. ASSUME NEW n \in 0..size PROVE f[n] = IF n = 0 THEN 0 ELSE f[n - 1] + m(n) * ByteBase^(n - 1)
    <3>1. CASE n = 0
      BY <1>4, <3>1 DEF Stepwise
    <3>2. CASE n # 0
      <4>1. n \in 1..size /\ n - 1 \in 0..size
        BY <1>0, <3>2
      <4> QED
        BY <1>2, <1>4, <3>2, <4>1 DEF Stepwise
    <3> QED
      BY <3>1, <3>2
  <2> QED
    BY <1>4, <2>1 DEF Stepwise
<1> DEFINE sum == CHOOSE g : Eq(g)
<1>6. Eq(sum)
  BY <1>5
<1>7. ValueAt(memory, p, size) = sum[size]
  BY DEF ValueAt, m
<1> HIDE DEF sum
<1>8. \A n \in 0..size : sum[n] = IF n = 0 THEN 0 ELSE sum[n - 1] + m(n) * ByteBase^(n - 1)
  BY <1>6
<1> HIDE DEF Eq
<1>9. sum[0] = 0 /\ sum[1] = m(1)
  <2>1. m(1) \in Nat /\ ByteBase^(1 - 1) = 1
    BY <1>1, ByteFacts
  <2> QED
    BY <1>8, <2>1
<1>10. size \in {2, 4} => sum[2] = m(1) + m(2) * ByteBase
  <2>1. 2 - 1 = 1 /\ ByteBase^1 = ByteBase
    BY ByteFacts
  <2> QED
    BY <1>8, <1>9, <2>1
<1>11. size = 4 => sum[3] = m(1) + m(2) * ByteBase + m(3) * (ByteBase * ByteBase)
  <2>1. 3 - 1 = 2 /\ ByteBase^2 = ByteBase * ByteBase
    BY ByteFacts
  <2> QED
    BY <1>8, <1>10, <2>1
<1>12. size = 4 => sum[4] = m(1) + m(2) * ByteBase + m(3) * (ByteBase * ByteBase)
                            + m(4) * (ByteBase * ByteBase * ByteBase)
  <2>1. 4 - 1 = 3 /\ ByteBase^3 = ByteBase * ByteBase * ByteBase
    BY ByteFacts
  <2> QED
    BY <1>8, <1>11, <2>1
<1>13. m(1) = memory[p] /\ m(2) = memory[p + 1] /\ m(3) = memory[p + 2] /\ m(4) = memory[p + 3]
  <2>1. p + 1 - 1 = p /\ p + 2 - 1 = p + 1 /\ p + 3 - 1 = p + 2 /\ p + 4 - 1 = p + 3
    OBVIOUS
  <2> QED
    BY <2>1 DEF m
<1>14. CASE size = 1
  <2>1. memory[p] \in Nat /\ ByteBase \in Nat
    BY <1>1, <1>13, <1>14, ByteFacts
  <2> QED
    BY <1>7, <1>9, <1>13, <1>14, <2>1 DEF WordOf
<1>15. CASE size = 2
  <2>1. memory[p] \in Nat /\ memory[p + 1] \in Nat /\ ByteBase \in Nat
    BY <1>1, <1>13, <1>15, ByteFacts
  <2> QED
    BY <1>7, <1>10, <1>13, <1>15, <2>1 DEF WordOf
<1>16. CASE size = 4
  BY <1>7, <1>12, <1>13, <1>16 DEF WordOf
<1> QED
  BY <1>14, <1>15, <1>16

-----------------------------------------------------------------------------
(* Decoding.                                                               *)

Coprocessor == {"COP0", "COP1", "COP2", "COP3", "LWC0", "LWC1", "LWC2", "LWC3",
                "SWC0", "SWC1", "SWC2", "SWC3"}

(* The instructions the simulated processor does not have. *)
Illegal == Coprocessor \cup {"BREAK", "CATCHER"}

LEMMA OpEntries ==
    ASSUME NEW name \in DOMAIN OpNumber
    PROVE  opTable[OpNumber[name] + 1] = IF name \in Coprocessor THEN "UNIMP" ELSE name
BY DEF OpNumber, opTable, UNIMP4, RES4, Coprocessor

LEMMA SpecialEntries ==
    ASSUME NEW name \in DOMAIN SpecialNumber
    PROVE  specialTable[SpecialNumber[name] + 1] = IF name = "BREAK" THEN "UNIMP" ELSE name
BY DEF SpecialNumber, specialTable, RES4

LEMMA OpNames ==
    /\ "SPECIAL" \notin DOMAIN OpNumber /\ "BCOND" \notin DOMAIN OpNumber
    /\ "UNIMP" \notin {"SPECIAL", "BCOND"}
    /\ "J" \in DOMAIN OpNumber /\ "JAL" \in DOMAIN OpNumber
    /\ {"BREAK", "CATCHER"} \cap DOMAIN OpNumber = {}
    /\ Coprocessor \subseteq DOMAIN OpNumber
    /\ DOMAIN SpecialNumber \cap (DOMAIN OpNumber \cup {"CATCHER", "J", "JAL"}) = {}
    /\ DOMAIN BcondNumber = {"BLTZ", "BGEZ", "BLTZAL", "BGEZAL"}
    /\ DOMAIN BcondNumber \cap (DOMAIN OpNumber \cup DOMAIN SpecialNumber \cup Illegal) = {}
    /\ "CATCHER" \notin DOMAIN OpNumber \cup DOMAIN SpecialNumber \cup DOMAIN BcondNumber
    /\ opTable[1] = "SPECIAL" /\ opTable[2] = "BCOND" /\ opTable[64] = "RES"
<1>1. opTable[1] = "SPECIAL" /\ opTable[2] = "BCOND" /\ opTable[64] = "RES"
  BY DEF opTable, UNIMP4, RES4
<1>2. DOMAIN BcondNumber = {"BLTZ", "BGEZ", "BLTZAL", "BGEZAL"}
  BY DEF BcondNumber
<1>3. Coprocessor \subseteq DOMAIN OpNumber /\ "J" \in DOMAIN OpNumber /\ "JAL" \in DOMAIN OpNumber
  BY DEF OpNumber, Coprocessor
<1>4. {"SPECIAL", "BCOND", "BREAK", "CATCHER", "BLTZ", "BGEZ", "BLTZAL", "BGEZAL"} \cap DOMAIN OpNumber = {}
  BY DEF OpNumber
<1>5. {"J", "JAL", "CATCHER", "BLTZ", "BGEZ", "BLTZAL", "BGEZAL"} \cap DOMAIN SpecialNumber = {}
  BY DEF SpecialNumber
<1>6. DOMAIN SpecialNumber \cap DOMAIN OpNumber = {}
  BY DEF SpecialNumber, OpNumber
<1>7. {"CATCHER", "BLTZ", "BGEZ", "BLTZAL", "BGEZAL"} \cap Coprocessor = {}
  BY DEF Coprocessor
<1> QED
  BY <1>1, <1>2, <1>3, <1>4, <1>5, <1>6, <1>7 DEF Illegal

(* What becomes of a source instruction. *)
Meaning(s, i) ==
    /\ i.rs = s.rs /\ i.rd = s.rd
    /\ s.name \notin DOMAIN BcondNumber => i.rt = s.rt
    /\ i.opCode \in IF s.name \in Illegal THEN {"UNIMP", "RES"} ELSE {s.name}
    /\ i.extra = IF s.name \in DOMAIN SpecialNumber \cup {"J", "JAL"}
                   THEN s.k ELSE SignExtended(s.k, HalfBits)

LEMMA Decoded ==
    ASSUME NEW s, s.name \in Names
    PROVE  Meaning(s, Decode(Assembled(s)))
<1> DEFINE w == Assembled(s)
           i == Decode(w)
<1>1. CASE s.name \in DOMAIN OpNumber
  <2>1. /\ w.op = OpNumber[s.name] /\ w.rs = s.rs /\ w.rt = s.rt /\ w.rd = s.rd
        /\ w.imm = s.k /\ w.target = s.k
    BY <1>1, OpNames DEF Assembled
  <2> HIDE DEF w
  <2> DEFINE op == opTable[w.op + 1]
  <2>2. op = IF s.name \in Coprocessor THEN "UNIMP" ELSE s.name
    BY <1>1, <2>1, OpEntries
  <2>3. op \notin {"SPECIAL", "BCOND"}
    BY <1>1, <2>2, OpNames
  <2> HIDE DEF op
  <2>4. i.opCode = op /\ i.rs = s.rs /\ i.rt = s.rt /\ i.rd = s.rd
    BY <2>1, <2>3 DEF Decode, op
  <2>5. i.extra = CASE Format(op) = "IFMT" -> SignExtended(s.k, HalfBits)
                    [] Format(op) = "RFMT" -> w.shamt
                    [] Format(op) = "JFMT" -> s.k
    BY <2>1 DEF Decode, op
  <2>6. i.extra = IF s.name \in {"J", "JAL"} THEN s.k ELSE SignExtended(s.k, HalfBits)
    <3>1. s.name \in {"J", "JAL"} <=> op \in {"J", "JAL"}
      BY <2>2 DEF Coprocessor
    <3>2. Format(op) = IF op \in {"J", "JAL"} THEN "JFMT" ELSE "IFMT"
      BY <2>3 DEF Format
    <3> QED
      BY <2>5, <3>1, <3>2
  <2>7. s.name \in Illegal <=> s.name \in Coprocessor
    BY <1>1, OpNames DEF Illegal
  <2> QED
    BY <1>1, <2>2, <2>4, <2>6, <2>7, OpNames DEF Meaning, w
<1>2. CASE s.name \in DOMAIN SpecialNumber
  <2>1. /\ w.op = 0 /\ w.funct = SpecialNumber[s.name] /\ w.rs = s.rs /\ w.rt = s.rt /\ w.rd = s.rd
        /\ w.shamt = s.k
    BY <1>2, OpNames DEF Assembled
  <2> HIDE DEF w
  <2>2. opTable[w.op + 1] = "SPECIAL"
    BY <2>1, OpNames
  <2>3. i.opCode = specialTable[w.funct + 1] /\ i.rs = s.rs /\ i.rt = s.rt /\ i.rd = s.rd /\ i.extra = s.k
    BY <2>1, <2>2 DEF Decode, Format
  <2>4. i.opCode = IF s.name = "BREAK" THEN "UNIMP" ELSE s.name
    BY <1>2, <2>1, <2>3, SpecialEntries
  <2>5. s.name \in Illegal <=> s.name = "BREAK"
    BY <1>2, OpNames DEF Illegal
  <2> QED
    BY <1>2, <2>3, <2>4, <2>5 DEF Meaning, w
<1>3. CASE s.name \in DOMAIN BcondNumber
  <2>1. /\ w.op = 1 /\ w.rt = BcondNumber[s.name] /\ w.rs = s.rs /\ w.rd = s.rd /\ w.imm = s.k
    BY <1>3, OpNames DEF Assembled
  <2> HIDE DEF w
  <2>2. opTable[w.op + 1] = "BCOND"
    BY <2>1, OpNames
  <2>3. i.opCode = BcondOf(w.rt) /\ i.rs = s.rs /\ i.rd = s.rd /\ i.extra = SignExtended(s.k, HalfBits)
    BY <2>1, <2>2 DEF Decode, Format
  <2>4. BcondOf(w.rt) = s.name
    BY <1>3, <2>1, OpNames DEF BcondOf, BcondNumber
  <2>5. s.name \notin Illegal /\ s.name \notin DOMAIN SpecialNumber \cup {"J", "JAL"}
    BY <1>3, OpNames
  <2> QED
    BY <1>3, <2>3, <2>4, <2>5 DEF Meaning, w
<1>4. CASE s.name = "CATCHER"
  <2>1. w.op = 63 /\ w.rs = s.rs /\ w.rt = s.rt /\ w.rd = s.rd /\ w.imm = s.k
    BY <1>4, OpNames DEF Assembled
  <2> HIDE DEF w
  <2>2. opTable[w.op + 1] = "RES"
    BY <2>1, OpNames
  <2>3. i.opCode = "RES" /\ i.rs = s.rs /\ i.rt = s.rt /\ i.rd = s.rd /\ i.extra = SignExtended(s.k, HalfBits)
    BY <2>1, <2>2 DEF Decode, Format
  <2> QED
    BY <1>4, <2>3, OpNames DEF Meaning, w, Illegal
<1> QED
  BY <1>1, <1>2, <1>3, <1>4 DEF Names

-----------------------------------------------------------------------------
(* What an instruction computes.                                           *)

LEMMA RegisterNumbers ==
    /\ GPRegs \subseteq Registers /\ GPRegs \subseteq Nat /\ GPRegs \subseteq Word
    /\ {0, 2, StackReg, RetAddrReg} \subseteq GPRegs
    /\ {HiReg, LoReg, PCReg, NextPCReg, PrevPCReg, LoadReg, LoadValueReg, BadVAddrReg} \subseteq Registers
    /\ GPRegs \cap {HiReg, LoReg, PCReg, NextPCReg, PrevPCReg, LoadReg, LoadValueReg, BadVAddrReg} = {}
    /\ HiReg..PrevPCReg = {HiReg, LoReg, PCReg, NextPCReg, PrevPCReg}
    /\ HiReg # LoReg /\ PCReg \notin {HiReg, LoReg} /\ NextPCReg \notin {HiReg, LoReg, PCReg}
    /\ PrevPCReg \notin {HiReg, LoReg, PCReg, NextPCReg}
    /\ LoadReg \notin {HiReg, LoReg, PCReg, NextPCReg, PrevPCReg}
    /\ LoadValueReg \notin {HiReg, LoReg, PCReg, NextPCReg, PrevPCReg, LoadReg}
    /\ BadVAddrReg \notin {HiReg, LoReg, PCReg, NextPCReg, PrevPCReg, LoadReg, LoadValueReg}
BY MipsAssumption, BaseFacts DEF Registers, StackReg, RetAddrReg, HiReg, LoReg, PCReg, NextPCReg,
     PrevPCReg, LoadReg, LoadValueReg, BadVAddrReg, Word

LEMMA NameSets ==
    /\ ToRd \cup ToHiLo \subseteq DOMAIN SpecialNumber
    /\ {"JR", "JALR", "SYSCALL"} \subseteq DOMAIN SpecialNumber
    /\ ToRt \cup Loads \cup Stores \cup {"BEQ", "BNE", "BLEZ", "BGTZ", "J", "JAL"} \subseteq DOMAIN OpNumber
    /\ (ToRt \cup Loads \cup Stores \cup {"BEQ", "BNE", "BLEZ", "BGTZ"}) \cap {"J", "JAL"} = {}
    /\ (ToRd \cup ToHiLo \cup ToRt \cup Loads \cup Stores) \cap (Illegal \cup {"UNIMP", "RES"}) = {}
    /\ ToRd \cap ToRt = {} /\ (ToRd \cup ToRt) \cap ToHiLo = {}
    /\ (ToRd \cup ToRt \cup ToHiLo) \cap (Loads \cup Stores) = {} /\ Loads \cap Stores = {}
    /\ (ToRd \cup ToRt \cup ToHiLo \cup Loads \cup Stores) \cap
          {"JAL", "BGEZAL", "BLTZAL", "JALR", "J", "JR", "BEQ", "BNE", "BLEZ", "BGTZ", "BLTZ", "BGEZ",
           "SYSCALL"} = {}
    /\ Illegal \cap {"JAL", "BGEZAL", "BLTZAL", "JALR", "J", "JR", "BEQ", "BNE", "BLEZ", "BGTZ",
                     "BLTZ", "BGEZ", "SYSCALL", "UNIMP", "RES"} = {}
<1>1. ToRd \cup ToHiLo \cup {"JR", "JALR", "SYSCALL"} \subseteq DOMAIN SpecialNumber
  BY DEF ToRd, ToHiLo, SpecialNumber
<1>2. ToRt \cup Loads \cup Stores \cup {"BEQ", "BNE", "BLEZ", "BGTZ", "J", "JAL"} \subseteq DOMAIN OpNumber
  BY DEF ToRt, Loads, Stores, OpNumber
<1>3. (ToRd \cup ToHiLo \cup ToRt \cup Loads \cup Stores) \cap (Illegal \cup {"UNIMP", "RES"}) = {}
  BY DEF ToRt, Loads, Stores, ToRd, ToHiLo, Illegal, Coprocessor
<1>4. /\ ToRd \cap ToRt = {} /\ (ToRd \cup ToRt) \cap ToHiLo = {}
      /\ (ToRd \cup ToRt \cup ToHiLo) \cap (Loads \cup Stores) = {} /\ Loads \cap Stores = {}
  BY DEF ToRt, Loads, Stores, ToRd, ToHiLo
<1>5. (ToRd \cup ToRt \cup ToHiLo \cup Loads \cup Stores) \cap
          {"JAL", "BGEZAL", "BLTZAL", "JALR", "J", "JR", "BEQ", "BNE", "BLEZ", "BGTZ", "BLTZ", "BGEZ",
           "SYSCALL"} = {}
  BY DEF ToRt, Loads, Stores, ToRd, ToHiLo
<1>6. Illegal \cap {"JAL", "BGEZAL", "BLTZAL", "JALR", "J", "JR", "BEQ", "BNE", "BLEZ", "BGTZ",
                    "BLTZ", "BGEZ", "SYSCALL", "UNIMP", "RES"} = {}
  BY DEF Illegal, Coprocessor
<1> QED
  BY <1>1, <1>2, <1>3, <1>4, <1>5, <1>6

(* The immediate of an instruction, in the code and by the manual. *)
LEMMA ImmediateValue ==
    ASSUME NEW s, s.k \in 0..(2^HalfBits - 1)
    PROVE  /\ SignExtended(s.k, HalfBits) \in Word
           /\ Immediate(s) \in Int
           /\ SignExtended(s.k, HalfBits) = Immediate(s) \/ SignExtended(s.k, HalfBits) = Immediate(s) + Base
           /\ Signed(SignExtended(s.k, HalfBits)) = Immediate(s)
<1> DEFINE H == 2^HalfBits
           h == 2^(HalfBits - 1)
<1>1. H = ByteBase * ByteBase /\ h = (ByteBase * ByteBase) \div 2 /\ Base = H * H
  BY ByteFacts
<1>2. /\ SignExtended(s.k, HalfBits) = IF s.k >= h THEN s.k + Base - H ELSE s.k
      /\ Immediate(s) = IF s.k >= h THEN s.k - H ELSE s.k
  BY DEF SignExtended, Immediate
<1>3. s.k \in 0..(H - 1) /\ (\/ H = 16 /\ h = 8 /\ Base = 256
                             \/ H = 256 /\ h = 128 /\ Base = 65536
                             \/ H = 65536 /\ h = 32768 /\ Base = 4294967296)
  BY <1>1, WordSizes
<1> HIDE DEF H, h
<1> QED
  BY <1>2, <1>3 DEF Word, Signed

(* The fields of an instruction that is decoded. *)
LEMMA Fields ==
    ASSUME NEW s \in Sources, NEW i, Meaning(s, i)
    PROVE  /\ i.rs = s.rs /\ i.rd = s.rd /\ s.rs \in GPRegs /\ s.rt \in GPRegs /\ s.rd \in GPRegs
           /\ s.name \in Names /\ s.k \in Nat
           /\ s.name \notin Illegal => i.opCode = s.name
           /\ s.name \in Illegal => i.opCode \in {"UNIMP", "RES"}
           /\ i.opCode \in ToRd \cup ToHiLo \cup ToRt \cup Loads \cup Stores => i.opCode = s.name /\ i.rt = s.rt
           /\ s.name \in ToRd \cup ToHiLo \cup ToRt \cup Loads \cup Stores => i.opCode = s.name /\ i.rt = s.rt
           /\ i.opCode \in ToRd => i.extra = s.k /\ s.k \in 0..(WordBits - 1)
           /\ i.opCode \in ToRt \cup Loads \cup Stores => /\ s.k \in 0..(2^HalfBits - 1)
                                                          /\ i.extra = SignExtended(s.k, HalfBits)
                                                          /\ i.extra \in Word
<1>1. /\ s.name \in Names /\ s.rs \in GPRegs /\ s.rt \in GPRegs /\ s.rd \in GPRegs /\ s.k \in Nat
      /\ s.k < CASE s.name \in {"J", "JAL"} -> 2^JumpBits
                 [] s.name \in DOMAIN SpecialNumber -> WordBits
                 [] OTHER -> 2^HalfBits
  BY DEF Sources
<1>2. /\ i.rs = s.rs /\ i.rd = s.rd
      /\ s.name \notin DOMAIN BcondNumber => i.rt = s.rt
      /\ s.name \notin Illegal => i.opCode = s.name
      /\ s.name \in Illegal => i.opCode \in {"UNIMP", "RES"}
      /\ i.extra = IF s.name \in DOMAIN SpecialNumber \cup {"J", "JAL"}
                     THEN s.k ELSE SignExtended(s.k, HalfBits)
  BY DEF Meaning
<1>3. i.opCode \in ToRd \cup ToHiLo \cup ToRt \cup Loads \cup Stores => i.opCode = s.name
  BY <1>2, NameSets
<1>4. s.name \in ToRd \cup ToHiLo \cup ToRt \cup Loads \cup Stores => i.opCode = s.name /\ i.rt = s.rt
  BY <1>2, NameSets, OpNames
<1>5. ASSUME i.opCode \in ToRd PROVE i.extra = s.k /\ s.k \in 0..(WordBits - 1)
  <2>1. s.name \in DOMAIN SpecialNumber /\ s.name \notin {"J", "JAL"}
    BY <1>3, <1>5, NameSets, OpNames
  <2> QED
    BY <1>1, <1>2, <2>1, ByteFacts
<1>6. ASSUME i.opCode \in ToRt \cup Loads \cup Stores
      PROVE  s.k \in 0..(2^HalfBits - 1) /\ i.extra = SignExtended(s.k, HalfBits) /\ i.extra \in Word
  <2>1. s.name \notin DOMAIN SpecialNumber /\ s.name \notin {"J", "JAL"}
    BY <1>3, <1>6, NameSets, OpNames
  <2>2. s.k < 2^HalfBits /\ 2^HalfBits \in Nat
    BY <1>1, <2>1, ByteFacts
  <2>3. s.k \in 0..(2^HalfBits - 1)
    BY <1>1, <2>2
  <2> QED
    BY <1>2, <2>1, <2>3, ImmediateValue
<1> QED
  BY <1>1, <1>2, <1>3, <1>4, <1>5, <1>6

LEMMA FlagInWord == \A c : Flag(c) \in Word
BY BaseFacts DEF Flag, Word

LEMMA RdTyped ==
    ASSUME NEW s \in Sources, NEW i, Meaning(s, i), NEW r \in [Registers -> Word], i.opCode \in ToRd
    PROVE  RdValue(i, r) \in Word
<1> DEFINE a == r[i.rs]
           b == r[i.rt]
           amount == a % WordBits
           k == i.extra
<1>1. a \in Word /\ b \in Word /\ k \in 0..(WordBits - 1) /\ r[HiReg] \in Word /\ r[LoReg] \in Word
  BY Fields, RegisterNumbers
<1>2. a \in Nat /\ b \in Nat /\ k \in 0..32
  BY <1>1, WordsAreNumbers, ByteFacts
<1>3. amount \in 0..32
  BY <1>2, WordSizes
<1>4. AsWord(a + b) \in Word /\ AsWord(a - b) \in Word
  BY <1>2, AsWordInWord
<1>5. And(a, b) \in Word /\ Or(a, b) \in Word /\ Xor(a, b) \in Word
  BY <1>2, LogicalInWord
<1>6. Not(Or(a, b)) \in Word
  BY <1>5, BaseFacts DEF Not, Word
<1>7. /\ ShiftLeft(b, k) \in Word /\ ShiftRight(b, k) \in Word /\ ShiftRightSigned(b, k) \in Word
      /\ ShiftLeft(b, amount) \in Word /\ ShiftRight(b, amount) \in Word
      /\ ShiftRightSigned(b, amount) \in Word
  BY <1>1, <1>2, <1>3, ShiftsInWord
<1>8. RdValue(i, r) =
         CASE i.opCode \in {"ADD", "ADDU"} -> AsWord(a + b)
          [] i.opCode \in {"SUB", "SUBU"} -> AsWord(a - b)
          [] i.opCode = "AND"  -> And(a, b)
          [] i.opCode = "OR"   -> Or(a, b)
          [] i.opCode = "XOR"  -> Xor(a, b)
          [] i.opCode = "NOR"  -> Not(Or(a, b))
          [] i.opCode = "SLT"  -> Flag(Signed(a) < Signed(b))
          [] i.opCode = "SLTU" -> Flag(a < b)
          [] i.opCode = "SLL"  -> ShiftLeft(b, k)
          [] i.opCode = "SLLV" -> ShiftLeft(b, amount)
          [] i.opCode = "SRA"  -> ShiftRightSigned(b, k)
          [] i.opCode = "SRAV" -> ShiftRightSigned(b, amount)
          [] i.opCode = "SRL"  -> ShiftRight(b, k)
          [] i.opCode = "SRLV" -> ShiftRight(b, amount)
          [] i.opCode = "MFHI" -> r[HiReg]
          [] i.opCode = "MFLO" -> r[LoReg]
  BY DEF RdValue
<1> HIDE DEF a, b, amount, k
<1> QED
  BY <1>1, <1>4, <1>5, <1>6, <1>7, <1>8, FlagInWord DEF ToRd

LEMMA RtTyped ==
    ASSUME NEW s \in Sources, NEW i, Meaning(s, i), NEW r \in [Registers -> Word], i.opCode \in ToRt
    PROVE  RtValue(i, r) \in Word
<1> DEFINE a == r[i.rs]
           u == i.extra % 2^HalfBits
           e == i.extra
<1>1. a \in Word /\ e \in Word /\ a \in Nat /\ e \in Nat
  BY Fields, RegisterNumbers, WordsAreNumbers
<1>2. u \in Nat /\ HalfBits \in 0..32
  BY <1>1, WordSizes, ByteFacts
<1>3. AsWord(a + e) \in Word
  BY <1>1, AsWordInWord
<1>4. And(a, u) \in Word /\ Or(a, u) \in Word /\ Xor(a, u) \in Word
  BY <1>1, <1>2, LogicalInWord
<1>5. ShiftLeft(e, HalfBits) \in Word
  BY <1>1, <1>2, ShiftsInWord
<1>6. RtValue(i, r) =
         CASE i.opCode \in {"ADDI", "ADDIU"} -> AsWord(a + e)
          [] i.opCode = "ANDI"  -> And(a, u)
          [] i.opCode = "ORI"   -> Or(a, u)
          [] i.opCode = "XORI"  -> Xor(a, u)
          [] i.opCode = "SLTI"  -> Flag(Signed(a) < Signed(e))
          [] i.opCode = "SLTIU" -> Flag(a < e)
          [] i.opCode = "LUI"   -> ShiftLeft(e, HalfBits)
  BY DEF RtValue
<1> HIDE DEF a, u, e
<1> QED
  BY <1>3, <1>4, <1>5, <1>6, FlagInWord DEF ToRt

LEMMA QuotientInInt ==
    ASSUME NEW a \in Int, NEW b \in Int, b # 0
    PROVE  Quotient(a, b) \in Int
<1> DEFINE x == IF a < 0 THEN -a ELSE a
           y == IF b < 0 THEN -b ELSE b
<1>1. x \in Nat /\ y \in Nat \ {0}
  OBVIOUS
<1>2. Quotient(a, b) = IF (a < 0) = (b < 0) THEN x \div y ELSE -(x \div y)
  BY DEF Quotient
<1> HIDE DEF x, y
<1>3. x \div y \in Int
  BY <1>1
<1> QED
  BY <1>2, <1>3

LEMMA HiLoTyped ==
    ASSUME NEW s \in Sources, NEW i, Meaning(s, i), NEW r \in [Registers -> Word], i.opCode \in ToHiLo
    PROVE  HiLoValue(i, r).hi \in Word /\ HiLoValue(i, r).lo \in Word
<1> DEFINE a == r[i.rs]
           b == r[i.rt]
           same == [hi |-> r[HiReg], lo |-> r[LoReg]]
           divided(x, y) == [hi |-> AsWord(x - y * Quotient(x, y)), lo |-> AsWord(Quotient(x, y))]
<1>1. a \in Word /\ b \in Word /\ r[HiReg] \in Word /\ r[LoReg] \in Word /\ 0 \in Word
  BY Fields, RegisterNumbers, BaseFacts DEF Word
<1>2. a \in Nat /\ b \in Nat /\ Signed(a) \in Int /\ Signed(b) \in Int /\ (b # 0 => Signed(b) # 0)
  BY <1>1, SignedValue, WordSizes DEF Signed, Word
<1>3. ASSUME NEW x \in Int, NEW y \in Int, y # 0
      PROVE  divided(x, y).hi \in Word /\ divided(x, y).lo \in Word
  <2> DEFINE q == Quotient(x, y)
  <2>1. q \in Int
    BY <1>3, QuotientInInt
  <2> HIDE DEF q
  <2>2. x - y * q \in Int
    BY <2>1
  <2>3. AsWord(q) \in Word /\ AsWord(x - y * q) \in Word
    BY <2>1, <2>2, AsWordInWord
  <2> QED
    BY <2>3 DEF q
<1>4. HiLoValue(i, r) =
         CASE i.opCode = "MTHI"  -> [same EXCEPT !.hi = a]
          [] i.opCode = "MTLO"  -> [same EXCEPT !.lo = a]
          [] i.opCode = "MULT"  -> Mult(a, b, TRUE)
          [] i.opCode = "MULTU" -> Mult(a, b, FALSE)
          [] i.opCode \in {"DIV", "DIVU"} /\ b = 0 -> [hi |-> 0, lo |-> 0]
          [] i.opCode = "DIV"  /\ b # 0 -> divided(Signed(a), Signed(b))
          [] i.opCode = "DIVU" /\ b # 0 -> divided(a, b)
  BY DEF HiLoValue
<1>5. CASE i.opCode = "MTHI"
  BY <1>1, <1>4, <1>5
<1>6. CASE i.opCode = "MTLO"
  BY <1>1, <1>4, <1>6
<1>7. CASE i.opCode \in {"MULT", "MULTU"}
  BY <1>1, <1>4, <1>7, MultTyped
<1> HIDE DEF divided, a, b, same
<1>8. CASE i.opCode \in {"DIV", "DIVU"} /\ b = 0
  BY <1>1, <1>4, <1>8
<1>9. CASE i.opCode = "DIV" /\ b # 0
  <2>1. HiLoValue(i, r) = divided(Signed(a), Signed(b))
    BY <1>4, <1>9
  <2> QED
    BY <1>2, <1>3, <1>9, <2>1
<1>10. CASE i.opCode = "DIVU" /\ b # 0
  <2>1. HiLoValue(i, r) = divided(a, b)
    BY <1>4, <1>10
  <2> QED
    BY <1>2, <1>3, <1>10, <2>1
<1> QED
  BY <1>5, <1>6, <1>7, <1>8, <1>9, <1>10 DEF ToHiLo

(* A larger power of two is a multiple of a smaller one. *)
LEMMA PowersDivide ==
    ASSUME NEW n \in 0..32, NEW m \in 0..n
    PROVE  \E q \in Nat \ {0} : 2^n = q * 2^m
<1> DEFINE T == {d \in 0..(n - m) : \E q \in Nat \ {0} : 2^(m + d) = q * 2^m}
<1>a. n - m \in Nat /\ m \in 0..32
  OBVIOUS
<1>0. n - m \in Nat /\ m \in 0..32 /\ 2^m \in Nat
  BY <1>a, Powers
<1>1. 0 \in T
  <2>1. 2^(m + 0) = 1 * 2^m /\ 1 \in Nat \ {0} /\ 0 \in 0..(n - m)
    BY <1>0
  <2>2. \E q \in Nat \ {0} : 2^(m + 0) = q * 2^m
    BY <2>1
  <2> QED
    BY <2>1, <2>2
<1>2. ASSUME NEW d \in 1..(n - m), d - 1 \in T PROVE d \in T
  <2>1. PICK q \in Nat \ {0} : 2^(m + (d - 1)) = q * 2^m
    BY <1>2
  <2>2. m + d \in 1..32 /\ (m + d) - 1 = m + (d - 1) /\ d \in 0..(n - m)
    BY <1>0
  <2>3. 2^(m + d) = 2 * 2^(m + (d - 1))
    BY <2>2, Powers
  <2>4. 2^(m + d) = (2 * q) * 2^m /\ 2 * q \in Nat \ {0}
    BY <1>0, <2>1, <2>3
  <2>5. \E p \in Nat \ {0} : 2^(m + d) = p * 2^m
    BY <2>4
  <2> QED
    BY <2>2, <2>5
<1> HIDE DEF T
<1>3. \A d \in 0..(n - m) : d \in T
  BY <1>0, <1>1, <1>2, UpTo
<1>4. n - m \in T /\ m + (n - m) = n
  BY <1>0, <1>3
<1> QED
  BY <1>4 DEF T

(* A jump stays in the words. *)
LEMMA JumpInWord ==
    ASSUME NEW next \in Word, NEW k \in 0..(2^JumpBits - 1)
    PROVE  (next - (next % 2^(JumpBits + 2))) + 4 * k \in Word
<1> DEFINE P == 2^(JumpBits + 2)
           J == 2^JumpBits
           m == next % P
           d == next \div P
<1>1. JumpBits \in 0..30 /\ JumpBits + 2 \in 0..WordBits /\ WordBits \in 0..32 /\ 2^WordBits = Base
  BY MipsAssumption, ByteFacts
<1>2. PICK q \in Nat \ {0} : Base = q * P
  BY <1>1, PowersDivide
<1>3. P = 4 * J /\ J \in Nat \ {0} /\ P \in Nat \ {0}
  <2>1. JumpBits + 1 \in 1..32 /\ JumpBits + 2 \in 1..32 /\ (JumpBits + 1) - 1 = JumpBits
        /\ (JumpBits + 2) - 1 = JumpBits + 1 /\ JumpBits \in 0..32
    BY <1>1
  <2>2. 2^(JumpBits + 1) = 2 * 2^JumpBits /\ 2^(JumpBits + 2) = 2 * 2^(JumpBits + 1) /\ J \in Nat \ {0}
    BY <2>1, Powers
  <2> QED
    BY <2>2
<1>4. next \in Nat /\ next < Base /\ k \in Nat /\ k <= J - 1
  BY WordsAreNumbers, <1>3, BaseFacts DEF Word
<1> HIDE DEF P, J
<1>b. next \in Int /\ P \in Nat \ {0}
  BY <1>3, <1>4
<1>5. d \in Int /\ m \in 0..(P - 1) /\ next = d * P + m
  BY <1>b, Division
<1> HIDE DEF d, m
<1>6. d < q
  <2> SUFFICES ASSUME q <= d PROVE FALSE
    BY <1>2, <1>5
  <2>1. d - q \in Nat
    BY <1>2, <1>5
  <2>2. (d - q) * P >= 0 /\ (d - q) * P = d * P - q * P
    BY <1>2, <1>3, <1>5, <2>1
  <2> QED
    BY <1>2, <1>3, <1>4, <1>5, <2>2
<1>7. d * P + P <= q * P
  BY <1>2, <1>3, <1>5, <1>6, NextMultiple
<1>8. d * P \in Nat
  <2>1. d >= 0
    <3> SUFFICES ASSUME d < 0 PROVE FALSE
      BY <1>5
    <3>1. d * P + P <= 0 * P
      BY <1>3, <1>5, NextMultiple
    <3> QED
      BY <1>3, <1>4, <1>5, <3>1
  <2> QED
    BY <1>3, <1>5, <2>1
<1>9. (next - m) + 4 * k \in 0..(Base - 1)
  <2>1. next - m = d * P
    BY <1>5, <1>8
  <2> QED
    BY <1>2, <1>3, <1>4, <1>7, <1>8, <2>1
<1> QED
  BY <1>9 DEF Word, P, m

LEMMA TargetField ==
    ASSUME NEW s \in Sources, NEW i, Meaning(s, i)
    PROVE  /\ s.name \in {"J", "JAL"} => s.k \in 0..(2^JumpBits - 1)
           /\ i.opCode \in {"J", "JAL"} <=> s.name \in {"J", "JAL"}
           /\ i.opCode \in {"J", "JAL"} => i.extra = s.k
           /\ s.name \notin DOMAIN SpecialNumber \cup {"J", "JAL"} =>
                 s.k \in 0..(2^HalfBits - 1) /\ i.extra = SignExtended(s.k, HalfBits)
<1>a. JumpBits \in 0..32 /\ HalfBits \in 0..32
  BY MipsAssumption, ByteFacts
<1>1. 2^JumpBits \in Nat /\ 2^HalfBits \in Nat
  BY <1>a, Powers
<1>2. /\ s.k \in Nat
      /\ s.k < CASE s.name \in {"J", "JAL"} -> 2^JumpBits
                 [] s.name \in DOMAIN SpecialNumber -> WordBits
                 [] OTHER -> 2^HalfBits
  BY DEF Sources
<1>3. i.opCode \in {"J", "JAL"} <=> s.name \in {"J", "JAL"}
  BY OpNames, NameSets DEF Meaning
<1>4. s.name \in {"J", "JAL"} => s.k < 2^JumpBits
  BY <1>2, OpNames
<1>5. s.name \notin DOMAIN SpecialNumber \cup {"J", "JAL"} => s.k < 2^HalfBits
  BY <1>2
<1>6. ASSUME NEW n \in Nat, s.k < n PROVE s.k \in 0..(n - 1)
  BY <1>2, <1>6
<1> QED
  BY <1>1, <1>3, <1>4, <1>5, <1>6 DEF Meaning

LEMMA ComputedTyped ==
    ASSUME NEW s \in Sources, NEW i, Meaning(s, i), NEW r \in [Registers -> Word]
    PROVE  /\ Computed(i, r) \in [Registers -> Word]
           /\ \A g \in {PCReg, NextPCReg, PrevPCReg, LoadReg, LoadValueReg, BadVAddrReg} : Computed(i, r)[g] = r[g]
<1>a. r[NextPCReg] \in Nat
  BY RegisterNumbers, WordsAreNumbers
<1>1. AsWord(r[NextPCReg] + 4) \in Word
  BY <1>a, AsWordInWord
<1>2. i.rd \in GPRegs /\ s.rt \in GPRegs /\ RetAddrReg \in GPRegs
  BY Fields, RegisterNumbers
<1> DEFINE Kept(f) == \A g \in {PCReg, NextPCReg, PrevPCReg, LoadReg, LoadValueReg, BadVAddrReg} : f[g] = r[g]
<1>b. ASSUME NEW g \in GPRegs, NEW w \in Word
      PROVE  [r EXCEPT ![g] = w] \in [Registers -> Word] /\ Kept([r EXCEPT ![g] = w])
  BY RegisterNumbers
<1>3. CASE i.opCode \in ToRd
  <2>1. Computed(i, r) = [r EXCEPT ![i.rd] = RdValue(i, r)]
    BY <1>3, NameSets DEF Computed
  <2> QED
    BY <1>2, <1>3, <1>b, <2>1, RdTyped
<1>4. CASE i.opCode \in ToRt
  <2>1. Computed(i, r) = [r EXCEPT ![i.rt] = RtValue(i, r)] /\ i.rt \in GPRegs
    BY <1>4, NameSets, Fields DEF Computed
  <2> QED
    BY <1>4, <1>b, <2>1, RtTyped
<1>5. CASE i.opCode \in ToHiLo
  <2>1. Computed(i, r) = [r EXCEPT ![HiReg] = HiLoValue(i, r).hi, ![LoReg] = HiLoValue(i, r).lo]
    BY <1>5, NameSets DEF Computed
  <2> DEFINE h == HiLoValue(i, r).hi
             l == HiLoValue(i, r).lo
  <2>2. h \in Word /\ l \in Word
    BY <1>5, HiLoTyped
  <2>3. Computed(i, r) = [r EXCEPT ![HiReg] = h, ![LoReg] = l]
    BY <2>1
  <2> HIDE DEF h, l
  <2>4. Computed(i, r) \in [Registers -> Word]
    BY <2>2, <2>3
  <2>5. ASSUME NEW g \in Registers, g # HiReg, g # LoReg PROVE Computed(i, r)[g] = r[g]
    BY <2>3, <2>5
  <2> QED
    BY <2>4, <2>5, RegisterNumbers
<1>6. CASE i.opCode \in {"JAL", "BGEZAL", "BLTZAL"}
  <2>1. Computed(i, r) = [r EXCEPT ![RetAddrReg] = AsWord(r[NextPCReg] + 4)]
    BY <1>6, NameSets DEF Computed
  <2> QED
    BY <1>1, <1>2, <1>b, <2>1
<1>7. CASE i.opCode = "JALR"
  <2>1. Computed(i, r) = [r EXCEPT ![i.rd] = AsWord(r[NextPCReg] + 4)]
    BY <1>7, NameSets DEF Computed
  <2> QED
    BY <1>1, <1>2, <1>b, <2>1
<1>8. CASE i.opCode \notin ToRd \cup ToRt \cup ToHiLo \cup {"JAL", "BGEZAL", "BLTZAL", "JALR"}
  <2>1. Computed(i, r) = r
    BY <1>8 DEF Computed
  <2> QED
    BY <2>1
<1> QED
  BY <1>3, <1>4, <1>5, <1>6, <1>7, <1>8

LEMMA PcAfterTyped ==
    ASSUME NEW s \in Sources, NEW i, Meaning(s, i), NEW r \in [Registers -> Word]
    PROVE  PcAfter(i, r) \in Word
<1> DEFINE next == AsWord(r[NextPCReg] + 4)
<1>a. r[NextPCReg] \in Nat /\ i.rs \in GPRegs
  BY Fields, RegisterNumbers, WordsAreNumbers
<1>b. next \in Word
  BY <1>a, AsWordInWord
<1>1. r[NextPCReg] \in Nat /\ next \in Word /\ r[i.rs] \in Word
  BY <1>a, <1>b, RegisterNumbers
<1>2. Taken(i, r) => AsWord(r[NextPCReg] + 4 * i.extra) \in Word
  <2> SUFFICES ASSUME Taken(i, r) PROVE AsWord(r[NextPCReg] + 4 * i.extra) \in Word
    OBVIOUS
  <2>1. i.opCode \in {"BEQ", "BNE", "BGEZ", "BGEZAL", "BLTZ", "BLTZAL", "BGTZ", "BLEZ"}
    BY DEF Taken
  <2>2. s.name \notin Illegal /\ s.name = i.opCode
    BY <2>1, NameSets, OpNames DEF Meaning
  <2>3. s.name \notin DOMAIN SpecialNumber \cup {"J", "JAL"}
    BY <2>1, <2>2, OpNames, NameSets
  <2>4. i.extra \in Word
    BY <2>3, TargetField, ImmediateValue
  <2>5. r[NextPCReg] + 4 * i.extra \in Int
    BY <1>1, <2>4, WordsAreNumbers
  <2> QED
    BY <2>5, AsWordInWord
<1>3. i.opCode \in {"J", "JAL"} => (next - (next % 2^(JumpBits + 2))) + 4 * i.extra \in Word
  BY <1>1, TargetField, JumpInWord
<1> HIDE DEF next
<1>5. CASE Taken(i, r)
  <2>1. i.opCode \in {"BEQ", "BNE", "BGEZ", "BGEZAL", "BLTZ", "BLTZAL", "BGTZ", "BLEZ"}
    BY <1>5 DEF Taken
  <2>2. PcAfter(i, r) = AsWord(r[NextPCReg] + 4 * i.extra)
    BY <1>5, <2>1 DEF PcAfter
  <2> QED
    BY <1>2, <1>5, <2>2
<1>6. CASE i.opCode \in {"J", "JAL"} /\ ~Taken(i, r)
  <2>1. PcAfter(i, r) = (next - (next % 2^(JumpBits + 2))) + 4 * i.extra
    BY <1>6 DEF PcAfter, next
  <2> QED
    BY <1>3, <1>6, <2>1
<1>7. CASE i.opCode \notin {"J", "JAL"} /\ ~Taken(i, r)
  <2>1. PcAfter(i, r) \in {r[i.rs], next}
    BY <1>7 DEF PcAfter, next
  <2> QED
    BY <1>1, <2>1
<1> QED
  BY <1>5, <1>6, <1>7

-----------------------------------------------------------------------------
(* Addresses and the page table.                                           *)

(* The page table of n pages, one to one, where the pages of the set dirty *)
(* have been written.                                                      *)
TableOf(n, dirty) ==
    [v \in 0..(n - 1) |-> [physicalPage |-> v, valid |-> v # 0, readOnly |-> FALSE,
                           use |-> v # 0, dirty |-> v \in dirty]]

LEMMA Wraps == \A n \in Int : AsWord(n + Base) = AsWord(n)
<1> SUFFICES ASSUME NEW n \in Int PROVE (n + Base) % Base = n % Base
  BY DEF AsWord
<1> DEFINE q == n \div Base
           m == n % Base
<1>1. Base \in Nat \ {0}
  BY BaseFacts
<1>2. q \in Int /\ m \in 0..(Base - 1) /\ n = q * Base + m
  BY <1>1, Division
<1> HIDE DEF q, m
<1>3. n + Base = (q + 1) * Base + m /\ q + 1 \in Int
  BY <1>1, <1>2
<1>4. (n + Base) % Base = m
  BY <1>1, <1>2, <1>3, QuotientIsUnique
<1> QED
  BY <1>4 DEF m

LEMMA EffectiveAddress ==
    ASSUME NEW s \in Sources, NEW i, Meaning(s, i), NEW r \in [Registers -> Word],
           i.opCode \in Loads \cup Stores
    PROVE  Effective(i, r) = Address(s, r) /\ Address(s, r) \in Word /\ i.opCode = s.name
<1>1. i.opCode = s.name /\ i.rs = s.rs /\ s.rs \in GPRegs /\ s.k \in 0..(2^HalfBits - 1)
      /\ i.extra = SignExtended(s.k, HalfBits)
  BY Fields
<1>2. Immediate(s) \in Int /\ (i.extra = Immediate(s) \/ i.extra = Immediate(s) + Base)
  BY <1>1, ImmediateValue
<1>a. r[s.rs] \in Word
  BY <1>1, RegisterNumbers
<1>3. r[s.rs] \in Int /\ Base \in Int
  BY <1>a, WordsAreNumbers, BaseFacts
<1> DEFINE n == r[s.rs] + Immediate(s)
<1>4. n \in Int /\ (r[s.rs] + i.extra = n \/ r[s.rs] + i.extra = n + Base)
  BY <1>2, <1>3
<1> HIDE DEF n
<1>5. AsWord(r[s.rs] + i.extra) = AsWord(n) /\ AsWord(n) \in Word
  BY <1>4, Wraps, AsWordInWord
<1> QED
  BY <1>1, <1>5 DEF Effective, Address, n

(* The bytes of an access lie together, in one page. *)
LEMMA SamePage ==
    ASSUME NEW a \in Nat, NEW size \in 1..4, (a % 4) + size <= 4, NEW b \in a..(a + size - 1)
    PROVE  b \div PageSize = a \div PageSize
<1> DEFINE m == PageSize \div 4
           v == a \div PageSize
           o == a % PageSize
           c == o \div 4
           e == o % 4
<1>1. PageSize \in Nat \ {0} /\ PageSize = 4 * m /\ m \in Nat \ {0}
  BY TranslationAssumption
<1>2. a \in Int /\ 4 \in Nat \ {0}
  OBVIOUS
<1>3. v \in Int /\ o \in 0..(PageSize - 1) /\ a = v * PageSize + o
  BY <1>1, <1>2, Division
<1> HIDE DEF m, v, o
<1>4. c \in Int /\ e \in 0..3 /\ o = 4 * c + e
  BY <1>3
<1> HIDE DEF c, e
<1>5. v * m + c \in Int /\ (v * m + c) * 4 + e = a
  BY <1>1, <1>3, <1>4
<1>6. a % 4 = e
  <2>1. e \in 0..(4 - 1)
    BY <1>4
  <2> QED
    BY <1>2, <1>5, <2>1, QuotientIsUnique
<1>7. o + size <= PageSize
  BY <1>1, <1>3, <1>4, <1>6
<1>8. b = v * PageSize + (o + (b - a)) /\ o + (b - a) \in 0..(PageSize - 1)
  BY <1>1, <1>3, <1>7
<1>9. (v * PageSize + (o + (b - a))) \div PageSize = v
  BY <1>1, <1>3, <1>8, QuotientIsUnique
<1> QED
  BY <1>8, <1>9 DEF v

LEMMA MappedAddress ==
    ASSUME NEW a \in Nat, NEW n \in Nat
    PROVE  /\ a \div PageSize \in Nat
           /\ a \div PageSize < n <=> a < n * PageSize
           /\ a \div PageSize > 0 <=> a >= PageSize
<1> DEFINE v == a \div PageSize
           o == a % PageSize
<1>1. PageSize \in Nat \ {0} /\ a \in Int
  BY TranslationAssumption
<1>2. v \in Int /\ o \in 0..(PageSize - 1) /\ a = v * PageSize + o
  BY <1>1, Division
<1> HIDE DEF v, o
<1>3. ASSUME NEW k \in Nat PROVE v < k <=> a < k * PageSize
  <2>1. ASSUME v < k PROVE a < k * PageSize
    <3>1. v * PageSize + PageSize <= k * PageSize
      BY <1>1, <1>2, <2>1, NextMultiple
    <3> QED
      BY <1>1, <1>2, <3>1
  <2>2. ASSUME k <= v PROVE k * PageSize <= a
    <3>1. v - k \in Nat
      BY <1>2, <2>2
    <3>2. (v - k) * PageSize >= 0 /\ (v - k) * PageSize = v * PageSize - k * PageSize
      BY <1>1, <1>2, <3>1
    <3> QED
      BY <1>1, <1>2, <3>2
  <2>3. k * PageSize \in Int
    BY <1>1
  <2> QED
    BY <1>1, <1>2, <2>1, <2>2, <2>3
<1>4. ~(v < 0)
  BY <1>1, <1>2, <1>3
<1>5. v < 1 <=> a < PageSize
  <2>1. 1 * PageSize = PageSize
    BY <1>1
  <2> QED
    BY <1>3, <2>1
<1> QED
  BY <1>1, <1>2, <1>3, <1>4, <1>5 DEF v

LEMMA TableFault ==
    ASSUME NEW n \in 1..NumPhysPages, NEW dirty, NEW a \in Nat, NEW size, NEW writing \in BOOLEAN
    PROVE  Fault(TableOf(n, dirty), a, size, writing) =
              IF Misaligned(a, size) \/ a \div PageSize >= n THEN "AddressError"
              ELSE IF a \div PageSize = 0 THEN "PageFault" ELSE "None"
<1> DEFINE v == a \div PageSize
           t == TableOf(n, dirty)
<1>1. v \in Nat /\ n \in Nat
  BY MappedAddress, TranslationAssumption
<1>2. (v \in DOMAIN t <=> v < n)
  BY <1>1 DEF TableOf
<1>3. v < n => t[v].valid = (v # 0) /\ t[v].readOnly = FALSE /\ t[v].physicalPage = v /\ v < NumPhysPages
  BY <1>1, TranslationAssumption DEF TableOf
<1>4. Fault(t, a, size, writing) =
         CASE Misaligned(a, size) -> "AddressError"
           [] ~Misaligned(a, size) /\ v \notin DOMAIN t -> "AddressError"
           [] OTHER ->
                CASE ~t[v].valid -> "PageFault"
                  [] t[v].valid /\ t[v].readOnly /\ writing -> "ReadOnly"
                  [] OTHER -> IF t[v].physicalPage >= NumPhysPages THEN "BusError" ELSE "None"
  BY DEF Fault
<1> HIDE DEF v, t
<1>5. CASE Misaligned(a, size)
  BY <1>4, <1>5 DEF v, t
<1>6. CASE ~Misaligned(a, size) /\ v >= n
  BY <1>1, <1>2, <1>4, <1>6 DEF v, t
<1>7. CASE ~Misaligned(a, size) /\ v < n
  <2>1. v \in DOMAIN t /\ t[v].valid = (v # 0) /\ t[v].readOnly = FALSE /\ ~(t[v].physicalPage >= NumPhysPages)
    BY <1>1, <1>2, <1>3, <1>7, TranslationAssumption
  <2>2. Fault(t, a, size, writing) = IF v = 0 THEN "PageFault" ELSE "None"
    BY <1>4, <1>7, <2>1
  <2> QED
    BY <1>1, <1>7, <2>2 DEF v, t
<1> QED
  BY <1>1, <1>5, <1>6, <1>7

LEMMA TableAddress ==
    ASSUME NEW n \in 1..NumPhysPages, NEW dirty, NEW a \in Nat, a \div PageSize < n
    PROVE  PhysAddr(TableOf(n, dirty), a) = a
<1>1. PageSize \in Nat \ {0} /\ a \in Int /\ n \in Nat
  BY TranslationAssumption
<1>2. a \div PageSize \in 0..(n - 1)
  BY <1>1, MappedAddress
<1>3. TableOf(n, dirty)[a \div PageSize].physicalPage = a \div PageSize
  BY <1>2 DEF TableOf
<1>4. a = (a \div PageSize) * PageSize + (a % PageSize)
  BY <1>1, Division
<1> QED
  BY <1>3, <1>4 DEF PhysAddr

LEMMA TableTouched ==
    ASSUME NEW n \in 1..NumPhysPages, NEW dirty, NEW a \in Nat, NEW writing \in BOOLEAN,
           a \div PageSize < n, a \div PageSize > 0
    PROVE  Touched(TableOf(n, dirty), a, writing) =
              TableOf(n, IF writing THEN dirty \cup {a \div PageSize} ELSE dirty)
<1> DEFINE v == a \div PageSize
           t == TableOf(n, dirty)
           D == IF writing THEN dirty \cup {v} ELSE dirty
<1>1. v \in 0..(n - 1) /\ v # 0
  BY MappedAddress, TranslationAssumption
<1> HIDE DEF v
<1>2. t[v] = [physicalPage |-> v, valid |-> TRUE, readOnly |-> FALSE, use |-> TRUE, dirty |-> v \in dirty]
  BY <1>1 DEF TableOf
<1> DEFINE d == v \in dirty
           e == v \in D
           new == [physicalPage |-> v, valid |-> TRUE, readOnly |-> FALSE, use |-> TRUE, dirty |-> e]
<1>3. [t[v] EXCEPT !.use = TRUE, !.dirty = @ \/ writing] = new
  <2>1. d \in BOOLEAN /\ e \in BOOLEAN /\ (d \/ writing) = e
    OBVIOUS
  <2>2. t[v] = [physicalPage |-> v, valid |-> TRUE, readOnly |-> FALSE, use |-> TRUE, dirty |-> d]
    BY <1>2
  <2> HIDE DEF d, e, t
  <2>3. (t[v].dirty \/ writing) = e
    BY <2>1, <2>2
  <2>4. [t[v] EXCEPT !.use = TRUE, !.dirty = @ \/ writing] = [t[v] EXCEPT !.use = TRUE, !.dirty = e]
    BY <2>3, Zenon
  <2>5. [t[v] EXCEPT !.use = TRUE, !.dirty = e] = new
    <3> DEFINE yes == TRUE
               no == FALSE
               entry == t[v]
    <3>1. entry = [physicalPage |-> v, valid |-> yes, readOnly |-> no, use |-> yes, dirty |-> d]
      BY <2>2
    <3> HIDE DEF yes, no, entry
    <3> DEFINE used == [entry EXCEPT !.use = yes]
    <3>2. [entry EXCEPT !.use = yes, !.dirty = e] = [used EXCEPT !.dirty = e]
      OBVIOUS
    <3>3. used = [physicalPage |-> v, valid |-> yes, readOnly |-> no, use |-> yes, dirty |-> d]
      BY <3>1
    <3> HIDE DEF used
    <3>4. [used EXCEPT !.dirty = e]
             = [physicalPage |-> v, valid |-> yes, readOnly |-> no, use |-> yes, dirty |-> e]
      BY <3>3
    <3>5. [entry EXCEPT !.use = yes, !.dirty = e]
             = [physicalPage |-> v, valid |-> yes, readOnly |-> no, use |-> yes, dirty |-> e]
      BY <3>2, <3>4, Zenon
    <3> QED
      BY <3>5, Zenon DEF yes, no, entry
  <2> QED
    BY <2>4, <2>5
<1>4. Touched(t, a, writing) = [t EXCEPT ![v] = [t[v] EXCEPT !.use = TRUE, !.dirty = @ \/ writing]]
  BY <1>1 DEF Touched, v, TableOf
<1>5. TableOf(n, D) = [t EXCEPT ![v] = new]
  <2>1. ASSUME NEW x \in 0..(n - 1) PROVE TableOf(n, D)[x] = [t EXCEPT ![v] = new][x]
    <3>1. CASE x = v
      <4>1. TableOf(n, D)[v] = new
        BY <1>1 DEF TableOf
      <4>2. [t EXCEPT ![v] = new][v] = new
        BY <1>1 DEF TableOf
      <4> QED
        BY <3>1, <4>1, <4>2
    <3>2. CASE x # v
      <4>1. (x \in D) = (x \in dirty)
        BY <3>2
      <4>2. TableOf(n, D)[x] = t[x]
        BY <4>1 DEF TableOf
      <4>3. [t EXCEPT ![v] = new][x] = t[x]
        BY <3>2 DEF TableOf
      <4> QED
        BY <4>2, <4>3
    <3> QED
      BY <3>1, <3>2
  <2> QED
    BY <2>1 DEF TableOf
<1> QED
  BY <1>3, <1>4, <1>5 DEF v

(* The bytes that are named and the bytes that are accessed. *)
LEMMA AccessGeometry ==
    ASSUME NEW s \in Sources, NEW i, Meaning(s, i), NEW r \in [Registers -> Word],
           i.opCode \in Loads \cup Stores
    PROVE  /\ Accessed(i, r) \in Word /\ Accessed(i, r) \in Nat /\ Size(i.opCode) \in {1, 2, 4}
           /\ Aligned(s, r) <=> ~Misaligned(Accessed(i, r), Size(i.opCode))
           /\ Named(s, r) \in SUBSET Nat /\ Named(s, r) # {}
           /\ Aligned(s, r) => /\ (Accessed(i, r) % 4) + Size(i.opCode) <= 4
                               /\ Named(s, r) \subseteq Accessed(i, r)..(Accessed(i, r) + Size(i.opCode) - 1)
<1> DEFINE a == Address(s, r)
           op == s.name
           word == a - (a % 4)
<1>1. Effective(i, r) = a /\ a \in Word /\ a \in Nat /\ i.opCode = op /\ op \in Loads \cup Stores
  BY EffectiveAddress, WordsAreNumbers
<1>2. Accessed(i, r) = IF op \in Partial THEN word ELSE a
  BY <1>1 DEF Accessed
<1>3. Named(s, r) = CASE op \in {"LB", "LBU", "SB"} -> {a}
                      [] op \in {"LH", "LHU", "SH"} -> {a, a + 1}
                      [] op \in {"LW", "SW"}        -> a..(a + 3)
                      [] op \in {"LWL", "SWL"}      -> word..a
                      [] op \in {"LWR", "SWR"}      -> a..(word + 3)
                      [] OTHER                      -> {}
  BY DEF Named
<1>4. Aligned(s, r) = CASE op \in {"LH", "LHU", "SH"} -> a % 2 = 0
                        [] op \in {"LW", "SW"} -> a % 4 = 0
                        [] OTHER -> TRUE
  BY DEF Aligned
<1>5. \A n \in {1, 2, 4}, b \in Nat : Misaligned(b, n) <=> (n = 4 /\ b % 4 # 0) \/ (n = 2 /\ b % 2 # 0)
  BY DEF Misaligned
<1>6. /\ word \in Nat /\ word % 4 = 0 /\ word <= a /\ a <= word + 3 /\ a % 4 \in 0..3
      /\ (a % 2 = 0 => a % 4 \in {0, 2})
  BY <1>1
<1>7. word \in Word
  BY <1>1, <1>6, BaseFacts DEF Word
<1> HIDE DEF a, word, op
<1>8. CASE op \in {"LB", "LBU", "SB"}
  <2>1. Accessed(i, r) = a /\ Size(i.opCode) = 1 /\ Named(s, r) = {a} /\ Aligned(s, r) = TRUE
    BY <1>1, <1>2, <1>3, <1>4, <1>8 DEF Size, Partial
  <2> QED
    BY <1>1, <1>5, <1>6, <2>1
<1>9. CASE op \in {"LH", "LHU", "SH"}
  <2>1. Accessed(i, r) = a /\ Size(i.opCode) = 2 /\ Named(s, r) = {a, a + 1} /\ Aligned(s, r) = (a % 2 = 0)
    BY <1>1, <1>2, <1>3, <1>4, <1>9 DEF Size, Partial
  <2>2. Misaligned(a, 2) <=> a % 2 # 0
    BY <1>1, <1>5
  <2>3. {a, a + 1} \in SUBSET Nat /\ {a, a + 1} # {} /\ {a, a + 1} \subseteq a..(a + 2 - 1)
    BY <1>1
  <2>4. a % 2 = 0 => (a % 4) + 2 <= 4
    BY <1>6
  <2> QED
    BY <1>1, <2>1, <2>2, <2>3, <2>4
<1>10. CASE op \in {"LW", "SW"}
  <2>1. Accessed(i, r) = a /\ Size(i.opCode) = 4 /\ Named(s, r) = a..(a + 3) /\ Aligned(s, r) = (a % 4 = 0)
    BY <1>1, <1>2, <1>3, <1>4, <1>10 DEF Size, Partial
  <2>2. Misaligned(a, 4) <=> a % 4 # 0
    BY <1>1, <1>5
  <2>3. a..(a + 3) \in SUBSET Nat /\ a..(a + 3) # {} /\ a..(a + 3) \subseteq a..(a + 4 - 1)
    BY <1>1
  <2>4. a % 4 = 0 => (a % 4) + 4 <= 4
    BY <1>6
  <2> QED
    BY <1>1, <2>1, <2>2, <2>3, <2>4
<1>11. CASE op \in {"LWL", "SWL", "LWR", "SWR"}
  <2>1. /\ Accessed(i, r) = word /\ Size(i.opCode) = 4 /\ Aligned(s, r) = TRUE
        /\ Named(s, r) = word..a \/ Named(s, r) = a..(word + 3)
    BY <1>1, <1>2, <1>3, <1>4, <1>11 DEF Size, Partial
  <2>2. ~Misaligned(word, 4)
    BY <1>5, <1>6
  <2>3. /\ Named(s, r) \in SUBSET Nat /\ Named(s, r) \subseteq word..(word + 4 - 1)
    BY <1>1, <1>6, <2>1
  <2>4. a \in Named(s, r)
    BY <1>1, <1>6, <2>1
  <2>5. (word % 4) + 4 <= 4
    BY <1>6
  <2> QED
    BY <1>6, <1>7, <2>1, <2>2, <2>3, <2>4, <2>5
<1> QED
  BY <1>1, <1>8, <1>9, <1>10, <1>11 DEF Loads, Stores

(* An access goes through exactly when its bytes are aligned addresses of  *)
(* the pages from 1 to n - 1.                                              *)
LEMMA AccessAllowed ==
    ASSUME NEW s \in Sources, NEW i, Meaning(s, i), NEW r \in [Registers -> Word],
           i.opCode \in Loads \cup Stores,
           NEW n \in 1..NumPhysPages, NEW dirty, NEW writing \in BOOLEAN,
           NEW fault, fault = Fault(TableOf(n, dirty), Accessed(i, r), Size(i.opCode), writing)
    PROVE  /\ fault \in {"None", "AddressError", "PageFault"}
           /\ fault = "None" <=> Aligned(s, r) /\ \A b \in Named(s, r) : b \in PageSize..(n * PageSize - 1)
           /\ fault = "None" =>
                 /\ Accessed(i, r) \div PageSize < n /\ Accessed(i, r) \div PageSize > 0
                 /\ {b \div PageSize : b \in Named(s, r)} = {Accessed(i, r) \div PageSize}
                 /\ Accessed(i, r)..(Accessed(i, r) + Size(i.opCode) - 1) \subseteq 0..(MemorySize - 1)
<1> DEFINE a == Accessed(i, r)
           size == Size(i.opCode)
           v == a \div PageSize
           N == Named(s, r)
<1>1. /\ a \in Nat /\ size \in {1, 2, 4} /\ N \in SUBSET Nat /\ N # {}
      /\ Aligned(s, r) <=> ~Misaligned(a, size)
      /\ Aligned(s, r) => (a % 4) + size <= 4 /\ N \subseteq a..(a + size - 1)
  BY AccessGeometry
<1>2. v \in Nat /\ n \in Nat /\ PageSize \in Nat \ {0}
  BY <1>1, MappedAddress, TranslationAssumption
<1>3. fault = IF Misaligned(a, size) \/ v >= n THEN "AddressError" ELSE IF v = 0 THEN "PageFault" ELSE "None"
  BY <1>1, TableFault
<1> HIDE DEF a, size, v, N
<1>4. fault = "None" <=> Aligned(s, r) /\ v < n /\ v > 0
  BY <1>1, <1>2, <1>3
<1>5. Aligned(s, r) => \A b \in a..(a + size - 1) : b \in Nat /\ b \div PageSize = v
  BY <1>1, SamePage DEF v
<1>6. \A b \in Nat : b \div PageSize < n /\ b \div PageSize > 0 <=> b \in PageSize..(n * PageSize - 1)
  <2> SUFFICES ASSUME NEW b \in Nat
               PROVE  b \div PageSize < n /\ b \div PageSize > 0 <=> b \in PageSize..(n * PageSize - 1)
    OBVIOUS
  <2> DEFINE top == n * PageSize
  <2>1. (b \div PageSize < n <=> b < top) /\ (b \div PageSize > 0 <=> b >= PageSize)
    BY <1>2, MappedAddress
  <2>2. top \in Nat
    BY <1>2
  <2> HIDE DEF top
  <2>3. b \in PageSize..(top - 1) <=> PageSize <= b /\ b < top
    BY <1>2, <2>2
  <2> QED
    BY <2>1, <2>3 DEF top
<1>7. fault = "None" <=> Aligned(s, r) /\ \A b \in N : b \in PageSize..(n * PageSize - 1)
  <2>1. ASSUME Aligned(s, r) PROVE (v < n /\ v > 0) <=> \A b \in N : b \in PageSize..(n * PageSize - 1)
    <3>1. \A b \in N : b \in Nat /\ b \div PageSize = v
      BY <1>1, <1>5, <2>1
    <3> QED
      BY <1>1, <1>6, <3>1
  <2> QED
    BY <1>4, <2>1
<1>8. ASSUME fault = "None"
      PROVE  /\ v < n /\ v > 0
             /\ {b \div PageSize : b \in N} = {v}
             /\ a..(a + size - 1) \subseteq 0..(MemorySize - 1)
  <2>1. Aligned(s, r) /\ v < n /\ v > 0
    BY <1>4, <1>8
  <2>2. \A b \in N : b \div PageSize = v
    BY <1>1, <1>5, <2>1
  <2>3. {b \div PageSize : b \in N} = {v}
    BY <1>1, <2>2
  <2>4. n * PageSize <= MemorySize /\ MemorySize \in Nat /\ n * PageSize \in Nat
    <3>1. NumPhysPages - n \in Nat
      BY TranslationAssumption
    <3>2. (NumPhysPages - n) * PageSize >= 0
      BY <1>2, <3>1
    <3>3. (NumPhysPages - n) * PageSize = NumPhysPages * PageSize - n * PageSize
      BY <1>2, TranslationAssumption
    <3> QED
      BY <1>2, <3>2, <3>3, TranslationAssumption DEF MemorySize
  <2>5. ASSUME NEW b \in a..(a + size - 1) PROVE b \in 0..(MemorySize - 1)
    <3>1. b \in Nat /\ b \div PageSize = v
      BY <1>5, <2>1
    <3>2. b < n * PageSize
      BY <1>2, <2>1, <3>1, MappedAddress
    <3> QED
      BY <2>4, <3>1, <3>2
  <2> QED
    BY <2>1, <2>3, <2>5
<1> QED
  BY <1>3, <1>7, <1>8 DEF a, size, v, N

-----------------------------------------------------------------------------
(* Loads and stores.                                                       *)

LEMMA ByteIsNat == 0 \in Byte /\ ByteBase - 1 \in Byte /\ \A b \in Byte : b \in Nat /\ b < ByteBase
BY ByteFacts DEF Byte

(* A word without its lowest bytes, those bytes alone, and a word shifted  *)
(* by bytes to the right and to the left.                                  *)
LEMMA WordParts ==
    ASSUME NEW a \in Byte, NEW b \in Byte, NEW c \in Byte, NEW d \in Byte, NEW w, w = WordOf(a, b, c, d)
    PROVE  /\ HighBytes(w, 1) = WordOf(0, b, c, d) /\ HighBytes(w, 2) = WordOf(0, 0, c, d)
           /\ HighBytes(w, 3) = WordOf(0, 0, 0, d) /\ HighBytes(w, 4) = 0
           /\ LowBytes(w, 0) = 0 /\ LowBytes(w, 1) = WordOf(a, 0, 0, 0)
           /\ LowBytes(w, 2) = WordOf(a, b, 0, 0) /\ LowBytes(w, 3) = WordOf(a, b, c, 0)
           /\ w \div ByteBase^0 = w /\ w \div ByteBase^1 = WordOf(b, c, d, 0)
           /\ w \div ByteBase^2 = WordOf(c, d, 0, 0) /\ w \div ByteBase^3 = WordOf(d, 0, 0, 0)
           /\ AsWord(w * ByteBase^0) = w /\ AsWord(w * ByteBase^1) = WordOf(0, a, b, c)
           /\ AsWord(w * ByteBase^2) = WordOf(0, 0, a, b) /\ AsWord(w * ByteBase^3) = WordOf(0, 0, 0, a)
<1> DEFINE B == ByteBase
<1>1. /\ B \in {4, 16, 256} /\ a \in 0..(B - 1) /\ b \in 0..(B - 1) /\ c \in 0..(B - 1) /\ d \in 0..(B - 1)
      /\ B \in Nat \ {0} /\ B * B \in Nat \ {0} /\ B * B * B \in Nat \ {0} /\ Base \in Nat \ {0}
      /\ Base = B * B * B * B
  BY ByteFacts DEF Byte
<1>2. B^0 = 1 /\ B^1 = B /\ B^2 = B * B /\ B^3 = B * B * B /\ B^4 = Base
  BY ByteFacts
<1>3. w \in Word /\ w \in Nat /\ w \in Int
  BY BytesOfWord, WordsAreNumbers
<1>w. w = a + b * B + c * (B * B) + d * (B * B * B)
  BY DEF WordOf
<1>o. /\ WordOf(0, b, c, d) = b * B + c * (B * B) + d * (B * B * B)
      /\ WordOf(0, 0, c, d) = c * (B * B) + d * (B * B * B)
      /\ WordOf(0, 0, 0, d) = d * (B * B * B)
      /\ WordOf(a, 0, 0, 0) = a /\ WordOf(a, b, 0, 0) = a + b * B /\ WordOf(a, b, c, 0) = a + b * B + c * (B * B)
      /\ WordOf(b, c, d, 0) = b + c * B + d * (B * B) /\ WordOf(c, d, 0, 0) = c + d * B /\ WordOf(d, 0, 0, 0) = d
      /\ WordOf(0, a, b, c) = a * B + b * (B * B) + c * (B * B * B)
      /\ WordOf(0, 0, a, b) = a * (B * B) + b * (B * B * B) /\ WordOf(0, 0, 0, a) = a * (B * B * B)
  BY <1>1 DEF WordOf
<1>p. /\ HighBytes(w, 1) = w - (w % B^1) /\ HighBytes(w, 2) = w - (w % B^2) /\ HighBytes(w, 3) = w - (w % B^3)
      /\ HighBytes(w, 4) = w - (w % B^4) /\ LowBytes(w, 0) = w % B^0 /\ LowBytes(w, 1) = w % B^1
      /\ LowBytes(w, 2) = w % B^2 /\ LowBytes(w, 3) = w % B^3
  BY DEF HighBytes, LowBytes
<1> HIDE DEF B
<1>4. w % 1 = 0 /\ w \div 1 = w /\ w * 1 = w /\ w % Base = w
  BY <1>1, <1>3 DEF Word
<1>5. w % B = a /\ w \div B = b + c * B + d * (B * B)
  <2> DEFINE e == b + c * B + d * (B * B)
  <2>1. e \in Int /\ w = e * B + a
    BY <1>1, <1>w
  <2> HIDE DEF e
  <2>2. w \div B = e /\ w % B = a
    BY <1>1, <2>1, QuotientIsUnique
  <2> QED
    BY <2>2 DEF e
<1>6. w % (B * B) = a + b * B /\ w \div (B * B) = c + d * B
  <2> DEFINE e == c + d * B
             f == a + b * B
             M == B * B
  <2>1. e \in Int /\ f \in 0..(M - 1) /\ w = e * M + f /\ M \in Nat \ {0}
    BY <1>1, <1>w
  <2> HIDE DEF e, f, M
  <2>2. w \div M = e /\ w % M = f
    BY <2>1, QuotientIsUnique
  <2> QED
    BY <2>2 DEF e, f, M
<1>7. w % (B * B * B) = a + b * B + c * (B * B) /\ w \div (B * B * B) = d
  <2> DEFINE f == a + b * B + c * (B * B)
             M == B * B * B
  <2>1. d \in Int /\ f \in 0..(M - 1) /\ w = d * M + f /\ M \in Nat \ {0}
    BY <1>1, <1>w
  <2> HIDE DEF f, M
  <2>2. w \div M = d /\ w % M = f
    BY <2>1, QuotientIsUnique
  <2> QED
    BY <2>2 DEF f, M
<1>8. (w * B) % Base = a * B + b * (B * B) + c * (B * B * B)
  <2> DEFINE f == a * B + b * (B * B) + c * (B * B * B)
  <2>1. d \in Int /\ f \in 0..(Base - 1) /\ w * B = d * Base + f
    BY <1>1, <1>w
  <2> HIDE DEF f
  <2>2. (w * B) % Base = f
    BY <1>1, <2>1, QuotientIsUnique
  <2> QED
    BY <2>2 DEF f
<1>9. (w * (B * B)) % Base = a * (B * B) + b * (B * B * B)
  <2> DEFINE f == a * (B * B) + b * (B * B * B)
             e == c + d * B
  <2>1. e \in Int /\ f \in 0..(Base - 1) /\ w * (B * B) = e * Base + f
    BY <1>1, <1>w
  <2> HIDE DEF f, e
  <2>2. (e * Base + f) % Base = f
    <3>1. Base \in Nat \ {0} /\ e \in Int /\ f \in 0..(Base - 1)
      BY <1>1, <2>1
    <3> QED
      BY <3>1, QuotientIsUnique
  <2>3. (w * (B * B)) % Base = f
    BY <2>1, <2>2, Zenon
  <2> QED
    BY <2>3 DEF f
<1>10. (w * (B * B * B)) % Base = a * (B * B * B)
  <2> DEFINE f == a * (B * B * B)
             e == b + c * B + d * (B * B)
  <2>1. e \in Int /\ f \in 0..(Base - 1) /\ w * (B * B * B) = e * Base + f
    BY <1>1, <1>w
  <2> HIDE DEF f, e
  <2>2. (e * Base + f) % Base = f
    <3>1. Base \in Nat \ {0} /\ e \in Int /\ f \in 0..(Base - 1)
      BY <1>1, <2>1
    <3> QED
      BY <3>1, QuotientIsUnique
  <2>3. (w * (B * B * B)) % Base = f
    BY <2>1, <2>2, Zenon
  <2> QED
    BY <2>3 DEF f
<1>11. /\ HighBytes(w, 1) = WordOf(0, b, c, d) /\ HighBytes(w, 2) = WordOf(0, 0, c, d)
       /\ HighBytes(w, 3) = WordOf(0, 0, 0, d) /\ HighBytes(w, 4) = 0
  <2>1. /\ w - a = b * B + c * (B * B) + d * (B * B * B)
        /\ w - (a + b * B) = c * (B * B) + d * (B * B * B)
        /\ w - (a + b * B + c * (B * B)) = d * (B * B * B) /\ w - w = 0
    BY <1>1, <1>w
  <2> QED
    BY <1>2, <1>4, <1>5, <1>6, <1>7, <1>o, <1>p, <2>1
<1>12. /\ LowBytes(w, 0) = 0 /\ LowBytes(w, 1) = WordOf(a, 0, 0, 0)
       /\ LowBytes(w, 2) = WordOf(a, b, 0, 0) /\ LowBytes(w, 3) = WordOf(a, b, c, 0)
  BY <1>2, <1>4, <1>5, <1>6, <1>7, <1>o, <1>p
<1>13. /\ w \div B^0 = w /\ w \div B^1 = WordOf(b, c, d, 0)
       /\ w \div B^2 = WordOf(c, d, 0, 0) /\ w \div B^3 = WordOf(d, 0, 0, 0)
  BY <1>2, <1>4, <1>5, <1>6, <1>7, <1>o
<1>14. /\ AsWord(w * B^0) = w /\ AsWord(w * B^1) = WordOf(0, a, b, c)
       /\ AsWord(w * B^2) = WordOf(0, 0, a, b) /\ AsWord(w * B^3) = WordOf(0, 0, 0, a)
  BY <1>2, <1>4, <1>8, <1>9, <1>10, <1>o DEF AsWord
<1> QED
  BY <1>11, <1>12, <1>13, <1>14 DEF B

(* Two words that have no byte in common. *)
LEMMA Joined ==
    ASSUME NEW a \in Byte, NEW b \in Byte, NEW c \in Byte, NEW d \in Byte
    PROVE  /\ WordOf(0, b, c, d) + WordOf(a, 0, 0, 0) = WordOf(a, b, c, d)
           /\ WordOf(0, 0, c, d) + WordOf(a, b, 0, 0) = WordOf(a, b, c, d)
           /\ WordOf(0, 0, 0, d) + WordOf(a, b, c, 0) = WordOf(a, b, c, d)
           /\ WordOf(a, 0, 0, 0) + WordOf(0, b, c, d) = WordOf(a, b, c, d)
           /\ WordOf(a, b, 0, 0) + WordOf(0, 0, c, d) = WordOf(a, b, c, d)
           /\ WordOf(a, b, c, 0) + WordOf(0, 0, 0, d) = WordOf(a, b, c, d)
           /\ 0 + WordOf(a, b, c, d) = WordOf(a, b, c, d)
<1> DEFINE B == ByteBase
           P == B * B
           Q == B * B * B
<1>1. B \in Int /\ P \in Int /\ Q \in Int /\ a \in Int /\ b \in Int /\ c \in Int /\ d \in Int
  BY ByteFacts, ByteIsNat
<1>4. /\ WordOf(a, b, c, d) = a + b * B + c * P + d * Q
      /\ WordOf(0, b, c, d) = 0 + b * B + c * P + d * Q /\ WordOf(a, 0, 0, 0) = a + 0 * B + 0 * P + 0 * Q
      /\ WordOf(0, 0, c, d) = 0 + 0 * B + c * P + d * Q /\ WordOf(a, b, 0, 0) = a + b * B + 0 * P + 0 * Q
      /\ WordOf(0, 0, 0, d) = 0 + 0 * B + 0 * P + d * Q /\ WordOf(a, b, c, 0) = a + b * B + c * P + 0 * Q
  BY DEF WordOf
<1> HIDE DEF B, P, Q
<1>3. b * B \in Int /\ c * P \in Int /\ d * Q \in Int /\ 0 * B = 0 /\ 0 * P = 0 /\ 0 * Q = 0
  BY <1>1
<1> QED
  BY <1>1, <1>3, <1>4

LEMMA LwrBytes ==
    ASSUME NEW old \in Word, NEW value \in Word
    PROVE  /\ LwrMerged(old, value, 0) = value
           /\ LwrMerged(old, value, 1) = WordOf(ByteOf(value, 1), ByteOf(value, 2), ByteOf(value, 3), ByteOf(old, 3))
           /\ LwrMerged(old, value, 2) = WordOf(ByteOf(value, 2), ByteOf(value, 3), ByteOf(old, 2), ByteOf(old, 3))
           /\ LwrMerged(old, value, 3) = WordOf(ByteOf(value, 3), ByteOf(old, 1), ByteOf(old, 2), ByteOf(old, 3))
<1> DEFINE a == ByteOf(old, 0)
           b == ByteOf(old, 1)
           c == ByteOf(old, 2)
           d == ByteOf(old, 3)
           e == ByteOf(value, 0)
           f == ByteOf(value, 1)
           g == ByteOf(value, 2)
           h == ByteOf(value, 3)
<1>0. /\ a \in Byte /\ b \in Byte /\ c \in Byte /\ d \in Byte /\ old = WordOf(a, b, c, d)
      /\ e \in Byte /\ f \in Byte /\ g \in Byte /\ h \in Byte /\ value = WordOf(e, f, g, h)
  BY WordIsItsBytes
<1> HIDE DEF a, b, c, d, e, f, g, h
<1>1. /\ LwrMerged(old, value, 0) = HighBytes(old, 4) + (value \div ByteBase^0)
      /\ LwrMerged(old, value, 1) = HighBytes(old, 3) + (value \div ByteBase^1)
      /\ LwrMerged(old, value, 2) = HighBytes(old, 2) + (value \div ByteBase^2)
      /\ LwrMerged(old, value, 3) = HighBytes(old, 1) + (value \div ByteBase^3)
  BY DEF LwrMerged
<1>2. /\ HighBytes(old, 1) = WordOf(0, b, c, d) /\ HighBytes(old, 2) = WordOf(0, 0, c, d)
      /\ HighBytes(old, 3) = WordOf(0, 0, 0, d) /\ HighBytes(old, 4) = 0
  BY <1>0, WordParts
<1>3. /\ value \div ByteBase^0 = value /\ value \div ByteBase^1 = WordOf(f, g, h, 0)
      /\ value \div ByteBase^2 = WordOf(g, h, 0, 0) /\ value \div ByteBase^3 = WordOf(h, 0, 0, 0)
  BY <1>0, WordParts
<1>4. /\ 0 + WordOf(e, f, g, h) = WordOf(e, f, g, h)
      /\ WordOf(0, 0, 0, d) + WordOf(f, g, h, 0) = WordOf(f, g, h, d)
      /\ WordOf(0, 0, c, d) + WordOf(g, h, 0, 0) = WordOf(g, h, c, d)
      /\ WordOf(0, b, c, d) + WordOf(h, 0, 0, 0) = WordOf(h, b, c, d)
  BY <1>0, Joined
<1> QED
  BY <1>0, <1>1, <1>2, <1>3, <1>4 DEF a, b, c, d, e, f, g, h

LEMMA SwlBytes ==
    ASSUME NEW value \in Word, NEW reg \in Word
    PROVE  /\ SwlMerged(reg, value, 0) = WordOf(ByteOf(reg, 3), ByteOf(value, 1), ByteOf(value, 2), ByteOf(value, 3))
           /\ SwlMerged(reg, value, 1) = WordOf(ByteOf(reg, 2), ByteOf(reg, 3), ByteOf(value, 2), ByteOf(value, 3))
           /\ SwlMerged(reg, value, 2) = WordOf(ByteOf(reg, 1), ByteOf(reg, 2), ByteOf(reg, 3), ByteOf(value, 3))
           /\ SwlMerged(reg, value, 3) = reg
<1> DEFINE a == ByteOf(value, 0)
           b == ByteOf(value, 1)
           c == ByteOf(value, 2)
           d == ByteOf(value, 3)
           e == ByteOf(reg, 0)
           f == ByteOf(reg, 1)
           g == ByteOf(reg, 2)
           h == ByteOf(reg, 3)
<1>0. /\ a \in Byte /\ b \in Byte /\ c \in Byte /\ d \in Byte /\ value = WordOf(a, b, c, d)
      /\ e \in Byte /\ f \in Byte /\ g \in Byte /\ h \in Byte /\ reg = WordOf(e, f, g, h)
  BY WordIsItsBytes
<1> HIDE DEF a, b, c, d, e, f, g, h
<1>1. /\ SwlMerged(reg, value, 0) = HighBytes(value, 1) + (reg \div ByteBase^3)
      /\ SwlMerged(reg, value, 1) = HighBytes(value, 2) + (reg \div ByteBase^2)
      /\ SwlMerged(reg, value, 2) = HighBytes(value, 3) + (reg \div ByteBase^1)
      /\ SwlMerged(reg, value, 3) = HighBytes(value, 4) + (reg \div ByteBase^0)
  BY DEF SwlMerged
<1>2. /\ HighBytes(value, 1) = WordOf(0, b, c, d) /\ HighBytes(value, 2) = WordOf(0, 0, c, d)
      /\ HighBytes(value, 3) = WordOf(0, 0, 0, d) /\ HighBytes(value, 4) = 0
  BY <1>0, WordParts
<1>3. /\ reg \div ByteBase^0 = reg /\ reg \div ByteBase^1 = WordOf(f, g, h, 0)
      /\ reg \div ByteBase^2 = WordOf(g, h, 0, 0) /\ reg \div ByteBase^3 = WordOf(h, 0, 0, 0)
  BY <1>0, WordParts
<1>4. /\ 0 + WordOf(e, f, g, h) = WordOf(e, f, g, h)
      /\ WordOf(0, 0, 0, d) + WordOf(f, g, h, 0) = WordOf(f, g, h, d)
      /\ WordOf(0, 0, c, d) + WordOf(g, h, 0, 0) = WordOf(g, h, c, d)
      /\ WordOf(0, b, c, d) + WordOf(h, 0, 0, 0) = WordOf(h, b, c, d)
  BY <1>0, Joined
<1> QED
  BY <1>0, <1>1, <1>2, <1>3, <1>4 DEF a, b, c, d, e, f, g, h

LEMMA SwrBytes ==
    ASSUME NEW value \in Word, NEW reg \in Word
    PROVE  /\ SwrMerged(reg, value, 0) = reg
           /\ SwrMerged(reg, value, 1) = WordOf(ByteOf(value, 0), ByteOf(reg, 0), ByteOf(reg, 1), ByteOf(reg, 2))
           /\ SwrMerged(reg, value, 2) = WordOf(ByteOf(value, 0), ByteOf(value, 1), ByteOf(reg, 0), ByteOf(reg, 1))
           /\ SwrMerged(reg, value, 3) = WordOf(ByteOf(value, 0), ByteOf(value, 1), ByteOf(value, 2), ByteOf(reg, 0))
<1> DEFINE a == ByteOf(value, 0)
           b == ByteOf(value, 1)
           c == ByteOf(value, 2)
           d == ByteOf(value, 3)
           e == ByteOf(reg, 0)
           f == ByteOf(reg, 1)
           g == ByteOf(reg, 2)
           h == ByteOf(reg, 3)
<1>0. /\ a \in Byte /\ b \in Byte /\ c \in Byte /\ d \in Byte /\ value = WordOf(a, b, c, d)
      /\ e \in Byte /\ f \in Byte /\ g \in Byte /\ h \in Byte /\ reg = WordOf(e, f, g, h)
  BY WordIsItsBytes
<1> HIDE DEF a, b, c, d, e, f, g, h
<1>1. /\ SwrMerged(reg, value, 0) = LowBytes(value, 0) + AsWord(reg * ByteBase^0)
      /\ SwrMerged(reg, value, 1) = LowBytes(value, 1) + AsWord(reg * ByteBase^1)
      /\ SwrMerged(reg, value, 2) = LowBytes(value, 2) + AsWord(reg * ByteBase^2)
      /\ SwrMerged(reg, value, 3) = LowBytes(value, 3) + AsWord(reg * ByteBase^3)
  BY DEF SwrMerged
<1>2. /\ LowBytes(value, 0) = 0 /\ LowBytes(value, 1) = WordOf(a, 0, 0, 0)
      /\ LowBytes(value, 2) = WordOf(a, b, 0, 0) /\ LowBytes(value, 3) = WordOf(a, b, c, 0)
  BY <1>0, WordParts
<1>3. /\ AsWord(reg * ByteBase^0) = reg /\ AsWord(reg * ByteBase^1) = WordOf(0, e, f, g)
      /\ AsWord(reg * ByteBase^2) = WordOf(0, 0, e, f) /\ AsWord(reg * ByteBase^3) = WordOf(0, 0, 0, e)
  BY <1>0, WordParts
<1>4. /\ 0 + WordOf(e, f, g, h) = WordOf(e, f, g, h)
      /\ WordOf(a, 0, 0, 0) + WordOf(0, e, f, g) = WordOf(a, e, f, g)
      /\ WordOf(a, b, 0, 0) + WordOf(0, 0, e, f) = WordOf(a, b, e, f)
      /\ WordOf(a, b, c, 0) + WordOf(0, 0, 0, e) = WordOf(a, b, c, e)
  BY <1>0, Joined
<1> QED
  BY <1>0, <1>1, <1>2, <1>3, <1>4 DEF a, b, c, d, e, f, g, h

LEMMA LwlInWord ==
    ASSUME NEW old \in Word, NEW value \in Word, NEW k \in 0..3
    PROVE  LwlMerged(old, value, k) \in Word
<1> DEFINE a == ByteOf(old, 0)
           b == ByteOf(old, 1)
           c == ByteOf(old, 2)
           d == ByteOf(old, 3)
           e == ByteOf(value, 0)
           f == ByteOf(value, 1)
           g == ByteOf(value, 2)
           h == ByteOf(value, 3)
<1>1. /\ a \in Byte /\ b \in Byte /\ c \in Byte /\ d \in Byte /\ old = WordOf(a, b, c, d)
      /\ e \in Byte /\ f \in Byte /\ g \in Byte /\ h \in Byte /\ value = WordOf(e, f, g, h)
  BY WordIsItsBytes
<1> HIDE DEF a, b, c, d, e, f, g, h
<1>2. /\ LwlMerged(old, value, 0) = LowBytes(old, 1) + AsWord(value * ByteBase^1)
      /\ LwlMerged(old, value, 1) = LowBytes(old, 2) + AsWord(value * ByteBase^2)
      /\ LwlMerged(old, value, 2) = LowBytes(old, 3) + AsWord(value * ByteBase^3)
      /\ LwlMerged(old, value, 3) = value
  BY DEF LwlMerged
<1>3. /\ LowBytes(old, 1) = WordOf(a, 0, 0, 0)
      /\ LowBytes(old, 2) = WordOf(a, b, 0, 0) /\ LowBytes(old, 3) = WordOf(a, b, c, 0)
  BY <1>1, WordParts
<1>4. /\ AsWord(value * ByteBase^1) = WordOf(0, e, f, g)
      /\ AsWord(value * ByteBase^2) = WordOf(0, 0, e, f) /\ AsWord(value * ByteBase^3) = WordOf(0, 0, 0, e)
  BY <1>1, WordParts
<1>5. /\ WordOf(a, 0, 0, 0) + WordOf(0, e, f, g) \in Word
      /\ WordOf(a, b, 0, 0) + WordOf(0, 0, e, f) \in Word
      /\ WordOf(a, b, c, 0) + WordOf(0, 0, 0, e) \in Word
  BY <1>1, Joined, BytesOfWord
<1>6. k = 0 \/ k = 1 \/ k = 2 \/ k = 3
  OBVIOUS
<1> QED
  BY <1>2, <1>3, <1>4, <1>5, <1>6

(* A byte of the register that a load does not name. *)
Fill(s, r, memory, k) ==
    LET old == IF due.reg = s.rt THEN r[LoadValueReg] ELSE r[s.rt]
        top == memory[CHOOSE b \in Named(s, r) : \A c \in Named(s, r) : c <= b]
    IN  CASE s.name \in {"LWL", "LWR"} -> ByteOf(old, k)
          [] s.name \in {"LB", "LH"} /\ top >= ByteBase \div 2 -> ByteBase - 1
          [] OTHER -> 0

LoadedByte(s, r, memory, k) ==
    IF Address(s, r) + k \in Named(s, r) THEN memory[Address(s, r) + k] ELSE Fill(s, r, memory, k)

(* What a load loads by the manual, byte by byte. *)
LEMMA LoadedBytes ==
    ASSUME NEW s, NEW r, NEW memory, Address(s, r) \in Nat, Named(s, r) \in SUBSET Nat,
           s.name \notin {"LWL", "SWL"}
    PROVE  Loaded(s, r, memory) = WordOf(LoadedByte(s, r, memory, 0), LoadedByte(s, r, memory, 1),
                                         LoadedByte(s, r, memory, 2), LoadedByte(s, r, memory, 3))
<1> DEFINE a == Address(s, r)
           N == Named(s, r)
           x(k) == CHOOSE b \in N : RegisterByte(s, r, b) = k
           g == [k \in 0..3 |-> IF \E b \in N : RegisterByte(s, r, b) = k THEN memory[x(k)]
                                ELSE Fill(s, r, memory, k)]
<1>1. Loaded(s, r, memory) = FromBytes(g)
  BY DEF Loaded, Fill
<1>2. \A b : RegisterByte(s, r, b) = b - a
  BY DEF RegisterByte
<1>3. ASSUME NEW k \in 0..3 PROVE g[k] = LoadedByte(s, r, memory, k)
  <2>1. \A b \in N : RegisterByte(s, r, b) = k <=> b = a + k
    BY <1>2
  <2>2. CASE a + k \in N
    <3>1. x(k) \in N /\ RegisterByte(s, r, x(k)) = k
      BY <2>1, <2>2, Zenon
    <3>2. x(k) = a + k
      BY <2>1, <3>1
    <3> HIDE DEF x
    <3>3. g[k] = memory[x(k)]
      BY <2>1, <2>2
    <3> QED
      BY <2>2, <3>2, <3>3 DEF LoadedByte
  <2>3. CASE a + k \notin N
    <3>1. ~\E b \in N : RegisterByte(s, r, b) = k
      BY <2>1, <2>3
    <3> HIDE DEF x
    <3> QED
      BY <2>3, <3>1 DEF LoadedByte
  <2> QED
    BY <2>2, <2>3
<1>4. FromBytes(g) = WordOf(g[0], g[1], g[2], g[3])
  <2> HIDE DEF g
  <2> QED
    BY ByteFacts DEF FromBytes, WordOf
<1> HIDE DEF g
<1> QED
  BY <1>1, <1>3, <1>4

(* Copies of the sign fill what a byte or half word leaves. *)
LEMMA SignCopies ==
    ASSUME NEW a \in Byte, NEW b \in Byte
    PROVE  /\ SignExtended(WordOf(a, 0, 0, 0), ByteBits) =
                 IF a >= ByteBase \div 2 THEN WordOf(a, ByteBase - 1, ByteBase - 1, ByteBase - 1)
                 ELSE WordOf(a, 0, 0, 0)
           /\ SignExtended(WordOf(a, b, 0, 0), HalfBits) =
                 IF b >= ByteBase \div 2 THEN WordOf(a, b, ByteBase - 1, ByteBase - 1)
                 ELSE WordOf(a, b, 0, 0)
<1> DEFINE B == ByteBase
<1>1. /\ B \in {4, 16, 256} /\ a \in 0..(B - 1) /\ b \in 0..(B - 1) /\ Base = B * B * B * B
      /\ 2^ByteBits = B /\ 2^(ByteBits - 1) = B \div 2
      /\ 2^HalfBits = B * B /\ 2^(HalfBits - 1) = (B * B) \div 2
  BY ByteFacts DEF Byte
<1>2. /\ WordOf(a, 0, 0, 0) = a /\ WordOf(a, b, 0, 0) = a + b * B
      /\ WordOf(a, B - 1, B - 1, B - 1) = a + (B - 1) * B + (B - 1) * (B * B) + (B - 1) * (B * B * B)
      /\ WordOf(a, b, B - 1, B - 1) = a + b * B + (B - 1) * (B * B) + (B - 1) * (B * B * B)
  BY <1>1 DEF WordOf
<1>3. /\ SignExtended(a, ByteBits) = IF a >= B \div 2 THEN a + Base - B ELSE a
      /\ SignExtended(a + b * B, HalfBits) =
            IF a + b * B >= (B * B) \div 2 THEN a + b * B + Base - B * B ELSE a + b * B
  BY <1>1 DEF SignExtended
<1> HIDE DEF B
<1>4. a + b * B >= (B * B) \div 2 <=> b >= B \div 2
  BY <1>1
<1>5. /\ a + Base - B = a + (B - 1) * B + (B - 1) * (B * B) + (B - 1) * (B * B * B)
      /\ a + b * B + Base - B * B = a + b * B + (B - 1) * (B * B) + (B - 1) * (B * B * B)
  BY <1>1
<1> QED
  BY <1>2, <1>3, <1>4, <1>5 DEF B

(* What is read for an access that goes through. *)
LEMMA LoadValueTyped ==
    ASSUME NEW s \in Sources, NEW i, Meaning(s, i), NEW r \in [Registers -> Word],
           i.opCode \in Loads, NEW memory \in [0..(MemorySize - 1) -> Byte], NEW table,
           PhysAddr(table, Accessed(i, r)) = Accessed(i, r),
           Accessed(i, r)..(Accessed(i, r) + Size(i.opCode) - 1) \subseteq 0..(MemorySize - 1),
           Aligned(s, r)
    PROVE  /\ LoadValue(i, r, memory, table) \in Word
           /\ s.name # "LWL" /\ r[LoadReg] = due.reg =>
                 LoadValue(i, r, memory, table) = Loaded(s, r, memory)
<1> DEFINE a == Accessed(i, r)
           size == Size(i.opCode)
           e == Address(s, r)
           k == e % 4
           value == ValueAt(memory, a, size)
           old == IF r[LoadReg] = i.rt THEN r[LoadValueReg] ELSE r[i.rt]
<1>1. /\ a \in Nat /\ size \in {1, 2, 4} /\ i.opCode = s.name /\ i.rt = s.rt /\ s.rt \in GPRegs
      /\ s.name \in Loads /\ e \in Nat /\ Effective(i, r) = e /\ Named(s, r) \in SUBSET Nat
  BY AccessGeometry, EffectiveAddress, WordsAreNumbers, Fields
<1>2. LoadValue(i, r, memory, table) =
         CASE s.name = "LB"  -> SignExtended(value, ByteBits)
           [] s.name = "LH"  -> SignExtended(value, HalfBits)
           [] s.name = "LWR" -> LwrMerged(old, value, k)
           [] s.name = "LWL" -> LwlMerged(old, value, k)
           [] OTHER          -> value
  BY <1>1 DEF LoadValue
<1>3. old \in Word /\ k \in 0..3
  <2>1. old \in Word
    BY <1>1, RegisterNumbers
  <2>2. k \in 0..3
    <3> HIDE DEF e
    <3> QED
      BY <1>1
  <2> QED
    BY <2>1, <2>2
<1>4. \A j \in 0..(size - 1) : memory[a + j] \in Byte
  BY <1>1
<1>5. value = IF size = 1 THEN WordOf(memory[a], 0, 0, 0)
              ELSE IF size = 2 THEN WordOf(memory[a], memory[a + 1], 0, 0)
              ELSE WordOf(memory[a], memory[a + 1], memory[a + 2], memory[a + 3])
  <2>1. a..(a + size - 1) \subseteq 0..(MemorySize - 1)
    OBVIOUS
  <2> HIDE DEF a, size
  <2> QED
    BY <1>1, <2>1, ValueOfBytes
<1> DEFINE L(j) == LoadedByte(s, r, memory, j)
<1>6. s.name # "LWL" => Loaded(s, r, memory) = WordOf(L(0), L(1), L(2), L(3))
  <2>1. s.name # "SWL"
    BY <1>1 DEF Loads
  <2> QED
    BY <1>1, <2>1, LoadedBytes
<1>7. \A j \in 0..3 : L(j) = IF e + j \in Named(s, r) THEN memory[e + j] ELSE Fill(s, r, memory, j)
  BY DEF LoadedByte
<1>8. Accessed(i, r) = IF s.name \in Partial THEN e - k ELSE e
  BY <1>1 DEF Accessed
<1>n. Named(s, r) = CASE s.name \in {"LB", "LBU", "SB"} -> {e}
                      [] s.name \in {"LH", "LHU", "SH"} -> {e, e + 1}
                      [] s.name \in {"LW", "SW"}        -> e..(e + 3)
                      [] s.name \in {"LWL", "SWL"}      -> (e - k)..e
                      [] s.name \in {"LWR", "SWR"}      -> e..((e - k) + 3)
                      [] OTHER                          -> {}
  BY DEF Named
<1>z. 0 \in Byte /\ ByteBase - 1 \in Byte
  BY ByteIsNat
<1> HIDE DEF e, k, value, old, L
<1>9. CASE s.name \in {"LB", "LBU"}
  <2>1. a = e /\ size = 1 /\ Named(s, r) = {e}
    BY <1>1, <1>8, <1>9, <1>n DEF Partial, Size
  <2> HIDE DEF a, size
  <2> DEFINE m == memory[e]
  <2>2. m \in Byte /\ value = WordOf(m, 0, 0, 0)
    BY <1>1, <1>4, <1>5, <2>1
  <2>3. (CHOOSE b \in {e} : \A c \in {e} : c <= b) = e
    BY <1>1
  <2>4. \A j \in 1..3 : Fill(s, r, memory, j) =
           IF s.name = "LB" /\ m >= ByteBase \div 2 THEN ByteBase - 1 ELSE 0
    BY <1>9, <2>1, <2>3 DEF Fill
  <2> HIDE DEF m
  <2>5. L(0) = m /\ L(1) = Fill(s, r, memory, 1) /\ L(2) = Fill(s, r, memory, 2) /\ L(3) = Fill(s, r, memory, 3)
    BY <1>1, <1>7, <2>1 DEF m
  <2>6. Loaded(s, r, memory) =
           IF s.name = "LB" /\ m >= ByteBase \div 2 THEN WordOf(m, ByteBase - 1, ByteBase - 1, ByteBase - 1)
           ELSE WordOf(m, 0, 0, 0)
    BY <1>6, <1>9, <2>4, <2>5
  <2>7. LoadValue(i, r, memory, table) = IF s.name = "LB" THEN SignExtended(value, ByteBits) ELSE value
    BY <1>2, <1>9
  <2>8. LoadValue(i, r, memory, table) = Loaded(s, r, memory)
    BY <2>2, <2>6, <2>7, SignCopies
  <2> QED
    BY <1>z, <2>2, <2>6, <2>8, BytesOfWord
<1>10. CASE s.name \in {"LH", "LHU"}
  <2>1. a = e /\ size = 2 /\ Named(s, r) = {e, e + 1}
    BY <1>1, <1>8, <1>10, <1>n DEF Partial, Size
  <2> HIDE DEF a, size
  <2> DEFINE m == memory[e]
             n == memory[e + 1]
  <2>2. m \in Byte /\ n \in Byte /\ value = WordOf(m, n, 0, 0)
    <3>1. e + 0 = e /\ 0 \in 0..(size - 1) /\ 1 \in 0..(size - 1)
      BY <1>1, <2>1
    <3>2. memory[e + 0] \in Byte /\ memory[e + 1] \in Byte
      BY <1>4, <2>1, <3>1
    <3> QED
      BY <1>5, <2>1, <3>1, <3>2
  <2>3. (CHOOSE b \in {e, e + 1} : \A c \in {e, e + 1} : c <= b) = e + 1
    <3>1. \A b \in {e, e + 1} : (\A c \in {e, e + 1} : c <= b) <=> b = e + 1
      BY <1>1
    <3> QED
      BY <3>1
  <2>4. \A j \in 2..3 : Fill(s, r, memory, j) =
           IF s.name = "LH" /\ n >= ByteBase \div 2 THEN ByteBase - 1 ELSE 0
    BY <1>10, <2>1, <2>3 DEF Fill
  <2> HIDE DEF m, n
  <2>5. L(0) = m /\ L(1) = n /\ L(2) = Fill(s, r, memory, 2) /\ L(3) = Fill(s, r, memory, 3)
    BY <1>1, <1>7, <2>1 DEF m, n
  <2>6. Loaded(s, r, memory) =
           IF s.name = "LH" /\ n >= ByteBase \div 2 THEN WordOf(m, n, ByteBase - 1, ByteBase - 1)
           ELSE WordOf(m, n, 0, 0)
    BY <1>6, <1>10, <2>4, <2>5
  <2>7. LoadValue(i, r, memory, table) = IF s.name = "LH" THEN SignExtended(value, HalfBits) ELSE value
    BY <1>2, <1>10
  <2>8. LoadValue(i, r, memory, table) = Loaded(s, r, memory)
    BY <2>2, <2>6, <2>7, SignCopies
  <2> QED
    BY <1>z, <2>2, <2>6, <2>8, BytesOfWord
<1>11. CASE s.name = "LW"
  <2>1. a = e /\ size = 4 /\ Named(s, r) = e..(e + 3)
    BY <1>1, <1>8, <1>11, <1>n DEF Partial, Size
  <2> HIDE DEF a, size
  <2>2. /\ value = WordOf(memory[e], memory[e + 1], memory[e + 2], memory[e + 3])
        /\ memory[e] \in Byte /\ memory[e + 1] \in Byte /\ memory[e + 2] \in Byte /\ memory[e + 3] \in Byte
    BY <1>1, <1>4, <1>5, <2>1
  <2>3. L(0) = memory[e] /\ L(1) = memory[e + 1] /\ L(2) = memory[e + 2] /\ L(3) = memory[e + 3]
    BY <1>1, <1>7, <2>1
  <2>4. LoadValue(i, r, memory, table) = value
    BY <1>2, <1>11
  <2> QED
    BY <1>6, <1>11, <2>2, <2>3, <2>4, BytesOfWord
<1>12. CASE s.name \in {"LWL", "LWR"}
  <2>1. a = e - k /\ size = 4 /\ e = a + k
    BY <1>1, <1>3, <1>8, <1>12 DEF Partial, Size
  <2> HIDE DEF a, size
  <2> DEFINE m == memory[a]
             n == memory[a + 1]
             p == memory[a + 2]
             q == memory[a + 3]
  <2>2. m \in Byte /\ n \in Byte /\ p \in Byte /\ q \in Byte /\ value = WordOf(m, n, p, q)
    BY <1>1, <1>4, <1>5, <2>1
  <2>3. value \in Word
    BY <2>2, BytesOfWord
  <2>4. CASE s.name = "LWL"
    BY <1>2, <1>3, <2>3, <2>4, LwlInWord
  <2>5. CASE s.name = "LWR"
    <3> DEFINE x == ByteOf(old, 0)
               y == ByteOf(old, 1)
               z == ByteOf(old, 2)
               u == ByteOf(old, 3)
    <3>1. x \in Byte /\ y \in Byte /\ z \in Byte /\ u \in Byte /\ old = WordOf(x, y, z, u)
      BY <1>3, WordIsItsBytes
    <3>2. r[LoadReg] = due.reg =>
             Fill(s, r, memory, 1) = y /\ Fill(s, r, memory, 2) = z /\ Fill(s, r, memory, 3) = u
      BY <1>1, <2>5 DEF Fill, old
    <3> HIDE DEF x, y, z, u
    <3>3. LoadValue(i, r, memory, table) = LwrMerged(old, value, k)
      BY <1>2, <2>5
    <3>4. Named(s, r) = e..(a + 3)
      BY <1>n, <2>1, <2>5
    <3>a. \A j \in 0..3 : L(j) = IF k + j <= 3 THEN memory[a + (k + j)] ELSE Fill(s, r, memory, j)
      <4> SUFFICES ASSUME NEW j \in 0..3
                   PROVE  L(j) = IF k + j <= 3 THEN memory[a + (k + j)] ELSE Fill(s, r, memory, j)
        OBVIOUS
      <4>1. e + j = a + (k + j) /\ (e + j \in e..(a + 3) <=> k + j <= 3)
        BY <1>1, <1>3, <2>1
      <4> QED
        BY <1>7, <3>4, <4>1
    <3>b. a + 0 = a
      BY <1>1
    <3>c. /\ LwrMerged(old, value, 0) = WordOf(m, n, p, q) /\ LwrMerged(old, value, 1) = WordOf(n, p, q, u)
          /\ LwrMerged(old, value, 2) = WordOf(p, q, z, u) /\ LwrMerged(old, value, 3) = WordOf(q, y, z, u)
      <4> HIDE DEF m, n, p, q
      <4>1. ByteOf(value, 0) = m /\ ByteOf(value, 1) = n /\ ByteOf(value, 2) = p /\ ByteOf(value, 3) = q
        BY <2>2, BytesOfWord
      <4> QED
        BY <1>3, <2>2, <2>3, <4>1, LwrBytes DEF y, z, u
    <3>d. /\ WordOf(m, n, p, q) \in Word /\ WordOf(n, p, q, u) \in Word /\ WordOf(p, q, z, u) \in Word
          /\ WordOf(q, y, z, u) \in Word
      BY <2>2, <3>1, BytesOfWord
    <3>e. Loaded(s, r, memory) = WordOf(L(0), L(1), L(2), L(3))
      BY <1>6, <2>5
    <3>5. CASE k = 0
      <4>1. /\ L(0) = m /\ L(1) = n
            /\ L(2) = p /\ L(3) = q
        BY <3>a, <3>b, <3>5
      <4> QED
        BY <3>2, <3>3, <3>c, <3>d, <3>e, <3>5, <4>1
    <3>6. CASE k = 1
      <4>1. /\ L(0) = n /\ L(1) = p
            /\ L(2) = q /\ L(3) = Fill(s, r, memory, 3)
        BY <3>a, <3>b, <3>6
      <4> QED
        BY <3>2, <3>3, <3>c, <3>d, <3>e, <3>6, <4>1
    <3>7. CASE k = 2
      <4>1. /\ L(0) = p /\ L(1) = q
            /\ L(2) = Fill(s, r, memory, 2) /\ L(3) = Fill(s, r, memory, 3)
        BY <3>a, <3>b, <3>7
      <4> QED
        BY <3>2, <3>3, <3>c, <3>d, <3>e, <3>7, <4>1
    <3>8. CASE k = 3
      <4>1. /\ L(0) = q /\ L(1) = Fill(s, r, memory, 1)
            /\ L(2) = Fill(s, r, memory, 2) /\ L(3) = Fill(s, r, memory, 3)
        BY <3>a, <3>b, <3>8
      <4> QED
        BY <3>2, <3>3, <3>c, <3>d, <3>e, <3>8, <4>1
    <3> QED
      BY <1>3, <3>5, <3>6, <3>7, <3>8
  <2> QED
    BY <1>12, <2>4, <2>5
<1> QED
  BY <1>1, <1>9, <1>10, <1>11, <1>12 DEF Loads

LEMMA ByteOfIsByte == \A w \in Word : \A k \in 0..3 : ByteOf(w, k) \in Byte
<1> SUFFICES ASSUME NEW w \in Word, NEW k \in 0..3 PROVE ByteOf(w, k) \in Byte
  OBVIOUS
<1>1. k = 0 \/ k = 1 \/ k = 2 \/ k = 3
  OBVIOUS
<1> QED
  BY <1>1, WordIsItsBytes

(* The bytes of what a partial store writes. *)
LEMMA MergedBytes ==
    ASSUME NEW value \in Word, NEW reg \in Word, NEW k \in 0..3, NEW j \in 0..3
    PROVE  /\ ByteOf(SwlMerged(reg, value, k), j) = IF j <= k THEN ByteOf(reg, 3 - k + j) ELSE ByteOf(value, j)
           /\ ByteOf(SwrMerged(reg, value, k), j) = IF j >= k THEN ByteOf(reg, j - k) ELSE ByteOf(value, j)
<1> DEFINE S(n) == SwlMerged(reg, value, n)
           R(n) == SwrMerged(reg, value, n)
           v(n) == ByteOf(value, n)
           u(n) == ByteOf(reg, n)
<1>0. /\ v(0) \in Byte /\ v(1) \in Byte /\ v(2) \in Byte /\ v(3) \in Byte
      /\ u(0) \in Byte /\ u(1) \in Byte /\ u(2) \in Byte /\ u(3) \in Byte
  BY ByteOfIsByte
<1>s. S(0) = WordOf(u(3), v(1), v(2), v(3)) /\ S(1) = WordOf(u(2), u(3), v(2), v(3))
      /\ S(2) = WordOf(u(1), u(2), u(3), v(3)) /\ S(3) = reg
  BY SwlBytes
<1>r. R(0) = reg /\ R(1) = WordOf(v(0), u(0), u(1), u(2))
      /\ R(2) = WordOf(v(0), v(1), u(0), u(1)) /\ R(3) = WordOf(v(0), v(1), v(2), u(0))
  BY SwrBytes
<1> HIDE DEF S, R, v, u
<1>s0. ByteOf(S(0), 0) = u(3) /\ ByteOf(S(0), 1) = v(1) /\ ByteOf(S(0), 2) = v(2) /\ ByteOf(S(0), 3) = v(3)
  BY <1>0, <1>s, BytesOfWord
<1>r0. ByteOf(R(0), 0) = u(0) /\ ByteOf(R(0), 1) = u(1) /\ ByteOf(R(0), 2) = u(2) /\ ByteOf(R(0), 3) = u(3)
  BY <1>0, <1>r, BytesOfWord DEF u
<1>s1. ByteOf(S(1), 0) = u(2) /\ ByteOf(S(1), 1) = u(3) /\ ByteOf(S(1), 2) = v(2) /\ ByteOf(S(1), 3) = v(3)
  BY <1>0, <1>s, BytesOfWord
<1>r1. ByteOf(R(1), 0) = v(0) /\ ByteOf(R(1), 1) = u(0) /\ ByteOf(R(1), 2) = u(1) /\ ByteOf(R(1), 3) = u(2)
  BY <1>0, <1>r, BytesOfWord
<1>s2. ByteOf(S(2), 0) = u(1) /\ ByteOf(S(2), 1) = u(2) /\ ByteOf(S(2), 2) = u(3) /\ ByteOf(S(2), 3) = v(3)
  BY <1>0, <1>s, BytesOfWord
<1>r2. ByteOf(R(2), 0) = v(0) /\ ByteOf(R(2), 1) = v(1) /\ ByteOf(R(2), 2) = u(0) /\ ByteOf(R(2), 3) = u(1)
  BY <1>0, <1>r, BytesOfWord
<1>s3. ByteOf(S(3), 0) = u(0) /\ ByteOf(S(3), 1) = u(1) /\ ByteOf(S(3), 2) = u(2) /\ ByteOf(S(3), 3) = u(3)
  BY <1>0, <1>s, BytesOfWord DEF u
<1>r3. ByteOf(R(3), 0) = v(0) /\ ByteOf(R(3), 1) = v(1) /\ ByteOf(R(3), 2) = v(2) /\ ByteOf(R(3), 3) = u(0)
  BY <1>0, <1>r, BytesOfWord
<1>k. k = 0 \/ k = 1 \/ k = 2 \/ k = 3
  OBVIOUS
<1>j. j = 0 \/ j = 1 \/ j = 2 \/ j = 3
  OBVIOUS
<1>1. CASE k = 0
  <2>1. /\ ByteOf(S(0), j) = IF j <= 0 THEN u(3 - 0 + j) ELSE v(j)
        /\ ByteOf(R(0), j) = IF j >= 0 THEN u(j - 0) ELSE v(j)
    BY <1>j, <1>s0, <1>r0
  <2> QED
    BY <1>1, <2>1 DEF S, R, u, v
<1>2. CASE k = 1
  <2>1. /\ ByteOf(S(1), j) = IF j <= 1 THEN u(3 - 1 + j) ELSE v(j)
        /\ ByteOf(R(1), j) = IF j >= 1 THEN u(j - 1) ELSE v(j)
    BY <1>j, <1>s1, <1>r1
  <2> QED
    BY <1>2, <2>1 DEF S, R, u, v
<1>3. CASE k = 2
  <2>1. /\ ByteOf(S(2), j) = IF j <= 2 THEN u(3 - 2 + j) ELSE v(j)
        /\ ByteOf(R(2), j) = IF j >= 2 THEN u(j - 2) ELSE v(j)
    BY <1>j, <1>s2, <1>r2
  <2> QED
    BY <1>3, <2>1 DEF S, R, u, v
<1>4. CASE k = 3
  <2>1. /\ ByteOf(S(3), j) = IF j <= 3 THEN u(3 - 3 + j) ELSE v(j)
        /\ ByteOf(R(3), j) = IF j >= 3 THEN u(j - 3) ELSE v(j)
    BY <1>j, <1>s3, <1>r3
  <2> QED
    BY <1>4, <2>1 DEF S, R, u, v
<1> QED
  BY <1>k, <1>1, <1>2, <1>3, <1>4

(* A store changes the bytes it names, each to its byte of the register. *)
(* The memory new after the store s with the registers r. *)
StoredRight(new, s, r, memory) ==
    /\ new \in [0..(MemorySize - 1) -> Byte]
    /\ \A p \in 0..(MemorySize - 1) :
          new[p] = IF p \in Named(s, r) THEN ByteOf(r[s.rt], RegisterByte(s, r, p)) ELSE memory[p]

LEMMA StoredBytes ==
    ASSUME NEW s \in Sources, NEW i, Meaning(s, i), NEW r \in [Registers -> Word],
           i.opCode \in Stores, NEW memory \in [0..(MemorySize - 1) -> Byte], NEW table,
           PhysAddr(table, Accessed(i, r)) = Accessed(i, r),
           Accessed(i, r)..(Accessed(i, r) + Size(i.opCode) - 1) \subseteq 0..(MemorySize - 1),
           Aligned(s, r)
    PROVE  StoredRight(Stored(memory, Accessed(i, r), Size(i.opCode), StoreValue(i, r, memory, table)), s, r, memory)
<1> DEFINE new == Stored(memory, Accessed(i, r), Size(i.opCode), StoreValue(i, r, memory, table))
           a == Accessed(i, r)
           size == Size(i.opCode)
           e == Address(s, r)
           k == e % 4
           reg == r[s.rt]
           value == ValueAt(memory, a, 4)
           stored == StoreValue(i, r, memory, table)
           M == 0..(MemorySize - 1)
<1>1. /\ a \in Nat /\ size \in {1, 2, 4} /\ i.opCode = s.name /\ i.rt = s.rt /\ s.rt \in GPRegs
      /\ s.name \in Stores /\ e \in Nat /\ Effective(i, r) = e
  BY AccessGeometry, EffectiveAddress, WordsAreNumbers, Fields
<1>2. stored = CASE s.name = "SWL" -> SwlMerged(reg, value, k)
                   [] s.name = "SWR" -> SwrMerged(reg, value, k)
                   [] OTHER          -> reg
  BY <1>1 DEF StoreValue
<1>3. reg \in Word /\ k \in 0..3 /\ e = (e - k) + k
  <2>1. reg \in Word
    BY <1>1, RegisterNumbers
  <2>2. k \in 0..3 /\ e = (e - k) + k
    <3> HIDE DEF e
    <3> QED
      BY <1>1
  <2> QED
    BY <2>1, <2>2
<1>4. a = IF s.name \in Partial THEN e - k ELSE e
  BY <1>1 DEF Accessed
<1>n. Named(s, r) = CASE s.name \in {"LB", "LBU", "SB"} -> {e}
                      [] s.name \in {"LH", "LHU", "SH"} -> {e, e + 1}
                      [] s.name \in {"LW", "SW"}        -> e..(e + 3)
                      [] s.name \in {"LWL", "SWL"}      -> (e - k)..e
                      [] s.name \in {"LWR", "SWR"}      -> e..((e - k) + 3)
                      [] OTHER                          -> {}
  BY DEF Named
<1>5. \A p : RegisterByte(s, r, p) = IF s.name = "SWL" THEN 3 - (e - p) ELSE p - e
  BY <1>1 DEF RegisterByte, Stores
<1>6. DOMAIN new = M /\ \A p \in M : new[p] = IF p \in a..(a + size - 1) THEN ByteOf(stored, p - a) ELSE memory[p]
  BY DEF Stored
<1>7. a..(a + size - 1) \subseteq M
  OBVIOUS
<1>i. new = [p \in M |-> new[p]]
  BY DEF Stored
<1>m. \A p \in M : memory[p] \in Byte
  OBVIOUS
<1>v. size = 4 => value = WordOf(memory[a], memory[a + 1], memory[a + 2], memory[a + 3])
  <2> HIDE DEF a, size
  <2>1. a..(a + size - 1) \subseteq 0..(MemorySize - 1)
    BY <1>7
  <2>2. ValueAt(memory, a, size) =
           IF size = 1 THEN WordOf(memory[a], 0, 0, 0)
           ELSE IF size = 2 THEN WordOf(memory[a], memory[a + 1], 0, 0)
           ELSE WordOf(memory[a], memory[a + 1], memory[a + 2], memory[a + 3])
    BY <1>1, <2>1, ValueOfBytes
  <2> QED
    BY <2>2
<1> HIDE DEF e, k, reg, value, stored, a, size, M, new
<1> DEFINE Right(p) == new[p] = IF p \in Named(s, r) THEN ByteOf(reg, RegisterByte(s, r, p)) ELSE memory[p]
<1>8. ASSUME s.name \in {"SB", "SH", "SW"}, NEW p \in M PROVE Right(p) /\ new[p] \in Byte
  <2>1. a = e /\ Named(s, r) = a..(a + size - 1)
    <3>1. CASE s.name = "SB"
      BY <1>1, <1>4, <1>n, <3>1 DEF Partial, Size, size
    <3>2. CASE s.name = "SH"
      BY <1>1, <1>4, <1>n, <3>2 DEF Partial, Size, size
    <3>3. CASE s.name = "SW"
      BY <1>1, <1>4, <1>n, <3>3 DEF Partial, Size, size
    <3> QED
      BY <1>8, <3>1, <3>2, <3>3
  <2>2. stored = reg /\ RegisterByte(s, r, p) = p - e
    BY <1>2, <1>5, <1>8
  <2>3. CASE p \in a..(a + size - 1)
    <3>1. p - a \in 0..3
      BY <1>1, <2>3
    <3> QED
      BY <1>3, <1>6, <2>1, <2>2, <2>3, <3>1, ByteOfIsByte
  <2>4. CASE p \notin a..(a + size - 1)
    BY <1>6, <1>m, <2>1, <2>4
  <2> QED
    BY <2>3, <2>4
<1>9. ASSUME s.name \in {"SWL", "SWR"}, NEW p \in M PROVE Right(p) /\ new[p] \in Byte
  <2>1. a = e - k /\ size = 4 /\ e = a + k
    BY <1>1, <1>3, <1>4, <1>9 DEF Partial, Size, size
  <2>2. value = WordOf(memory[a], memory[a + 1], memory[a + 2], memory[a + 3])
    BY <1>v, <2>1
  <2>3. memory[a] \in Byte /\ memory[a + 1] \in Byte /\ memory[a + 2] \in Byte /\ memory[a + 3] \in Byte
    <3>1. a \in M /\ a + 1 \in M /\ a + 2 \in M /\ a + 3 \in M
      BY <1>1, <1>7, <2>1
    <3> QED
      BY <1>m, <3>1
  <2>4. value \in Word /\ \A j \in 0..3 : ByteOf(value, j) = memory[a + j]
    <3>1. /\ value \in Word /\ ByteOf(value, 0) = memory[a] /\ ByteOf(value, 1) = memory[a + 1]
          /\ ByteOf(value, 2) = memory[a + 2] /\ ByteOf(value, 3) = memory[a + 3]
      BY <2>2, <2>3, BytesOfWord
    <3>2. a + 0 = a
      BY <1>1
    <3> QED
      BY <3>1, <3>2
  <2>5. CASE p \notin a..(a + size - 1)
    <3>1. p \notin Named(s, r)
      <4>1. Named(s, r) \subseteq a..(a + 3)
        BY <1>1, <1>3, <1>9, <1>n, <2>1
      <4> QED
        BY <1>1, <2>1, <2>5, <4>1
    <3> QED
      BY <1>6, <1>m, <2>5, <3>1
  <2>6. CASE p \in a..(a + size - 1)
    <3> DEFINE j == p - a
    <3>1. j \in 0..3 /\ p = a + j
      BY <1>1, <2>1, <2>6
    <3>2. new[p] = ByteOf(stored, j)
      BY <1>6, <2>6
    <3> HIDE DEF j
    <3>3. ByteOf(value, j) = memory[p]
      BY <2>4, <3>1
    <3>4. CASE s.name = "SWL"
      <4>1. stored = SwlMerged(reg, value, k)
        BY <1>2, <3>4
      <4>2. new[p] = IF j <= k THEN ByteOf(reg, 3 - k + j) ELSE ByteOf(value, j)
        BY <1>3, <2>4, <3>1, <3>2, <4>1, MergedBytes
      <4>3. p \in Named(s, r) <=> j <= k
        <5>1. Named(s, r) = a..e
          BY <1>n, <2>1, <3>4
        <5>2. \A x \in Nat : \A y, z \in 0..3 : x + y \in x..(x + z) <=> y <= z
          OBVIOUS
        <5> QED
          BY <1>1, <1>3, <2>1, <3>1, <5>1, <5>2
      <4>4. RegisterByte(s, r, p) = 3 - k + j
        <5>1. \A x, y, z \in Int : 3 - ((x + y) - (x + z)) = 3 - y + z
          OBVIOUS
        <5>2. 3 - (e - p) = 3 - k + j
          BY <1>1, <1>3, <2>1, <3>1, <5>1
        <5> QED
          BY <1>5, <3>4, <5>2
      <4>5. j <= k => 3 - k + j \in 0..3
        BY <1>3, <3>1
      <4> QED
        BY <1>3, <1>m, <3>3, <4>2, <4>3, <4>4, <4>5, ByteOfIsByte
    <3>5. CASE s.name = "SWR"
      <4>1. stored = SwrMerged(reg, value, k)
        BY <1>2, <3>5
      <4>2. new[p] = IF j >= k THEN ByteOf(reg, j - k) ELSE ByteOf(value, j)
        BY <1>3, <2>4, <3>1, <3>2, <4>1, MergedBytes
      <4>3. p \in Named(s, r) <=> j >= k
        <5>1. Named(s, r) = e..(a + 3)
          BY <1>n, <2>1, <3>5
        <5>2. \A x \in Nat : \A y, z \in 0..3 : x + y \in (x + z)..(x + 3) <=> y >= z
          OBVIOUS
        <5> QED
          BY <1>1, <1>3, <2>1, <3>1, <5>1, <5>2
      <4>4. RegisterByte(s, r, p) = j - k
        BY <1>1, <1>3, <1>5, <2>1, <3>1, <3>5
      <4>5. j >= k => j - k \in 0..3
        BY <1>3, <3>1
      <4> QED
        BY <1>3, <1>m, <3>3, <4>2, <4>3, <4>4, <4>5, ByteOfIsByte
    <3> QED
      BY <1>9, <3>4, <3>5
  <2> QED
    BY <2>5, <2>6
<1>10. \A p \in M : Right(p) /\ new[p] \in Byte
  BY <1>1, <1>8, <1>9 DEF Stores
<1>11. new \in [M -> Byte]
  BY <1>i, <1>10
<1> QED
  BY <1>10, <1>11 DEF M, reg, StoredRight, new

-----------------------------------------------------------------------------
(* The invariant.                                                          *)

Segments == [virtualAddr : Nat, inFileAddr : Int, size : Nat]
Headers == [noffMagic : {"none", "NOFFMAGIC"}, code : Segments, initData : Segments, uninitData : Segments]
Files == [exists : BOOLEAN, header : Headers, body : Seq(Byte)]

Total(h) == h.code.size + h.initData.size + h.uninitData.size

(* Of the first k - 1 sections, at most one that is not empty has a name   *)
(* among names, and the segment is that section, its bytes in the body.    *)
Placed(segment, names, s, k, body) ==
    LET kept == {j \in 1..(k - 1) : s[j].name \in names /\ s[j].size # 0}
    IN  \/ segment = NoSegment /\ kept = {}
        \/ \E j \in kept :
              /\ kept = {j}
              /\ segment.virtualAddr = s[j].paddr /\ segment.size = s[j].size
              /\ segment.inFileAddr \in Nat /\ segment.inFileAddr + s[j].size <= Len(body)
              /\ \A m \in 1..s[j].size : body[segment.inFileAddr + m] = s[j].data[m]

(* Section j of s may be behind a gap. *)
BehindGap(s, j) ==
    /\ s[j].name \in Uninitialized
    /\ \E i \in DOMAIN s : i < j /\ s[i].name \in Uninitialized /\ s[i].size # 0

(* The first k - 1 sections are in the header h and the body.  They end    *)
(* below the sum of the sizes in the header.                               *)
Converted(h, s, k, body) ==
    /\ h.noffMagic = "NOFFMAGIC"
    /\ Placed(h.code, {".text"}, s, k, body)
    /\ Placed(h.initData, {".data", ".rdata"}, s, k, body)
    /\ h.uninitData.size # 0 => h.uninitData.virtualAddr + h.uninitData.size <= Total(h)
    /\ \A j \in 1..(k - 1) : s[j].name \in Uninitialized /\ s[j].size # 0 => h.uninitData.size # 0
    /\ \A j \in 1..(k - 1) :
          s[j].name \notin Dropped /\ (s[j].size # 0 \/ ~BehindGap(s, j)) => s[j].paddr + s[j].size <= Total(h)

ConversionInv ==
    /\ coff \in Images
    /\ noffFile \in Files
    /\ noffH \in Headers /\ inNoffFile \in Nat /\ section \in 1..(Len(coff.sections) + 1)
    /\ conversion \in {"start", "copying", "done", "failed", "killed"}
    /\ conversion = "start" => section = 1 /\ inNoffFile = 0
    /\ conversion = "failed" => ~noffFile.exists
    /\ conversion \in {"copying", "killed"} => noffFile.header = NoHeader
    /\ conversion = "done" => noffFile.header = noffH /\ section = Len(coff.sections) + 1
    /\ conversion \in {"copying", "done"} =>
          inNoffFile = Len(noffFile.body) /\ Converted(noffH, coff.sections, section, noffFile.body)

Memories == [0..(MemorySize - 1) -> Byte]

RegistersOK(r) == r \in [Registers -> Word] /\ r[LoadReg] \in GPRegs /\ r[0] = 0

Statuses == {"start", "cannot_open", "bad_alloc", "user", "halted", "aborted", "crashed"}

MachineInv ==
    /\ status \in Statuses /\ which \in Exceptions
    /\ status \in {"start", "user"} => which = "None"
    /\ RegistersOK(registers) /\ mainMemory \in Memories
    /\ \/ pageTable = <<>> /\ status # "user"
       \/ \E n \in 1..NumPhysPages : pageTable = TableOf(n, written)
    /\ program \in Seq(SUBSET Sources) /\ steps \in Nat
    /\ status = "start" => /\ mainMemory = [p \in 0..(MemorySize - 1) |-> 0]
                           /\ steps = 0 /\ due = NoLoad /\ written = {}
    /\ status # "start" => conversion \in {"done", "failed", "killed"}

(* The load under way and the program counters agree with the history. *)
HistoryInv ==
    status = "user" =>
        /\ due.reg \in GPRegs /\ registers[LoadReg] = due.reg
        /\ due.reg # 0 /\ ran.name # "LWL" => registers[LoadValueReg] = due.value

SlotInv == status = "user" /\ steps > 0 /\ registers[PCReg] = registers[PrevPCReg] + 4 => registers[NextPCReg] = goes

(* Memory m holds the bytes of the sections of s and zeros elsewhere. *)
HoldsImage(m, s) ==
    /\ m \in Memories
    /\ \A j \in {j \in DOMAIN s : s[j].name \in {".text", ".data", ".rdata"}} : \A p \in Extent(s[j]) :
          m[p] = s[j].data[p - s[j].paddr + 1]
    /\ \A p \in DOMAIN m :
          (\A j \in {j \in DOMAIN s : s[j].name \in {".text", ".data", ".rdata"}} : p \notin Extent(s[j])) => m[p] = 0

(* The program is as it was loaded, in n pages. *)
Fresh(n) ==
    /\ n \in 1..NumPhysPages /\ DOMAIN pageTable = 0..(n - 1)
    /\ registers[StackReg] = n * PageSize - 16
    /\ HoldsImage(mainMemory, coff.sections)
    /\ \A j \in DOMAIN coff.sections :
          coff.sections[j].name \notin Dropped /\ coff.sections[j].size # 0 =>
             coff.sections[j].paddr + coff.sections[j].size <= n * PageSize - UserStacksAreaSize
    /\ n * PageSize \in Nat /\ n * PageSize <= MemorySize /\ (n * PageSize - 16) % 4 = 0

LoadInv == status = "user" => conversion = "done" /\ (steps = 0 => \E n : Fresh(n))

ProgramInv == ConversionInv /\ MachineInv /\ HistoryInv /\ LoadInv

-----------------------------------------------------------------------------
(* A step of the processor.                                                *)

(* The registers d after DelayedLoad, from those before it. *)
Delayed(d, r, g, w) ==
    /\ d \in [Registers -> Word] /\ d[LoadReg] = g /\ d[LoadValueReg] = w /\ d[0] = 0
    /\ \A x \in Registers \ {0, LoadReg, LoadValueReg} :
          d[x] = IF x = r[LoadReg] THEN r[LoadValueReg] ELSE r[x]

LEMMA DelayedLoadValue ==
    ASSUME NEW r \in [Registers -> Word], r[LoadReg] \in GPRegs, NEW g \in GPRegs, NEW w \in Word
    PROVE  Delayed(DelayedLoad(r, g, w), r, g, w)
<1> DEFINE d == DelayedLoad(r, g, w)
<1> DEFINE f == [r EXCEPT ![r[LoadReg]] = r[LoadValueReg]]
<1>1. r[LoadReg] \in Registers /\ {0, LoadReg, LoadValueReg} \subseteq Registers
      /\ 0 \notin {LoadReg, LoadValueReg} /\ LoadReg # LoadValueReg
  BY RegisterNumbers
<1>2. g \in Word /\ 0 \in Word
  BY RegisterNumbers
<1>3. f \in [Registers -> Word] /\ \A x \in Registers : f[x] = IF x = r[LoadReg] THEN r[LoadValueReg] ELSE r[x]
  BY <1>1
<1>4. d = [f EXCEPT ![LoadReg] = g, ![LoadValueReg] = w, ![0] = 0]
  BY DEF DelayedLoad
<1> HIDE DEF f, d
<1>5. d \in [Registers -> Word]
  BY <1>1, <1>2, <1>3, <1>4
<1>6. d[LoadReg] = g /\ d[LoadValueReg] = w /\ d[0] = 0
  BY <1>1, <1>3, <1>4
<1>7. ASSUME NEW x \in Registers \ {0, LoadReg, LoadValueReg} PROVE d[x] = f[x]
  BY <1>3, <1>4
<1> QED
  BY <1>3, <1>5, <1>6, <1>7 DEF Delayed, d

(* What a register holds once the load under way is finished. *)
Finished(g) ==
    IF g # 0 /\ g = registers[LoadReg] THEN registers[LoadValueReg] ELSE registers[g]

LEMMA TrapRegisters ==
    ASSUME RegistersOK(registers), NEW w \in Word,
           NEW d, d = DelayedLoad([registers EXCEPT ![BadVAddrReg] = w], 0, 0)
    PROVE  /\ RegistersOK(d) /\ d[LoadReg] = 0 /\ d[BadVAddrReg] = w
           /\ \A g \in GPRegs \cup HiReg..PrevPCReg : d[g] = Finished(g)
<1> DEFINE r == [registers EXCEPT ![BadVAddrReg] = w]
<1>0. registers \in [Registers -> Word] /\ registers[LoadReg] \in GPRegs /\ registers[0] = 0
  BY DEF RegistersOK
<1>1. BadVAddrReg \in Registers /\ BadVAddrReg \notin {0, LoadReg, LoadValueReg} /\ BadVAddrReg \notin GPRegs
      /\ {0, LoadReg, LoadValueReg} \subseteq Registers /\ 0 \in GPRegs /\ 0 \in Word
  BY RegisterNumbers
<1>2. r \in [Registers -> Word] /\ r[BadVAddrReg] = w
      /\ \A x \in Registers : x # BadVAddrReg => r[x] = registers[x]
  BY <1>0, <1>1
<1> HIDE DEF r
<1>3. r[LoadReg] = registers[LoadReg] /\ r[LoadValueReg] = registers[LoadValueReg] /\ r[LoadReg] \in GPRegs
  BY <1>0, <1>1, <1>2
<1> DEFINE zero == 0
<1>4. d = DelayedLoad(r, zero, zero) /\ zero \in GPRegs /\ zero \in Word
  BY <1>1 DEF r
<1>5. /\ d \in [Registers -> Word] /\ d[LoadReg] = 0 /\ d[LoadValueReg] = 0 /\ d[0] = 0
      /\ \A x \in Registers \ {0, LoadReg, LoadValueReg} :
            d[x] = IF x = r[LoadReg] THEN r[LoadValueReg] ELSE r[x]
  <2> HIDE DEF zero
  <2>1. Delayed(DelayedLoad(r, zero, zero), r, zero, zero)
    BY <1>2, <1>3, <1>4, DelayedLoadValue
  <2>2. Delayed(d, r, zero, zero)
    BY <1>4, <2>1
  <2> QED
    BY <2>2 DEF zero, Delayed
<1>6. d[BadVAddrReg] = w
  BY <1>1, <1>2, <1>3, <1>5
<1>7. ASSUME NEW g \in GPRegs \cup HiReg..PrevPCReg PROVE d[g] = Finished(g)
  <2>1. g \in Registers /\ g \notin {LoadReg, LoadValueReg, BadVAddrReg}
    BY RegisterNumbers
  <2>2. CASE g = 0
    BY <1>0, <1>5, <2>2 DEF Finished
  <2>3. CASE g # 0
    BY <1>2, <1>3, <1>5, <2>1, <2>3 DEF Finished
  <2> QED
    BY <2>2, <2>3
<1> QED
  BY <1>1, <1>5, <1>6, <1>7 DEF RegistersOK

(* An interrupt between two instructions finishes the load under way. *)
LEMMA InterruptRegisters ==
    ASSUME RegistersOK(registers), Interrupted
    PROVE  /\ RegistersOK(registers') /\ registers'[LoadReg] = 0
           /\ \A g \in GPRegs \cup HiReg..PrevPCReg : registers'[g] = Finished(g)
<1> DEFINE w == registers[BadVAddrReg]
           d == registers'
<1>1. BadVAddrReg \in Registers
  BY RegisterNumbers
<1>2. w \in Word /\ [registers EXCEPT ![BadVAddrReg] = w] = registers
  BY <1>1 DEF RegistersOK
<1>3. d = DelayedLoad(registers, 0, 0)
  BY DEF Interrupted
<1> HIDE DEF w, d
<1>4. d = DelayedLoad([registers EXCEPT ![BadVAddrReg] = w], 0, 0)
  BY <1>2, <1>3
<1> QED
  BY <1>2, <1>4, TrapRegisters DEF d

LEMMA NoAccess ==
    ASSUME NEW s, NEW r, s.name \notin Loads \cup Stores
    PROVE  Named(s, r) = {} /\ Aligned(s, r)
BY DEF Named, Aligned, Loads, Stores

FetchOK(n) == registers[PCReg] % 4 = 0 /\ registers[PCReg] \in PageSize..(n * PageSize - 1)

AccessOK(s, n) == Aligned(s, registers) /\ \A b \in Named(s, registers) : b \in PageSize..(n * PageSize - 1)

(* The instruction raises an exception. *)
Trapped(s, n) ==
    /\ which' \in {"Syscall", "PageFault", "AddressError", "Overflow", "IllegalInstr"}
    /\ which' \in {"AddressError", "PageFault"} <=> ~(FetchOK(n) /\ AccessOK(s, n))
    /\ which' \in {"AddressError", "PageFault"} =>
          registers'[BadVAddrReg] \in {registers[PCReg], Address(s, registers),
                                       Address(s, registers) - (Address(s, registers) % 4)}
    /\ which' = "Overflow" <=> FetchOK(n) /\ Overflows(Decode(Assembled(s)), registers)
    /\ status' = IF which' = "Syscall" /\ registers'[2] = 0 THEN "halted" ELSE "aborted"
    /\ RegistersOK(registers') /\ registers'[LoadReg] = 0
    /\ \A g \in GPRegs \cup HiReg..PrevPCReg : registers'[g] = Finished(g)
    /\ mainMemory' = mainMemory /\ pageTable' = TableOf(n, written)

(* The host kills the processor's process. *)
Crashed(s, n) ==
    /\ FetchOK(n) /\ AccessOK(s, n) /\ HostTraps(Decode(Assembled(s)), registers)
    /\ status' = "crashed"
    /\ UNCHANGED <<which, registers, mainMemory>> /\ pageTable' = TableOf(n, written)

(* The instruction is executed. *)
Executed(s, n) ==
    LET i == Decode(Assembled(s))
        done == Computed(i, registers)
    IN  /\ FetchOK(n) /\ AccessOK(s, n) /\ ~HostTraps(i, registers) /\ ~Overflows(i, registers)
        /\ UNCHANGED <<status, which>>
        /\ RegistersOK(registers')
        /\ registers'[LoadReg] = IF s.name \in Loads THEN s.rt ELSE 0
        /\ s.name \in Loads /\ s.name # "LWL" => registers'[LoadValueReg] = Loaded(s, registers, mainMemory)
        /\ registers'[PrevPCReg] = registers[PCReg]
        /\ registers'[PCReg] = registers[NextPCReg]
        /\ registers'[NextPCReg] = PcAfter(i, done)
        /\ \A g \in (GPRegs \cup {HiReg, LoReg}) \ {0} :
              registers'[g] = IF g = registers[LoadReg] THEN registers[LoadValueReg] ELSE done[g]
        /\ mainMemory' \in Memories
        /\ \A p \in 0..(MemorySize - 1) :
              mainMemory'[p] = IF s.name \in Stores /\ p \in Named(s, registers)
                                 THEN ByteOf(registers[s.rt], RegisterByte(s, registers, p))
                                 ELSE mainMemory[p]
        /\ pageTable' = TableOf(n, IF s.name \in Stores
                                     THEN written \cup {b \div PageSize : b \in Named(s, registers)} ELSE written)

(* The fetch goes through exactly when the program counter is the aligned  *)
(* address of a page from 1 to n - 1.                                      *)
LEMMA FetchOutcome ==
    ASSUME RegistersOK(registers), NEW n \in 1..NumPhysPages, pageTable = TableOf(n, written)
    PROVE  /\ FetchFault \in {"None", "AddressError", "PageFault"}
           /\ FetchFault = "None" <=> FetchOK(n)
           /\ FetchFault = "None" => Fetched = TableOf(n, written)
<1> DEFINE a == registers[PCReg]
           v == a \div PageSize
<1>1. a \in Nat
  BY RegisterNumbers, WordsAreNumbers DEF RegistersOK
<1>2. v \in Nat /\ (v < n <=> a < n * PageSize) /\ (v > 0 <=> a >= PageSize) /\ n \in Nat
      /\ n * PageSize \in Int /\ PageSize \in Nat
  <2>1. n \in Nat /\ PageSize \in Nat
    BY TranslationAssumption
  <2>2. n * PageSize \in Int
    BY <2>1
  <2> QED
    BY <1>1, <2>1, <2>2, MappedAddress
<1>3. FetchFault = IF Misaligned(a, 4) \/ v >= n THEN "AddressError" ELSE IF v = 0 THEN "PageFault" ELSE "None"
  BY <1>1, TableFault DEF FetchFault
<1>4. Misaligned(a, 4) <=> a % 4 # 0
  BY DEF Misaligned
<1> HIDE DEF v
<1>5. FetchFault = "None" <=> a % 4 = 0 /\ v < n /\ v > 0
  BY <1>2, <1>3, <1>4
<1>6. a \in PageSize..(n * PageSize - 1) <=> a >= PageSize /\ a < n * PageSize
  <2> DEFINE top == n * PageSize
  <2>1. top \in Int
    BY <1>2
  <2> HIDE DEF top, a
  <2>2. a \in PageSize..(top - 1) <=> a >= PageSize /\ a < top
    BY <1>1, <1>2, <2>1
  <2> QED
    BY <2>2 DEF top
<1>7. FetchFault = "None" <=> FetchOK(n)
  BY <1>2, <1>5, <1>6 DEF FetchOK
<1>8. ASSUME FetchFault = "None" PROVE Fetched = TableOf(n, written)
  <2>1. a \div PageSize < n /\ a \div PageSize > 0
    BY <1>5, <1>8 DEF v
  <2>2. Touched(TableOf(n, written), a, FALSE) = TableOf(n, IF FALSE THEN written \cup {a \div PageSize} ELSE written)
    BY <1>1, <2>1, TableTouched
  <2> QED
    BY <2>2 DEF Fetched
<1> QED
  BY <1>3, <1>7, <1>8

(* The outcome of RaiseException. *)
LEMMA Raises ==
    ASSUME RegistersOK(registers), NEW exception, NEW w \in Word, NEW table,
           RaiseException(exception, w, table)
    PROVE  /\ which' = exception /\ mainMemory' = mainMemory /\ pageTable' = table
           /\ status' = IF exception = "Syscall" /\ registers'[2] = 0 THEN "halted" ELSE "aborted"
           /\ RegistersOK(registers') /\ registers'[LoadReg] = 0 /\ registers'[BadVAddrReg] = w
           /\ \A g \in GPRegs \cup HiReg..PrevPCReg : registers'[g] = Finished(g)
<1>1. registers' = DelayedLoad([registers EXCEPT ![BadVAddrReg] = w], 0, 0)
  BY DEF RaiseException
<1>2. /\ RegistersOK(registers') /\ registers'[LoadReg] = 0 /\ registers'[BadVAddrReg] = w
      /\ \A g \in GPRegs \cup HiReg..PrevPCReg : registers'[g] = Finished(g)
  BY <1>1, TrapRegisters
<1> QED
  BY <1>2 DEF RaiseException, ExceptionHandler, SC_Halt

LEMMA FetchTrapOutcome ==
    ASSUME MachineInv, NEW s \in Sources, NEW n \in 1..NumPhysPages, pageTable = TableOf(n, written), FetchTraps
    PROVE  Trapped(s, n)
<1>0. RegistersOK(registers) /\ registers[PCReg] \in Word
  BY RegisterNumbers DEF MachineInv, RegistersOK
<1>1. FetchFault \in {"AddressError", "PageFault"} /\ ~FetchOK(n)
  BY <1>0, FetchOutcome DEF FetchTraps
<1>2. RaiseException(FetchFault, registers[PCReg], pageTable)
  BY DEF FetchTraps
<1>3. /\ which' = FetchFault /\ mainMemory' = mainMemory /\ pageTable' = pageTable
      /\ status' = IF FetchFault = "Syscall" /\ registers'[2] = 0 THEN "halted" ELSE "aborted"
      /\ RegistersOK(registers') /\ registers'[LoadReg] = 0 /\ registers'[BadVAddrReg] = registers[PCReg]
      /\ \A g \in GPRegs \cup HiReg..PrevPCReg : registers'[g] = Finished(g)
  BY <1>0, <1>2, Raises
<1> HIDE DEF FetchTraps
<1> QED
  BY <1>1, <1>3 DEF Trapped

LEMMA TrapOutcome ==
    ASSUME MachineInv, NEW s \in Sources, NEW n \in 1..NumPhysPages, pageTable = TableOf(n, written),
           Traps(Decode(Assembled(s)))
    PROVE  Trapped(s, n)
<1> DEFINE i == Decode(Assembled(s))
           x == ExceptionOf(i, registers, Fetched)
           bad == IF i.opCode \in Loads \cup Stores THEN Accessed(i, registers) ELSE 0
<1>0. RegistersOK(registers) /\ registers \in [Registers -> Word]
  BY DEF MachineInv, RegistersOK
<1>1. FetchFault = "None" /\ x # "None" /\ RaiseException(x, bad, Fetched)
  BY DEF Traps
<1>2. FetchOK(n) /\ Fetched = TableOf(n, written)
  BY <1>0, <1>1, FetchOutcome
<1>3. Meaning(s, i)
  <2>1. s.name \in Names
    BY DEF Sources
  <2> QED
    BY <2>1, Decoded
<1> HIDE DEF i
<1>4. bad \in Word
  <2>1. i.opCode \in Loads \cup Stores => Accessed(i, registers) \in Word
    BY <1>0, <1>3, AccessGeometry
  <2>2. 0 \in Word
    BY RegisterNumbers
  <2> QED
    BY <2>1, <2>2
<1>5. /\ which' = x /\ mainMemory' = mainMemory /\ pageTable' = TableOf(n, written)
      /\ status' = IF x = "Syscall" /\ registers'[2] = 0 THEN "halted" ELSE "aborted"
      /\ RegistersOK(registers') /\ registers'[LoadReg] = 0 /\ registers'[BadVAddrReg] = bad
      /\ \A g \in GPRegs \cup HiReg..PrevPCReg : registers'[g] = Finished(g)
  <2> HIDE DEF x, bad
  <2> QED
    BY <1>0, <1>1, <1>2, <1>4, Raises
<1>6. i.opCode \in Loads \cup Stores <=> s.name \in Loads \cup Stores
  BY <1>3, Fields
<1>7. CASE i.opCode \in Loads \cup Stores
  <2>0. ~Overflows(i, registers) /\ i.opCode # "SYSCALL" /\ i.opCode \notin {"RES", "UNIMP"}
    BY <1>7 DEF Overflows, Loads, Stores
  <2>1. x = Fault(TableOf(n, written), Accessed(i, registers), Size(i.opCode), i.opCode \in Stores)
    <3> DEFINE f == Fault(Fetched, Accessed(i, registers), Size(i.opCode), i.opCode \in Stores)
    <3>1. x = CASE i.opCode \in Loads \cup Stores -> f
                [] Overflows(i, registers) -> "Overflow"
                [] i.opCode = "SYSCALL" -> "Syscall"
                [] i.opCode \in {"RES", "UNIMP"} -> "IllegalInstr"
                [] OTHER -> "None"
      BY DEF ExceptionOf
    <3>2. f = Fault(TableOf(n, written), Accessed(i, registers), Size(i.opCode), i.opCode \in Stores)
      BY <1>2
    <3> HIDE DEF f, x
    <3>3. x = f
      BY <1>7, <2>0, <3>1
    <3> QED
      BY <3>2, <3>3
  <2>2. (i.opCode \in Stores) \in BOOLEAN
    OBVIOUS
  <2>3. x \in {"None", "AddressError", "PageFault"} /\ (x = "None" <=> AccessOK(s, n))
    <3> HIDE DEF x
    <3> QED
      BY <1>0, <1>3, <1>7, <2>1, <2>2, AccessAllowed DEF AccessOK
  <2>4. ~AccessOK(s, n) /\ x \in {"AddressError", "PageFault"}
    BY <1>1, <2>3
  <2>5. bad \in {Address(s, registers), Address(s, registers) - (Address(s, registers) % 4)}
    <3>1. Effective(i, registers) = Address(s, registers)
      BY <1>0, <1>3, <1>7, EffectiveAddress
    <3> QED
      BY <1>7, <3>1 DEF Accessed
  <2>6. ~Overflows(i, registers)
    BY <1>7 DEF Overflows, Loads, Stores
  <2> HIDE DEF x, bad
  <2> QED
    BY <1>5, <2>4, <2>5, <2>6 DEF Trapped, i
<1>8. CASE i.opCode \notin Loads \cup Stores
  <2>1. AccessOK(s, n)
    BY <1>6, <1>8, NoAccess DEF AccessOK
  <2>2. x \in {"Overflow", "Syscall", "IllegalInstr"} /\ (x = "Overflow" <=> Overflows(i, registers))
    <3>1. Overflows(i, registers) \in BOOLEAN
      BY DEF Overflows
    <3>2. Overflows(i, registers) => i.opCode \in {"ADD", "ADDI", "SUB"}
      BY DEF Overflows
    <3>3. x = CASE Overflows(i, registers) -> "Overflow"
                [] i.opCode = "SYSCALL" -> "Syscall"
                [] i.opCode \in {"RES", "UNIMP"} -> "IllegalInstr"
                [] OTHER -> "None"
      BY <1>8 DEF ExceptionOf
    <3> HIDE DEF x
    <3> QED
      BY <1>1, <3>1, <3>2, <3>3
  <2> HIDE DEF x, bad
  <2> QED
    BY <1>2, <1>5, <2>1, <2>2 DEF Trapped, i
<1> QED
  BY <1>7, <1>8

LEMMA CrashOutcome ==
    ASSUME MachineInv, NEW s \in Sources, NEW n \in 1..NumPhysPages, pageTable = TableOf(n, written),
           Crashes(Decode(Assembled(s)))
    PROVE  Crashed(s, n)
<1> DEFINE i == Decode(Assembled(s))
<1>0. RegistersOK(registers)
  BY DEF MachineInv
<1>1. FetchFault = "None" /\ HostTraps(i, registers)
  BY DEF Crashes
<1>2. FetchOK(n) /\ Fetched = TableOf(n, written)
  BY <1>0, <1>1, FetchOutcome
<1>3. s.name \in Names
  BY DEF Sources
<1>4. Meaning(s, i)
  BY <1>3, Decoded
<1>5. i.opCode = "DIV"
  BY <1>1 DEF HostTraps
<1> HIDE DEF i
<1>6. s.name \notin Loads \cup Stores
  <2>1. i.opCode \notin Loads \cup Stores
    BY <1>5 DEF Loads, Stores
  <2> QED
    BY <1>4, <2>1, Fields
<1>7. AccessOK(s, n)
  BY <1>6, NoAccess DEF AccessOK
<1> QED
  BY <1>1, <1>2, <1>7 DEF Crashes, Crashed, i

(* The program counters a after Advanced; the other registers are as before. *)
Moved(a, r, w) ==
    /\ a \in [Registers -> Word] /\ a[PrevPCReg] = r[PCReg] /\ a[PCReg] = r[NextPCReg] /\ a[NextPCReg] = w
    /\ \A x \in Registers \ {PrevPCReg, PCReg, NextPCReg} : a[x] = r[x]

LEMMA AdvancedValue ==
    ASSUME NEW r \in [Registers -> Word], NEW w \in Word
    PROVE  Moved(Advanced(r, w), r, w)
<1>1. {PCReg, NextPCReg, PrevPCReg} \subseteq Registers /\ PCReg # NextPCReg /\ PrevPCReg \notin {PCReg, NextPCReg}
  BY RegisterNumbers
<1>2. Advanced(r, w) = [r EXCEPT ![PrevPCReg] = r[PCReg], ![PCReg] = r[NextPCReg], ![NextPCReg] = w]
  BY DEF Advanced
<1>3. Advanced(r, w) \in [Registers -> Word]
  BY <1>1, <1>2
<1>4. \A x \in Registers \ {PrevPCReg, PCReg, NextPCReg} : Advanced(r, w)[x] = r[x]
  BY <1>1, <1>2
<1>5. /\ Advanced(r, w)[PrevPCReg] = r[PCReg] /\ Advanced(r, w)[PCReg] = r[NextPCReg]
      /\ Advanced(r, w)[NextPCReg] = w
  BY <1>1, <1>2
<1> QED
  BY <1>3, <1>4, <1>5 DEF Moved

(* An instruction that completes raises no exception. *)
LEMMA NoException ==
    ASSUME NEW i, NEW r, NEW table, ExceptionOf(i, r, table) = "None"
    PROVE  /\ i.opCode \in Loads \cup Stores =>
                 Fault(table, Accessed(i, r), Size(i.opCode), i.opCode \in Stores) = "None"
           /\ ~Overflows(i, r) /\ i.opCode \notin {"SYSCALL", "RES", "UNIMP"}
<1> DEFINE f == Fault(table, Accessed(i, r), Size(i.opCode), i.opCode \in Stores)
<1>1. "None" = CASE i.opCode \in Loads \cup Stores -> f
                 [] Overflows(i, r) -> "Overflow"
                 [] i.opCode = "SYSCALL" -> "Syscall"
                 [] i.opCode \in {"RES", "UNIMP"} -> "IllegalInstr"
                 [] OTHER -> "None"
  BY DEF ExceptionOf
<1>2. Overflows(i, r) => i.opCode \in {"ADD", "ADDI", "SUB"}
  BY DEF Overflows
<1>3. Overflows(i, r) \in BOOLEAN
  BY DEF Overflows
<1>4. (Loads \cup Stores) \cap {"ADD", "ADDI", "SUB", "SYSCALL", "RES", "UNIMP"} = {}
  BY DEF Loads, Stores
<1> HIDE DEF f
<1>5. CASE i.opCode \in Loads \cup Stores
  <2>1. ~Overflows(i, r) /\ i.opCode \notin {"SYSCALL", "RES", "UNIMP"}
    BY <1>2, <1>4, <1>5
  <2>2. f = "None"
    BY <1>1, <1>5, <2>1
  <2> QED
    BY <2>1, <2>2 DEF f
<1>6. CASE i.opCode \notin Loads \cup Stores
  <2>1. ~Overflows(i, r)
    BY <1>1, <1>2, <1>3, <1>6
  <2> QED
    BY <1>1, <1>6, <2>1
<1> QED
  BY <1>5, <1>6

LEMMA CompletedAccess ==
    ASSUME RegistersOK(registers), NEW s \in Sources, NEW n \in 1..NumPhysPages, NEW i, Meaning(s, i),
           ExceptionOf(i, registers, TableOf(n, written)) = "None", i.opCode \in Loads \cup Stores
    PROVE  /\ AccessOK(s, n) /\ Accessed(i, registers) \in Nat
           /\ PhysAddr(TableOf(n, written), Accessed(i, registers)) = Accessed(i, registers)
           /\ Accessed(i, registers)..(Accessed(i, registers) + Size(i.opCode) - 1) \subseteq 0..(MemorySize - 1)
           /\ Touched(TableOf(n, written), Accessed(i, registers), i.opCode \in Stores) =
                 TableOf(n, IF i.opCode \in Stores
                              THEN written \cup {b \div PageSize : b \in Named(s, registers)} ELSE written)
<1> DEFINE a == Accessed(i, registers)
           writing == i.opCode \in Stores
           x == Fault(TableOf(n, written), a, Size(i.opCode), writing)
           v == a \div PageSize
<1>1. registers \in [Registers -> Word] /\ writing \in BOOLEAN
  BY DEF RegistersOK
<1>2. x = "None"
  BY NoException
<1>3. /\ Aligned(s, registers) /\ \A b \in Named(s, registers) : b \in PageSize..(n * PageSize - 1)
      /\ v < n /\ v > 0
      /\ {b \div PageSize : b \in Named(s, registers)} = {v}
      /\ a..(a + Size(i.opCode) - 1) \subseteq 0..(MemorySize - 1)
  <2> HIDE DEF x, writing
  <2>1. x = Fault(TableOf(n, written), Accessed(i, registers), Size(i.opCode), writing)
    BY DEF x
  <2> QED
    BY <1>1, <1>2, <2>1, AccessAllowed
<1>4. a \in Nat
  BY <1>1, AccessGeometry
<1>5. PhysAddr(TableOf(n, written), a) = a
  BY <1>3, <1>4, TableAddress
<1>6. Touched(TableOf(n, written), a, writing) = TableOf(n, IF writing THEN written \cup {v} ELSE written)
  <2>1. writing \in BOOLEAN /\ a \in Nat /\ a \div PageSize < n /\ a \div PageSize > 0
    BY <1>1, <1>3, <1>4
  <2> HIDE DEF writing, a
  <2> QED
    BY <2>1, TableTouched, Zenon
<1> HIDE DEF v, a
<1> QED
  BY <1>3, <1>4, <1>5, <1>6 DEF AccessOK, a

LEMMA ExecuteOutcome ==
    ASSUME MachineInv, HistoryInv, NEW s \in Sources, NEW n \in 1..NumPhysPages, pageTable = TableOf(n, written),
           Completes(Decode(Assembled(s)))
    PROVE  Executed(s, n)
<1> DEFINE i == Decode(Assembled(s))
           loads == i.opCode \in Loads
           stores == i.opCode \in Stores
           done == Computed(i, registers)
           addr == Accessed(i, registers)
           reg == IF loads THEN i.rt ELSE 0
           value == IF loads THEN LoadValue(i, registers, mainMemory, pageTable) ELSE 0
           loaded == DelayedLoad(done, reg, value)
           after == PcAfter(i, done)
           pages == IF stores THEN written \cup {b \div PageSize : b \in Named(s, registers)} ELSE written
<1>0. RegistersOK(registers) /\ registers \in [Registers -> Word] /\ registers[LoadReg] \in GPRegs
      /\ mainMemory \in [0..(MemorySize - 1) -> Byte]
  BY DEF MachineInv, RegistersOK, Memories
<1>1. /\ status = "user" /\ FetchFault = "None" /\ ExceptionOf(i, registers, Fetched) = "None"
      /\ ~HostTraps(i, registers) /\ UNCHANGED <<status, which>>
      /\ registers' = Advanced(loaded, after)
      /\ mainMemory' = IF stores THEN Stored(mainMemory, PhysAddr(pageTable, addr), Size(i.opCode),
                                             StoreValue(i, registers, mainMemory, pageTable))
                       ELSE mainMemory
      /\ pageTable' = IF loads \/ stores THEN Touched(Fetched, addr, stores) ELSE Fetched
  BY DEF Completes
<1>2. Meaning(s, i)
  <2>1. s.name \in Names
    BY DEF Sources
  <2> QED
    BY <2>1, Decoded
<1>3. FetchOK(n) /\ Fetched = TableOf(n, written)
  BY <1>0, <1>1, FetchOutcome
<1>4. ExceptionOf(i, registers, TableOf(n, written)) = "None"
  BY <1>1, <1>3
<1> HIDE DEF i
<1>5. /\ i.opCode \in Loads \cup Stores <=> s.name \in Loads \cup Stores
      /\ loads <=> s.name \in Loads
      /\ stores <=> s.name \in Stores
      /\ loads => i.rt = s.rt /\ s.rt \in GPRegs
  BY <1>2, Fields
<1>6. ~Overflows(i, registers)
  BY <1>4, NoException
<1>7. AccessOK(s, n)
  <2>1. CASE i.opCode \in Loads \cup Stores
    BY <1>0, <1>2, <1>4, <2>1, CompletedAccess
  <2>2. CASE i.opCode \notin Loads \cup Stores
    BY <1>5, <2>2, NoAccess DEF AccessOK
  <2> QED
    BY <2>1, <2>2
<1>a. i.opCode \in Loads \cup Stores =>
         /\ Aligned(s, registers) /\ PhysAddr(pageTable, addr) = addr
         /\ addr..(addr + Size(i.opCode) - 1) \subseteq 0..(MemorySize - 1)
         /\ Touched(Fetched, addr, stores) = TableOf(n, pages)
  <2> SUFFICES ASSUME i.opCode \in Loads \cup Stores
               PROVE  /\ Aligned(s, registers) /\ PhysAddr(pageTable, addr) = addr
                      /\ addr..(addr + Size(i.opCode) - 1) \subseteq 0..(MemorySize - 1)
                      /\ Touched(Fetched, addr, stores) = TableOf(n, pages)
    OBVIOUS
  <2>1. /\ PhysAddr(TableOf(n, written), addr) = addr
        /\ addr..(addr + Size(i.opCode) - 1) \subseteq 0..(MemorySize - 1)
        /\ Touched(TableOf(n, written), addr, stores) = TableOf(n, pages)
    BY <1>0, <1>2, <1>4, CompletedAccess
  <2> QED
    BY <1>3, <1>7, <2>1 DEF AccessOK
<1>8. pageTable' = TableOf(n, pages)
  <2>1. CASE i.opCode \in Loads \cup Stores
    BY <1>1, <1>a, <2>1
  <2>2. CASE i.opCode \notin Loads \cup Stores
    BY <1>1, <1>3, <2>2
  <2> QED
    BY <2>1, <2>2
<1>9. done \in [Registers -> Word] /\ done[LoadReg] = registers[LoadReg]
      /\ done[LoadValueReg] = registers[LoadValueReg]
      /\ done[PCReg] = registers[PCReg] /\ done[NextPCReg] = registers[NextPCReg]
  BY <1>0, <1>2, ComputedTyped
<1>10. reg \in GPRegs /\ value \in Word
       /\ (loads /\ s.name # "LWL" => value = Loaded(s, registers, mainMemory))
  <2>1. 0 \in GPRegs /\ 0 \in Word
    BY RegisterNumbers
  <2>2. ASSUME loads
        PROVE  /\ LoadValue(i, registers, mainMemory, pageTable) \in Word
               /\ s.name # "LWL" => LoadValue(i, registers, mainMemory, pageTable) = Loaded(s, registers, mainMemory)
    <3>1. registers[LoadReg] = due.reg
      BY <1>1 DEF HistoryInv
    <3>2. i.opCode \in Loads /\ i.opCode \in Loads \cup Stores
      BY <2>2
    <3>3. /\ Aligned(s, registers) /\ PhysAddr(pageTable, Accessed(i, registers)) = Accessed(i, registers)
          /\ Accessed(i, registers)..(Accessed(i, registers) + Size(i.opCode) - 1) \subseteq 0..(MemorySize - 1)
      BY <1>a, <3>2
    <3> QED
      BY <1>0, <1>2, <3>1, <3>2, <3>3, LoadValueTyped
  <2> HIDE DEF loads
  <2> QED
    BY <1>5, <2>1, <2>2
<1>11. after \in Word
  BY <1>2, <1>9, PcAfterTyped
<1> HIDE DEF done, reg, value, after, addr
<1>12. Delayed(loaded, done, reg, value)
  BY <1>0, <1>9, <1>10, DelayedLoadValue
<1> HIDE DEF loaded
<1>13. loaded \in [Registers -> Word]
  BY <1>12 DEF Delayed
<1>14. Moved(registers', loaded, after)
  BY <1>1, <1>11, <1>13, AdvancedValue
<1>15. RegistersOK(registers') /\ registers'[LoadReg] = reg /\ registers'[LoadValueReg] = value
  <2>1. {0, LoadReg, LoadValueReg} \subseteq Registers \ {PrevPCReg, PCReg, NextPCReg}
    BY RegisterNumbers
  <2>2. registers'[0] = 0 /\ registers'[LoadReg] = reg /\ registers'[LoadValueReg] = value
    BY <1>12, <1>14, <2>1 DEF Delayed, Moved
  <2> QED
    BY <1>10, <1>14, <2>2 DEF Moved, RegistersOK
<1>16. registers'[PrevPCReg] = registers[PCReg] /\ registers'[PCReg] = registers[NextPCReg]
       /\ registers'[NextPCReg] = after
  <2>1. {PCReg, NextPCReg} \subseteq Registers \ {0, LoadReg, LoadValueReg}
        /\ registers[LoadReg] \notin {PCReg, NextPCReg}
    BY <1>0, RegisterNumbers
  <2>2. loaded[PCReg] = done[PCReg] /\ loaded[NextPCReg] = done[NextPCReg]
    BY <1>9, <1>12, <2>1 DEF Delayed
  <2> QED
    BY <1>9, <1>14, <2>2 DEF Moved
<1>17. ASSUME NEW g \in (GPRegs \cup {HiReg, LoReg}) \ {0}
       PROVE  registers'[g] = IF g = registers[LoadReg] THEN registers[LoadValueReg] ELSE done[g]
  <2>1. g \in Registers \ {0, LoadReg, LoadValueReg} /\ g \in Registers \ {PrevPCReg, PCReg, NextPCReg}
    BY RegisterNumbers
  <2>2. registers'[g] = loaded[g]
    BY <1>14, <2>1 DEF Moved
  <2>3. loaded[g] = IF g = done[LoadReg] THEN done[LoadValueReg] ELSE done[g]
    BY <1>12, <2>1 DEF Delayed
  <2> QED
    BY <1>9, <2>2, <2>3
<1>18. /\ mainMemory' \in Memories
       /\ \A p \in 0..(MemorySize - 1) :
             mainMemory'[p] = IF s.name \in Stores /\ p \in Named(s, registers)
                                THEN ByteOf(registers[s.rt], RegisterByte(s, registers, p))
                                ELSE mainMemory[p]
  <2>1. CASE stores
    <3>0. i.opCode \in Stores /\ i.opCode \in Loads \cup Stores /\ s.name \in Stores
      BY <1>5, <2>1
    <3>1. mainMemory' = Stored(mainMemory, Accessed(i, registers), Size(i.opCode),
                               StoreValue(i, registers, mainMemory, pageTable))
      BY <1>1, <1>a, <3>0 DEF addr
    <3>2. /\ Aligned(s, registers) /\ PhysAddr(pageTable, Accessed(i, registers)) = Accessed(i, registers)
          /\ Accessed(i, registers)..(Accessed(i, registers) + Size(i.opCode) - 1) \subseteq 0..(MemorySize - 1)
      BY <1>a, <3>0 DEF addr
    <3>3. /\ mainMemory' \in [0..(MemorySize - 1) -> Byte]
          /\ \A p \in 0..(MemorySize - 1) :
                mainMemory'[p] = IF p \in Named(s, registers)
                                   THEN ByteOf(registers[s.rt], RegisterByte(s, registers, p))
                                   ELSE mainMemory[p]
      <4>1. StoredRight(mainMemory', s, registers, mainMemory)
        BY <1>0, <1>2, <3>0, <3>1, <3>2, StoredBytes
      <4> QED
        BY <4>1 DEF StoredRight
    <3> QED
      BY <3>0, <3>3 DEF Memories
  <2>2. CASE ~stores
    <3>1. s.name \notin Stores /\ mainMemory' = mainMemory
      BY <1>1, <1>5, <2>2
    <3> QED
      BY <1>0, <3>1 DEF Memories
  <2> QED
    BY <2>1, <2>2
<1>19. pageTable' = TableOf(n, IF s.name \in Stores
                                 THEN written \cup {b \div PageSize : b \in Named(s, registers)} ELSE written)
  BY <1>5, <1>8
<1>20. reg = (IF s.name \in Loads THEN s.rt ELSE 0)
  BY <1>5 DEF reg
<1> QED
  BY <1>1, <1>3, <1>5, <1>6, <1>7, <1>10, <1>15, <1>16, <1>17, <1>18, <1>19, <1>20
     DEF Executed, i, done, after

(* Every step of a program ends in one of three ways. *)
Outcome(s, n) ==
    /\ pageTable = TableOf(n, written) /\ status = "user"
    /\ Trapped(s, n) \/ Crashed(s, n) \/ Executed(s, n)

LEMMA StepOutcome ==
    ASSUME MachineInv, HistoryInv, Runs
    PROVE  \E s \in Sources : \E n \in 1..NumPhysPages : Outcome(s, n) /\ Remembers(s) /\ UNCHANGED cvars
<1>1. PICK s \in program[steps + 1] : Step(s) /\ steps < Len(program)
  BY DEF Runs
<1>2. s \in Sources
  <2>1. steps + 1 \in DOMAIN program /\ program \in Seq(SUBSET Sources)
    BY <1>1 DEF MachineInv
  <2> QED
    BY <2>1
<1> DEFINE i == Decode(Assembled(s))
<1>3. status = "user" /\ (FetchTraps \/ Traps(i) \/ Crashes(i) \/ Completes(i))
  BY <1>1 DEF Step, OneInstruction, FetchTraps, Traps, Crashes, Completes
<1>4. PICK n \in 1..NumPhysPages : pageTable = TableOf(n, written)
  BY <1>3 DEF MachineInv
<1>5. Trapped(s, n) \/ Crashed(s, n) \/ Executed(s, n)
  <2>1. FetchTraps => Trapped(s, n)
    BY <1>2, <1>4, FetchTrapOutcome
  <2>2. Traps(i) => Trapped(s, n)
    BY <1>2, <1>4, TrapOutcome
  <2>3. Crashes(i) => Crashed(s, n)
    BY <1>2, <1>4, CrashOutcome
  <2>4. Completes(i) => Executed(s, n)
    BY <1>2, <1>4, ExecuteOutcome
  <2> HIDE DEF i
  <2> QED
    BY <1>3, <2>1, <2>2, <2>3, <2>4
<1>6. Outcome(s, n) /\ Remembers(s) /\ UNCHANGED cvars
  BY <1>1, <1>3, <1>4, <1>5 DEF Outcome, Step
<1> QED
  BY <1>2, <1>6

-----------------------------------------------------------------------------
(* Every step preserves the invariant.                                     *)

LEMMA RunsKeepsMachine ==
    ASSUME MachineInv, HistoryInv, Runs
    PROVE  MachineInv' /\ HistoryInv'
<1>1. PICK s \in Sources, n \in 1..NumPhysPages : Outcome(s, n) /\ Remembers(s) /\ UNCHANGED cvars
  BY StepOutcome
<1>2. /\ steps' = steps + 1 /\ ran' = s /\ program' = program /\ conversion' = conversion
      /\ due' = IF status' = "user" /\ s.name \in Loads
                  THEN [reg |-> s.rt, value |-> Loaded(s, registers, mainMemory)] ELSE NoLoad
      /\ written' = IF status' = "user" /\ s.name \in Stores
                      THEN written \cup {b \div PageSize : b \in Named(s, registers)} ELSE written
  BY <1>1 DEF Remembers, cvars
<1>3. /\ pageTable = TableOf(n, written) /\ status = "user"
      /\ Trapped(s, n) \/ Crashed(s, n) \/ Executed(s, n)
  BY <1>1 DEF Outcome
<1>4. /\ RegistersOK(registers) /\ mainMemory \in Memories /\ program \in Seq(SUBSET Sources) /\ steps \in Nat
      /\ which = "None" /\ conversion \in {"done", "failed", "killed"}
  BY <1>3 DEF MachineInv
<1>5. status' \in Statuses \ {"start"} /\ which' \in Exceptions /\ (status' = "user" => which' = "None")
  <2>1. CASE Trapped(s, n)
    BY <2>1 DEF Trapped, Statuses, Exceptions
  <2>2. CASE Crashed(s, n)
    BY <1>4, <2>2 DEF Crashed, Statuses, Exceptions
  <2>3. CASE Executed(s, n)
    BY <1>3, <1>4, <2>3 DEF Executed, Statuses, Exceptions
  <2> QED
    BY <1>3, <2>1, <2>2, <2>3
<1>6. RegistersOK(registers') /\ mainMemory' \in Memories
  <2>1. CASE Trapped(s, n)
    BY <1>4, <2>1 DEF Trapped
  <2>2. CASE Crashed(s, n)
    BY <1>4, <2>2 DEF Crashed
  <2>3. CASE Executed(s, n)
    BY <2>3 DEF Executed
  <2> QED
    BY <1>3, <2>1, <2>2, <2>3
<1>7. pageTable' = TableOf(n, written')
  <2>1. CASE Trapped(s, n)
    BY <1>2, <2>1 DEF Trapped
  <2>2. CASE Crashed(s, n)
    BY <1>2, <2>2 DEF Crashed
  <2>3. CASE Executed(s, n)
    BY <1>2, <1>3, <2>3 DEF Executed
  <2> QED
    BY <1>3, <2>1, <2>2, <2>3
<1>8. MachineInv'
  <2>1. \E m \in 1..NumPhysPages : pageTable' = TableOf(m, written')
    BY <1>7
  <2>2. program' \in Seq(SUBSET Sources) /\ steps' \in Nat
    BY <1>2, <1>4
  <2> QED
    BY <1>2, <1>4, <1>5, <1>6, <2>1, <2>2 DEF MachineInv, TableOf, Memories, Statuses
<1>9. HistoryInv'
  <2> SUFFICES ASSUME status' = "user"
               PROVE  /\ due'.reg \in GPRegs /\ registers'[LoadReg] = due'.reg
                      /\ due'.reg # 0 /\ ran'.name # "LWL" => registers'[LoadValueReg] = due'.value
    BY DEF HistoryInv
  <2>1. Executed(s, n)
    BY <1>3 DEF Trapped, Crashed
  <2>2. /\ registers'[LoadReg] = IF s.name \in Loads THEN s.rt ELSE 0
        /\ s.name \in Loads /\ s.name # "LWL" => registers'[LoadValueReg] = Loaded(s, registers, mainMemory)
    BY <2>1 DEF Executed
  <2>3. s.rt \in GPRegs /\ 0 \in GPRegs
    BY RegisterNumbers DEF Sources
  <2> QED
    BY <1>2, <2>2, <2>3 DEF NoLoad
<1> QED
  BY <1>8, <1>9

LEMMA SectionFacts ==
    ASSUME NEW image \in Images
    PROVE  /\ Len(image.sections) \in Nat /\ DOMAIN image.sections = 1..Len(image.sections)
           /\ \A j \in DOMAIN image.sections :
                 /\ image.sections[j].paddr \in Nat /\ image.sections[j].size \in Nat
                 /\ image.sections[j].data \in Seq(Byte)
           /\ OneAfterTheOther(image.sections)
<1>1. image.sections \in Seq([name : STRING, paddr : Nat, size : Nat, data : Seq(Nat)])
      /\ OneAfterTheOther(image.sections)
  BY ImagesAssumption
<1>2. \A j \in DOMAIN image.sections : image.sections[j].data \in Seq(Byte)
  BY CasesAssumption DEF Byte
<1>3. \A j \in DOMAIN image.sections : image.sections[j].paddr \in Nat /\ image.sections[j].size \in Nat
  <2> DEFINE S == [name : STRING, paddr : Nat, size : Nat, data : Seq(Nat)]
             q == image.sections
  <2>1. q \in Seq(S)
    BY <1>1
  <2>2. \A x \in S : x.paddr \in Nat /\ x.size \in Nat
    OBVIOUS
  <2> HIDE DEF S, q
  <2>3. \A j \in DOMAIN q : q[j] \in S
    BY <2>1
  <2> QED
    BY <2>2, <2>3 DEF q
<1>4. Len(image.sections) \in Nat /\ DOMAIN image.sections = 1..Len(image.sections)
  BY <1>1
<1> QED
  BY <1>1, <1>2, <1>3, <1>4

(* A section that is not behind a gap starts where the ones before it end. *)
LEMMA Contiguous ==
    ASSUME NEW image \in Images, NEW k \in DOMAIN image.sections, NEW T \in Nat,
           image.sections[k].name \notin Dropped, ~BehindGap(image.sections, k),
           \A j \in 1..(k - 1) :
              image.sections[j].name \notin Dropped /\ (image.sections[j].size # 0 \/ ~BehindGap(image.sections, j)) =>
                 image.sections[j].paddr + image.sections[j].size <= T
    PROVE  image.sections[k].paddr <= T
<1> DEFINE s == image.sections
<1>1. /\ Len(s) \in Nat /\ DOMAIN s = 1..Len(s)
      /\ \A j \in DOMAIN s : s[j].paddr \in Nat /\ s[j].size \in Nat
      /\ OneAfterTheOther(s)
  BY SectionFacts
<1> HIDE DEF s
<1>2. IF k = 1 THEN s[k].paddr = 0
      ELSE /\ s[k - 1].name \notin Dropped
           /\ s[k - 1].name \in Uninitialized => s[k].name \in Uninitialized
           /\ s[k].paddr = s[k - 1].paddr + s[k - 1].size
  BY <1>1 DEF OneAfterTheOther, BehindGap, s
<1>3. CASE k = 1
  BY <1>2, <1>3 DEF s
<1>4. CASE k # 1
  <2>1. k - 1 \in 1..(k - 1) /\ k - 1 \in DOMAIN s /\ k \in Nat
    BY <1>1, <1>4 DEF s
  <2>2. BehindGap(s, k - 1) => BehindGap(s, k)
    BY <1>1, <1>2, <1>4, <2>1 DEF BehindGap
  <2>3. s[k - 1].paddr + s[k - 1].size <= T
    BY <1>2, <1>4, <2>1, <2>2 DEF s
  <2> QED
    BY <1>2, <1>4, <2>3 DEF s
<1> QED
  BY <1>3, <1>4

(* new is body and perhaps more. *)
Longer(new, body) ==
    new \in Seq(Byte) /\ Len(body) <= Len(new) /\ \A m \in 1..Len(body) : new[m] = body[m]

LEMMA KeepsPlaced ==
    ASSUME NEW segment, NEW names, NEW s, NEW k \in Nat \ {0}, NEW body \in Seq(Byte), NEW new,
           Placed(segment, names, s, k, body), s[k].name \notin names \/ s[k].size = 0,
           \A j \in 1..(k - 1) : s[j].size \in Nat, Longer(new, body)
    PROVE  Placed(segment, names, s, k + 1, new)
<1> DEFINE kept(n) == {j \in 1..(n - 1) : s[j].name \in names /\ s[j].size # 0}
<1>1. kept(k + 1) = kept(k)
  <2>1. 1..((k + 1) - 1) = 1..(k - 1) \cup {k}
    OBVIOUS
  <2> QED
    BY <2>1
<1>2. CASE segment = NoSegment /\ kept(k) = {}
  BY <1>1, <1>2 DEF Placed
<1>3. ASSUME NEW j \in kept(k), kept(k) = {j},
             segment.virtualAddr = s[j].paddr, segment.size = s[j].size,
             segment.inFileAddr \in Nat, segment.inFileAddr + s[j].size <= Len(body),
             \A m \in 1..s[j].size : body[segment.inFileAddr + m] = s[j].data[m]
      PROVE  Placed(segment, names, s, k + 1, new)
  <2>1. s[j].size \in Nat /\ Len(body) \in Nat /\ Len(new) \in Nat
    BY <1>3 DEF Longer
  <2>2. segment.inFileAddr + s[j].size <= Len(new)
    BY <1>3, <2>1 DEF Longer
  <2>3. ASSUME NEW m \in 1..s[j].size PROVE new[segment.inFileAddr + m] = s[j].data[m]
    <3>1. segment.inFileAddr + m \in 1..Len(body)
      BY <1>3, <2>1
    <3> QED
      BY <1>3, <3>1 DEF Longer
  <2> QED
    BY <1>1, <1>3, <2>2, <2>3 DEF Placed
<1> QED
  BY <1>2, <1>3 DEF Placed

LEMMA Appended ==
    ASSUME NEW body \in Seq(Byte), NEW t \in Seq(Byte)
    PROVE  /\ Longer(body \o t, body) /\ Len(body \o t) = Len(body) + Len(t)
           /\ \A m \in 1..Len(t) : (body \o t)[Len(body) + m] = t[m]
<1> DEFINE L == Len(body)
           N == Len(t)
           new == body \o t
<1>1. /\ new \in Seq(Byte) /\ Len(new) = L + N
      /\ \A i \in 1..(L + N) : new[i] = IF i <= L THEN body[i] ELSE t[i - L]
  BY ConcatProperties, Zenon
<1>2. L \in Nat /\ N \in Nat
  OBVIOUS
<1> HIDE DEF L, N, new
<1>3. ASSUME NEW m \in 1..N PROVE new[L + m] = t[m]
  <2>1. L + m \in 1..(L + N) /\ ~(L + m <= L) /\ (L + m) - L = m
    BY <1>2
  <2> QED
    BY <1>1, <2>1
<1>4. L <= Len(new) /\ \A m \in 1..L : new[m] = body[m]
  BY <1>1, <1>2
<1> QED
  BY <1>1, <1>3, <1>4 DEF Longer, L, N, new

LEMMA NewPlaced ==
    ASSUME NEW names, NEW s, NEW k \in Nat \ {0}, NEW body \in Seq(Byte), NEW segment,
           s[k].data \in Seq(Byte), s[k].size \in Nat \ {0}, Len(s[k].data) >= s[k].size, s[k].name \in names,
           {j \in 1..(k - 1) : s[j].name \in names /\ s[j].size # 0} = {},
           segment.virtualAddr = s[k].paddr, segment.inFileAddr = Len(body), segment.size = s[k].size
    PROVE  Placed(segment, names, s, k + 1, body \o SubSeq(s[k].data, 1, s[k].size))
<1> DEFINE kept(n) == {j \in 1..(n - 1) : s[j].name \in names /\ s[j].size # 0}
           t == SubSeq(s[k].data, 1, s[k].size)
<1>1. kept(k + 1) = {k}
  <2>1. 1..((k + 1) - 1) = 1..(k - 1) \cup {k}
    OBVIOUS
  <2> QED
    BY <2>1
<1>2. t \in Seq(Byte) /\ Len(t) = s[k].size /\ \A m \in 1..s[k].size : t[m] = s[k].data[m]
  OBVIOUS
<1> HIDE DEF t
<1> DEFINE L == Len(body)
           size == s[k].size
           new == body \o t
<1>3. L \in Nat /\ size \in Nat
  OBVIOUS
<1>c. Len(new) = L + Len(t) /\ \A m \in 1..Len(t) : new[L + m] = t[m]
  BY <1>2, Appended, Zenon
<1> HIDE DEF new, L, size
<1>4. Len(new) = L + size
  BY <1>2, <1>c DEF size
<1>5. ASSUME NEW m \in 1..size PROVE new[L + m] = s[k].data[m]
  BY <1>2, <1>c DEF size
<1>6. k \in kept(k + 1)
  BY <1>1
<1> HIDE DEF L, new, size
<1>7. segment.inFileAddr \in Nat /\ segment.inFileAddr + s[k].size <= Len(new)
  BY <1>3, <1>4 DEF L, size
<1>8. \A m \in 1..s[k].size : new[segment.inFileAddr + m] = s[k].data[m]
  BY <1>5 DEF L, size
<1>9. Placed(segment, names, s, k + 1, new)
  BY <1>1, <1>6, <1>7, <1>8 DEF Placed
<1> QED
  BY <1>9 DEF new, t

LEMMA FileFields ==
    ASSUME NEW f \in Files
    PROVE  /\ \A e \in BOOLEAN : LET g == [f EXCEPT !.exists = e]
                                 IN  g \in Files /\ g.exists = e /\ g.header = f.header /\ g.body = f.body
           /\ \A h \in Headers : LET g == [f EXCEPT !.header = h]
                                 IN  g \in Files /\ g.exists = f.exists /\ g.header = h /\ g.body = f.body
           /\ \A b \in Seq(Byte) : LET g == [f EXCEPT !.body = b]
                                   IN  g \in Files /\ g.exists = f.exists /\ g.header = f.header /\ g.body = b
BY DEF Files

LEMMA EmptyHeader == NoSegment \in Segments /\ NoHeader \in Headers /\ NoFile \in Files /\ EarlierFile \in Files
<1>1. NoSegment \in Segments /\ [NoSegment EXCEPT !.size = 1] \in Segments
  BY DEF NoSegment, Segments
<1>2. NoHeader \in Headers
  BY <1>1 DEF NoHeader, Headers
<1> DEFINE c == [NoSegment EXCEPT !.size = 1]
           h == [NoHeader EXCEPT !.noffMagic = "NOFFMAGIC", !.code = c]
<1> HIDE DEF c
<1>3. h \in Headers
  BY <1>1, <1>2 DEF Headers, c
<1>4. <<>> \in Seq(Byte) /\ <<0>> \in Seq(Byte)
  BY ByteIsNat
<1>5. NoFile \in Files
  BY <1>2, <1>4 DEF NoFile, Files
<1> HIDE DEF h
<1>6. EarlierFile = [exists |-> TRUE, body |-> <<0>>, header |-> h]
  BY DEF EarlierFile, h, c
<1>7. EarlierFile \in Files
  BY <1>3, <1>4, <1>6 DEF Files
<1> QED
  BY <1>1, <1>2, <1>5, <1>7

LEMMA GiveUpKeeps ==
    ASSUME ConversionInv, GiveUp
    PROVE  ConversionInv'
<1>1. noffFile' \in Files /\ noffFile'.exists = FALSE
  BY FileFields DEF ConversionInv, GiveUp
<1> QED
  BY <1>1 DEF ConversionInv, GiveUp

LEMMA ReadHeadersKeeps ==
    ASSUME ConversionInv, ReadHeaders
    PROVE  ConversionInv'
<1>1. CASE GiveUp
  BY <1>1, GiveUpKeeps
<1>2. CASE /\ noffFile' = [NoFile EXCEPT !.exists = TRUE]
           /\ noffH' = [NoHeader EXCEPT !.noffMagic = "NOFFMAGIC"]
           /\ conversion' = "copying"
           /\ UNCHANGED <<coff, inNoffFile, section>>
  <2>1. noffFile' \in Files /\ noffFile'.header = NoHeader /\ noffFile'.body = <<>>
    <3>1. NoFile \in Files /\ NoFile.header = NoHeader /\ NoFile.body = <<>> /\ TRUE \in BOOLEAN
      BY EmptyHeader DEF NoFile
    <3> QED
      BY <1>2, <3>1, FileFields
  <2>2. noffH' \in Headers /\ noffH'.noffMagic = "NOFFMAGIC" /\ noffH'.code = NoSegment
        /\ noffH'.initData = NoSegment /\ noffH'.uninitData = NoSegment
    BY <1>2, EmptyHeader DEF Headers, NoHeader
  <2>3. section = 1 /\ inNoffFile = 0 /\ Len(coff.sections) \in Nat
    BY SectionFacts DEF ConversionInv, ReadHeaders
  <2>4. noffH'.uninitData.size = 0
    BY <2>2 DEF NoSegment
  <2>5. Converted(noffH', coff.sections, 1, noffFile'.body)
    <3>1. 1..(1 - 1) = {}
      OBVIOUS
    <3>2. \A segment, names, s, body : segment = NoSegment => Placed(segment, names, s, 1, body)
      BY <3>1 DEF Placed
    <3> QED
      BY <2>2, <2>4, <3>1, <3>2 DEF Converted
  <2>6. inNoffFile = Len(noffFile'.body)
    BY <2>1, <2>3
  <2> QED
    BY <1>2, <2>1, <2>2, <2>3, <2>5, <2>6 DEF ConversionInv
<1> QED
  BY <1>1, <1>2 DEF ReadHeaders

LEMMA KilledKeeps ==
    ASSUME ConversionInv, Killed
    PROVE  ConversionInv'
BY DEF ConversionInv, Killed

LEMMA FinishKeeps ==
    ASSUME ConversionInv, Finish
    PROVE  ConversionInv'
<1>1. CASE GiveUp
  BY <1>1, GiveUpKeeps
<1>2. CASE /\ noffFile' = [noffFile EXCEPT !.header = noffH]
           /\ conversion' = "done"
           /\ UNCHANGED <<coff, noffH, inNoffFile, section>>
  <2>1. noffFile \in Files /\ noffH \in Headers /\ conversion = "copying"
    BY DEF ConversionInv, Finish
  <2>2. noffFile' \in Files /\ noffFile'.header = noffH /\ noffFile'.body = noffFile.body
    BY <1>2, <2>1, FileFields
  <2>3. section = Len(coff.sections) + 1
    BY SectionFacts DEF ConversionInv, Finish
  <2> QED
    BY <1>2, <2>1, <2>2, <2>3 DEF ConversionInv
<1> QED
  BY <1>1, <1>2 DEF Finish

LEMMA TotalIsNat ==
    ASSUME NEW h \in Headers
    PROVE  /\ h.code \in Segments /\ h.initData \in Segments /\ h.uninitData \in Segments
           /\ h.code.size \in Nat /\ h.initData.size \in Nat /\ h.uninitData.size \in Nat
           /\ h.uninitData.virtualAddr \in Nat /\ Total(h) \in Nat
<1>1. h.code \in Segments /\ h.initData \in Segments /\ h.uninitData \in Segments
  BY DEF Headers
<1>2. \A segment \in Segments : segment.size \in Nat /\ segment.virtualAddr \in Nat
  BY DEF Segments
<1> QED
  BY <1>1, <1>2 DEF Total

LEMMA WhileCopying ==
    ASSUME ConversionInv, Copying
    PROVE  /\ coff \in Images /\ section \in DOMAIN coff.sections /\ section \in Nat \ {0}
           /\ conversion = "copying" /\ Len(coff.sections) \in Nat /\ section + 1 \in 1..(Len(coff.sections) + 1)
           /\ noffFile \in Files /\ noffFile.header = NoHeader /\ noffFile.body \in Seq(Byte)
           /\ noffH \in Headers /\ inNoffFile \in Nat /\ inNoffFile = Len(noffFile.body)
           /\ Converted(noffH, coff.sections, section, noffFile.body)
           /\ coff.sections[section].size \in Nat /\ coff.sections[section].paddr \in Nat
           /\ coff.sections[section].data \in Seq(Byte)
           /\ \A j \in 1..(section - 1) : coff.sections[j].size \in Nat /\ coff.sections[j].paddr \in Nat
           /\ 1..((section + 1) - 1) = 1..(section - 1) \cup {section}
<1>1. coff \in Images /\ conversion = "copying" /\ section \in 1..(Len(coff.sections) + 1)
      /\ section <= Len(coff.sections) /\ noffFile \in Files
  BY DEF ConversionInv, Copying
<1>2. /\ Len(coff.sections) \in Nat /\ DOMAIN coff.sections = 1..Len(coff.sections)
      /\ \A j \in DOMAIN coff.sections : /\ coff.sections[j].paddr \in Nat /\ coff.sections[j].size \in Nat
                                         /\ coff.sections[j].data \in Seq(Byte)
  BY <1>1, SectionFacts
<1>3. section \in DOMAIN coff.sections /\ section \in Nat \ {0} /\ section + 1 \in 1..(Len(coff.sections) + 1)
      /\ 1..((section + 1) - 1) = 1..(section - 1) \cup {section} /\ 1..(section - 1) \subseteq DOMAIN coff.sections
  BY <1>1, <1>2
<1>4. noffFile.body \in Seq(Byte)
  BY <1>1 DEF Files
<1> QED
  BY <1>1, <1>2, <1>3, <1>4 DEF ConversionInv

(* The sections up to k end below T. *)
EndBelow(s, k, T) ==
    \A j \in 1..(k - 1) :
        s[j].name \notin Dropped /\ (s[j].size # 0 \/ ~BehindGap(s, j)) => s[j].paddr + s[j].size <= T

LEMMA OneMoreEnds ==
    ASSUME ConversionInv, Copying, NEW T \in Nat, Total(noffH) <= T,
           \/ Current.name \in Dropped
           \/ Current.size = 0
           \/ Current.paddr + Current.size <= T
    PROVE  EndBelow(coff.sections, section + 1, T)
<1> DEFINE s == coff.sections
           k == section
<1>1. /\ coff \in Images /\ k \in DOMAIN s /\ 1..((k + 1) - 1) = 1..(k - 1) \cup {k}
      /\ s[k].size \in Nat /\ s[k].paddr \in Nat /\ noffH \in Headers
      /\ \A j \in 1..(k - 1) : s[j].size \in Nat /\ s[j].paddr \in Nat
      /\ Converted(noffH, s, k, noffFile.body)
  BY WhileCopying
<1>2. Total(noffH) \in Nat
  BY <1>1, TotalIsNat
<1>3. \A j \in 1..(k - 1) : s[j].name \notin Dropped /\ (s[j].size # 0 \/ ~BehindGap(s, j)) =>
                               s[j].paddr + s[j].size <= Total(noffH)
  BY <1>1 DEF Converted
<1>4. ASSUME s[k].name \notin Dropped, ~BehindGap(s, k)
      PROVE  s[k].paddr <= Total(noffH)
  BY <1>1, <1>2, <1>3, <1>4, Contiguous
<1>5. s[k].name \notin Dropped /\ (s[k].size # 0 \/ ~BehindGap(s, k)) => s[k].paddr + s[k].size <= T
  <2>1. CASE s[k].size = 0
    BY <1>1, <1>2, <1>4, <2>1
  <2>2. CASE s[k].size # 0
    BY <2>2 DEF Current
  <2> QED
    BY <2>1, <2>2
<1>6. \A j \in 1..(k - 1) : s[j].name \notin Dropped /\ (s[j].size # 0 \/ ~BehindGap(s, j)) =>
                               s[j].paddr + s[j].size <= T
  <2> HIDE DEF s, k
  <2>1. \A x, y, z, t \in Nat : x + y <= z /\ z <= t => x + y <= t
    OBVIOUS
  <2> QED
    BY <1>1, <1>2, <1>3, <2>1
<1> HIDE DEF s, k
<1> QED
  BY <1>1, <1>5, <1>6 DEF EndBelow, s, k

LEMMA DropKeeps ==
    ASSUME ConversionInv, Drop
    PROVE  ConversionInv'
<1> DEFINE s == coff.sections
           k == section
           h == noffH
           body == noffFile.body
<1>0. Copying /\ (Current.size = 0 \/ Current.name \in Dropped) /\ section' = section + 1
      /\ UNCHANGED <<coff, noffFile, noffH, inNoffFile, conversion>>
  BY DEF Drop
<1>1. /\ k \in Nat \ {0} /\ 1..((k + 1) - 1) = 1..(k - 1) \cup {k}
      /\ body \in Seq(Byte) /\ Converted(h, s, k, body) /\ k + 1 \in 1..(Len(s) + 1) /\ conversion = "copying"
      /\ \A j \in 1..(k - 1) : s[j].size \in Nat
      /\ h \in Headers
  BY <1>0, WhileCopying
<1>2. Longer(body, body)
  BY <1>1 DEF Longer
<1>3. ASSUME NEW segment, NEW names, names \cap Dropped = {}, Placed(segment, names, s, k, body)
      PROVE  Placed(segment, names, s, k + 1, body)
  <2>1. s[k].name \notin names \/ s[k].size = 0
    BY <1>0, <1>3 DEF Current
  <2> HIDE DEF s, k, body
  <2> QED
    BY <1>1, <1>2, <1>3, <2>1, KeepsPlaced
<1>4. Placed(h.code, {".text"}, s, k + 1, body) /\ Placed(h.initData, {".data", ".rdata"}, s, k + 1, body)
  BY <1>1, <1>3 DEF Converted, Dropped
<1>5. EndBelow(s, k + 1, Total(h))
  <2>1. Total(noffH) \in Nat
    BY <1>1, TotalIsNat
  <2> QED
    BY <1>0, <2>1, OneMoreEnds
<1>6. \A j \in 1..((k + 1) - 1) : s[j].name \in Uninitialized /\ s[j].size # 0 => h.uninitData.size # 0
  BY <1>0, <1>1 DEF Converted, Current, Uninitialized, Dropped
<1>7. Converted(h, s, k + 1, body)
  <2> HIDE DEF s, k, h, body
  <2> QED
    BY <1>1, <1>4, <1>5, <1>6 DEF Converted, EndBelow
<1> QED
  BY <1>0, <1>1, <1>7 DEF ConversionInv

LEMMA HeaderFields ==
    ASSUME NEW h \in Headers, NEW g \in Segments
    PROVE  /\ LET c == [h EXCEPT !["code"] = g]
              IN  /\ c \in Headers /\ c.noffMagic = h.noffMagic /\ c.code = g
                  /\ c.initData = h.initData /\ c.uninitData = h.uninitData
           /\ LET c == [h EXCEPT !["initData"] = g]
              IN  /\ c \in Headers /\ c.noffMagic = h.noffMagic /\ c.code = h.code
                  /\ c.initData = g /\ c.uninitData = h.uninitData
           /\ LET c == [h EXCEPT !.uninitData = g]
              IN  /\ c \in Headers /\ c.noffMagic = h.noffMagic /\ c.code = h.code
                  /\ c.initData = h.initData /\ c.uninitData = g
BY DEF Headers

LEMMA BssKeeps ==
    ASSUME ConversionInv, Bss
    PROVE  ConversionInv'
<1> DEFINE s == coff.sections
           k == section
           c == s[k]
           h == noffH
           bss == h.uninitData
           body == noffFile.body
           new == IF bss.size # 0 THEN [bss EXCEPT !.size = @ + c.size]
                  ELSE [virtualAddr |-> c.paddr, inFileAddr |-> -1, size |-> c.size]
<1>0. Copying /\ c.size # 0 /\ c.name \in Uninitialized
  BY DEF Bss, Current
<1>1. /\ k \in Nat \ {0} /\ 1..((k + 1) - 1) = 1..(k - 1) \cup {k} /\ coff \in Images /\ k \in DOMAIN s
      /\ body \in Seq(Byte) /\ Converted(h, s, k, body) /\ k + 1 \in 1..(Len(s) + 1) /\ conversion = "copying"
      /\ \A j \in 1..(k - 1) : s[j].size \in Nat
      /\ h \in Headers /\ c.size \in Nat /\ c.paddr \in Nat
  BY <1>0, WhileCopying
<1>2. CASE GiveUp
  BY <1>2, GiveUpKeeps
<1>3. CASE /\ ~(bss.size # 0 /\ c.paddr > bss.virtualAddr + bss.size)
           /\ noffH' = [noffH EXCEPT !.uninitData = new]
           /\ section' = section + 1
           /\ UNCHANGED <<coff, noffFile, inNoffFile, conversion>>
  <2>1. /\ bss \in Segments /\ bss.size \in Nat /\ bss.virtualAddr \in Nat
        /\ h.code.size \in Nat /\ h.initData.size \in Nat /\ Total(h) \in Nat
    BY <1>1, TotalIsNat
  <2> HIDE DEF bss, h, c
  <2>2. /\ new \in Segments /\ new.size = bss.size + c.size
        /\ new.virtualAddr = IF bss.size # 0 THEN bss.virtualAddr ELSE c.paddr
    <3>1. CASE bss.size # 0
      <4> DEFINE z == bss.size + c.size
      <4>1. new = [bss EXCEPT !.size = z] /\ z \in Nat
        BY <1>1, <2>1, <3>1
      <4> HIDE DEF z
      <4>2. new \in Segments /\ new.size = z /\ new.virtualAddr = bss.virtualAddr
        BY <2>1, <4>1 DEF Segments
      <4> HIDE DEF new
      <4> QED
        BY <3>1, <4>2 DEF z
    <3>2. CASE bss.size = 0
      <4>1. new = [virtualAddr |-> c.paddr, inFileAddr |-> -1, size |-> c.size]
        BY <3>2
      <4>2. new \in Segments /\ new.size = c.size /\ new.virtualAddr = c.paddr
        BY <1>1, <4>1 DEF Segments
      <4> HIDE DEF new
      <4> QED
        BY <1>1, <3>2, <4>2
    <3> QED
      BY <2>1, <3>1, <3>2
  <2> HIDE DEF new
  <2>3. /\ noffH' \in Headers /\ noffH'.noffMagic = h.noffMagic /\ noffH'.code = h.code
        /\ noffH'.initData = h.initData /\ noffH'.uninitData = new
    BY <1>1, <1>3, <2>2, HeaderFields DEF h
  <2>4. Total(noffH') = Total(h) + c.size
    <3>1. \A x, y, z, t \in Nat : x + y + (z + t) = (x + y + z) + t
      OBVIOUS
    <3>2. Total(noffH') = h.code.size + h.initData.size + (bss.size + c.size)
      BY <2>2, <2>3 DEF Total
    <3>3. Total(h) = h.code.size + h.initData.size + bss.size
      BY DEF Total, bss
    <3> QED
      BY <1>1, <2>1, <3>1, <3>2, <3>3
  <2>5. c.paddr <= Total(h)
    <3>1. CASE bss.size # 0
      <4>1. bss.virtualAddr + bss.size <= Total(h)
        BY <1>1, <3>1 DEF Converted, bss
      <4> QED
        BY <1>1, <1>3, <2>1, <3>1, <4>1
    <3>2. CASE bss.size = 0
      <4>1. \A j \in 1..(k - 1) : ~(s[j].name \in Uninitialized /\ s[j].size # 0)
        BY <1>1, <3>2 DEF Converted, bss
      <4>2. ~BehindGap(s, k)
        <5>1. DOMAIN s = 1..Len(s) /\ Len(s) \in Nat
          BY <1>1, SectionFacts
        <5> QED
          BY <1>1, <4>1, <5>1 DEF BehindGap
      <4>3. \A j \in 1..(k - 1) :
               s[j].name \notin Dropped /\ (s[j].size # 0 \/ ~BehindGap(s, j)) => s[j].paddr + s[j].size <= Total(h)
        BY <1>1 DEF Converted
      <4>4. s[k].name \notin Dropped
        BY <1>0 DEF Uninitialized, Dropped, c
      <4> QED
        BY <1>1, <2>1, <4>2, <4>3, <4>4, Contiguous DEF c
    <3> QED
      BY <3>1, <3>2
  <2>6. EndBelow(s, k + 1, Total(noffH'))
    <3>1. Total(noffH') \in Nat /\ Total(noffH) <= Total(noffH') /\ Current.paddr + Current.size <= Total(noffH')
      BY <1>1, <2>1, <2>4, <2>5 DEF Current, h, c
    <3> QED
      BY <1>0, <3>1, OneMoreEnds
  <2>7. Longer(body, body)
    BY <1>1 DEF Longer
  <2>8. ASSUME NEW segment, NEW names, names \cap Uninitialized = {}, Placed(segment, names, s, k, body)
        PROVE  Placed(segment, names, s, k + 1, body)
    <3>1. s[k].name \notin names
      BY <1>0, <2>8 DEF c
    <3> HIDE DEF s, k, body
    <3> QED
      BY <1>1, <2>7, <2>8, <3>1, KeepsPlaced
  <2>9. Placed(h.code, {".text"}, s, k + 1, body) /\ Placed(h.initData, {".data", ".rdata"}, s, k + 1, body)
    <3>1. {".text"} \cap Uninitialized = {} /\ {".data", ".rdata"} \cap Uninitialized = {}
      BY DEF Uninitialized
    <3>2. Placed(h.code, {".text"}, s, k, body) /\ Placed(h.initData, {".data", ".rdata"}, s, k, body)
      BY <1>1 DEF Converted
    <3> QED
      BY <2>8, <3>1, <3>2
  <2>10. new.size # 0 /\ new.virtualAddr + new.size <= Total(noffH')
    <3>1. CASE bss.size # 0
      <4>1. bss.virtualAddr + bss.size <= Total(h)
        BY <1>1, <3>1 DEF Converted, bss
      <4> QED
        BY <1>0, <1>1, <2>1, <2>2, <2>4, <3>1, <4>1
    <3>2. CASE bss.size = 0
      BY <1>0, <1>1, <2>1, <2>2, <2>4, <2>5, <3>2
    <3> QED
      BY <3>1, <3>2
  <2>11. Converted(noffH', s, k + 1, body)
    <3>1. h.noffMagic = "NOFFMAGIC"
      BY <1>1 DEF Converted
    <3> HIDE DEF s, k, body
    <3> QED
      BY <2>3, <2>6, <2>9, <2>10, <3>1 DEF Converted, EndBelow
  <2> QED
    BY <1>1, <1>3, <2>3, <2>11 DEF ConversionInv
<1> QED
  BY <1>2, <1>3 DEF Bss, Current

(* The segment and the body that CopySegment writes. *)
NewSegment == [virtualAddr |-> Current.paddr, inFileAddr |-> inNoffFile, size |-> Current.size]
NewBody == noffFile.body \o SubSeq(Current.data, 1, Current.size)

LEMMA CopyFacts ==
    ASSUME ConversionInv, Copying, Current.size # 0, Current.name \notin Uninitialized \cup Dropped,
           Len(Current.data) >= Current.size
    PROVE  /\ NewSegment \in Segments /\ NewSegment.size = Current.size
           /\ NewBody \in Seq(Byte) /\ Len(NewBody) = inNoffFile + Current.size
           /\ Current.paddr <= Total(noffH)
           /\ \A names : /\ Current.name \in names
                         /\ {j \in 1..(section - 1) : coff.sections[j].name \in names /\ coff.sections[j].size # 0} = {}
                         => Placed(NewSegment, names, coff.sections, section + 1, NewBody)
           /\ \A segment, names : /\ Current.name \notin names
                                  /\ Placed(segment, names, coff.sections, section, noffFile.body)
                                  => Placed(segment, names, coff.sections, section + 1, NewBody)
<1> DEFINE s == coff.sections
           k == section
           body == noffFile.body
           t == SubSeq(s[k].data, 1, s[k].size)
<1>1. /\ k \in Nat \ {0} /\ 1..((k + 1) - 1) = 1..(k - 1) \cup {k} /\ coff \in Images /\ k \in DOMAIN s
      /\ body \in Seq(Byte) /\ Converted(noffH, s, k, body)
      /\ \A j \in 1..(k - 1) : s[j].size \in Nat
      /\ noffH \in Headers /\ inNoffFile \in Nat /\ inNoffFile = Len(body)
      /\ s[k].size \in Nat /\ s[k].paddr \in Nat /\ s[k].data \in Seq(Byte)
  BY WhileCopying
<1>2. NewSegment \in Segments /\ NewSegment.size = Current.size /\ NewSegment.virtualAddr = s[k].paddr
      /\ NewSegment.inFileAddr = Len(body)
  BY <1>1 DEF NewSegment, Segments, Current
<1>3. t \in Seq(Byte) /\ Len(t) = s[k].size
  BY <1>1 DEF Current
<1>4. Longer(NewBody, body) /\ Len(NewBody) = Len(body) + s[k].size
  <2> HIDE DEF t
  <2>1. NewBody = body \o t
    BY DEF NewBody, t, Current
  <2> QED
    BY <1>1, <1>3, <2>1, Appended
<1>5. Current.paddr <= Total(noffH)
  <2>1. s[k].name \notin Dropped /\ ~BehindGap(s, k)
    BY DEF Current, BehindGap
  <2>2. \A j \in 1..(k - 1) :
           s[j].name \notin Dropped /\ (s[j].size # 0 \/ ~BehindGap(s, j)) => s[j].paddr + s[j].size <= Total(noffH)
    BY <1>1 DEF Converted
  <2>3. Total(noffH) \in Nat
    BY <1>1, TotalIsNat
  <2> QED
    BY <1>1, <2>1, <2>2, <2>3, Contiguous DEF Current
<1>6. ASSUME NEW names, Current.name \in names,
             {j \in 1..(k - 1) : s[j].name \in names /\ s[j].size # 0} = {}
      PROVE  Placed(NewSegment, names, s, k + 1, NewBody)
  <2>1. /\ s[k].size \in Nat \ {0} /\ Len(s[k].data) >= s[k].size /\ s[k].name \in names
        /\ NewSegment.size = s[k].size
    BY <1>1, <1>2, <1>6 DEF Current
  <2>2. NewBody = body \o SubSeq(s[k].data, 1, s[k].size)
    BY DEF NewBody, Current
  <2> HIDE DEF s, k, body
  <2>3. Placed(NewSegment, names, s, k + 1, body \o SubSeq(s[k].data, 1, s[k].size))
    BY <1>1, <1>2, <1>6, <2>1, NewPlaced
  <2> QED
    BY <2>2, <2>3
<1>7. ASSUME NEW segment, NEW names, Current.name \notin names, Placed(segment, names, s, k, body)
      PROVE  Placed(segment, names, s, k + 1, NewBody)
  <2>1. s[k].name \notin names
    BY <1>7 DEF Current
  <2> HIDE DEF s, k, body
  <2> QED
    BY <1>1, <1>4, <1>7, <2>1, KeepsPlaced
<1>8. NewBody \in Seq(Byte) /\ Len(NewBody) = inNoffFile + Current.size
  BY <1>1, <1>4 DEF Longer, Current
<1> QED
  BY <1>2, <1>5, <1>6, <1>7, <1>8

(* A section copied into a segment of the header that was empty. *)
LEMMA CopyKeeps ==
    ASSUME ConversionInv, Copying, Current.size # 0, Current.name \notin Uninitialized \cup Dropped,
           Len(Current.data) >= Current.size,
           noffH' \in Headers, noffH'.noffMagic = noffH.noffMagic, noffH'.uninitData = noffH.uninitData,
           Total(noffH') = Total(noffH) + Current.size,
           Placed(noffH'.code, {".text"}, coff.sections, section + 1, NewBody),
           Placed(noffH'.initData, {".data", ".rdata"}, coff.sections, section + 1, NewBody),
           noffFile' = [noffFile EXCEPT !.body = NewBody], inNoffFile' = inNoffFile + Current.size,
           section' = section + 1, UNCHANGED <<coff, conversion>>
    PROVE  ConversionInv'
<1> DEFINE s == coff.sections
           k == section
           h == noffH
<1>1. /\ k \in Nat \ {0} /\ 1..((k + 1) - 1) = 1..(k - 1) \cup {k} /\ k + 1 \in 1..(Len(s) + 1)
      /\ Converted(h, s, k, noffFile.body) /\ conversion = "copying" /\ noffFile \in Files
      /\ noffFile.header = NoHeader /\ h \in Headers /\ inNoffFile \in Nat
      /\ s[k].size \in Nat /\ s[k].paddr \in Nat
  BY WhileCopying
<1>2. /\ NewBody \in Seq(Byte) /\ Len(NewBody) = inNoffFile + Current.size
      /\ Current.paddr <= Total(h)
  BY CopyFacts
<1>3. noffFile' \in Files /\ noffFile'.header = NoHeader /\ noffFile'.body = NewBody
  BY <1>1, <1>2, FileFields
<1>4. /\ Total(h) \in Nat /\ h.uninitData.size \in Nat /\ h.uninitData.virtualAddr \in Nat
      /\ Current.size \in Nat /\ Current.paddr \in Nat
  BY <1>1, TotalIsNat DEF Current
<1>5. EndBelow(s, k + 1, Total(noffH'))
  <2>1. Total(noffH') \in Nat /\ Total(noffH) <= Total(noffH') /\ Current.paddr + Current.size <= Total(noffH')
    BY <1>2, <1>4
  <2> QED
    BY <2>1, OneMoreEnds
<1>6. noffH'.uninitData.size # 0 => noffH'.uninitData.virtualAddr + noffH'.uninitData.size <= Total(noffH')
  <2>1. h.uninitData.size # 0 => h.uninitData.virtualAddr + h.uninitData.size <= Total(h)
    BY <1>1 DEF Converted
  <2> HIDE DEF h
  <2>2. Total(noffH') = Total(h) + Current.size /\ noffH'.uninitData = h.uninitData
    BY DEF h
  <2> QED
    BY <1>4, <2>1, <2>2
<1>7. \A j \in 1..((k + 1) - 1) : s[j].name \in Uninitialized /\ s[j].size # 0 => noffH'.uninitData.size # 0
  <2>1. \A j \in 1..(k - 1) : s[j].name \in Uninitialized /\ s[j].size # 0 => h.uninitData.size # 0
    BY <1>1 DEF Converted
  <2>2. s[k].name \notin Uninitialized
    BY DEF Current
  <2> QED
    BY <1>1, <2>1, <2>2
<1>8. noffH'.noffMagic = "NOFFMAGIC"
  BY <1>1 DEF Converted
<1>9. Converted(noffH', s, k + 1, NewBody)
  <2> HIDE DEF s, k, h
  <2>1. /\ Placed(noffH'.code, {".text"}, s, k + 1, NewBody)
        /\ Placed(noffH'.initData, {".data", ".rdata"}, s, k + 1, NewBody)
    BY DEF s, k
  <2> QED
    BY <1>5, <1>6, <1>7, <1>8, <2>1 DEF Converted, EndBelow
<1>10. inNoffFile' \in Nat /\ inNoffFile' = Len(noffFile'.body)
  BY <1>1, <1>2, <1>3, <1>4
<1> QED
  BY <1>1, <1>3, <1>9, <1>10 DEF ConversionInv

LEMMA TextKeeps ==
    ASSUME ConversionInv, Text
    PROVE  ConversionInv'
<1> DEFINE s == coff.sections
           k == section
           h == noffH
           kept == {j \in 1..(k - 1) : s[j].name \in {".text"} /\ s[j].size # 0}
<1>0. Copying /\ Current.size # 0 /\ Current.name = ".text" /\ Current.name \notin Uninitialized \cup Dropped
  BY DEF Text, Uninitialized, Dropped
<1>1. /\ k \in DOMAIN s /\ k \in Nat /\ coff \in Images /\ h \in Headers
      /\ Converted(h, s, k, noffFile.body) /\ Current.size \in Nat
  BY <1>0, WhileCopying DEF Current
<1>2. CASE GiveUp
  BY <1>2, GiveUpKeeps
<1>3. CASE /\ Len(Current.data) >= Current.size
           /\ noffH' = [noffH EXCEPT !["code"] = NewSegment]
           /\ noffFile' = [noffFile EXCEPT !.body = NewBody]
           /\ inNoffFile' = inNoffFile + Current.size
           /\ section' = section + 1
           /\ UNCHANGED <<coff, conversion>>
  <2>1. kept = {}
    <3>1. /\ DOMAIN s = 1..Len(s) /\ Len(s) \in Nat
          /\ \A i, j \in DOMAIN s : i < j => s[i].name # s[j].name
      BY <1>1, SectionFacts DEF OneAfterTheOther
    <3>2. s[k].name = ".text"
      BY <1>0 DEF Current
    <3> QED
      BY <1>1, <3>1, <3>2
  <2>2. h.code = NoSegment
    BY <1>1, <2>1 DEF Converted, Placed
  <2>3. /\ NewSegment \in Segments /\ NewSegment.size = Current.size
        /\ Placed(NewSegment, {".text"}, s, k + 1, NewBody)
        /\ Placed(h.initData, {".data", ".rdata"}, s, k + 1, NewBody)
    <3>1. Placed(h.initData, {".data", ".rdata"}, s, k, noffFile.body)
      BY <1>1 DEF Converted
    <3>2. Current.name \in {".text"} /\ Current.name \notin {".data", ".rdata"}
      BY <1>0
    <3> QED
      BY <1>0, <1>3, <2>1, <3>1, <3>2, CopyFacts
  <2>4. /\ noffH' \in Headers /\ noffH'.noffMagic = h.noffMagic /\ noffH'.code = NewSegment
        /\ noffH'.initData = h.initData /\ noffH'.uninitData = h.uninitData
    BY <1>1, <1>3, <2>3, HeaderFields
  <2>5. Total(noffH') = Total(h) + Current.size
    <3>1. h.code.size = 0 /\ h.initData.size \in Nat /\ h.uninitData.size \in Nat
      BY <1>1, <2>2, TotalIsNat DEF NoSegment
    <3>2. Total(noffH') = Current.size + h.initData.size + h.uninitData.size
      BY <2>3, <2>4 DEF Total
    <3>3. \A x, y, z \in Nat : x + y + z = (0 + y + z) + x
      OBVIOUS
    <3> QED
      BY <1>1, <3>1, <3>2, <3>3 DEF Total
  <2> QED
    BY <1>0, <1>3, <2>3, <2>4, <2>5, CopyKeeps
<1> QED
  BY <1>2, <1>3 DEF Text, CopySegment, NewSegment, NewBody

LEMMA DataKeeps ==
    ASSUME ConversionInv, Data
    PROVE  ConversionInv'
<1> DEFINE s == coff.sections
           k == section
           h == noffH
           kept == {j \in 1..(k - 1) : s[j].name \in {".data", ".rdata"} /\ s[j].size # 0}
<1>0. Copying /\ Current.size # 0 /\ Current.name \in {".data", ".rdata"}
      /\ Current.name \notin Uninitialized \cup Dropped
  BY DEF Data, Uninitialized, Dropped
<1>1. /\ h \in Headers /\ Converted(h, s, k, noffFile.body) /\ Current.size \in Nat
  BY <1>0, WhileCopying DEF Current
<1>2. CASE GiveUp
  BY <1>2, GiveUpKeeps
<1>3. CASE /\ h.initData.size = 0
           /\ Len(Current.data) >= Current.size
           /\ noffH' = [noffH EXCEPT !["initData"] = NewSegment]
           /\ noffFile' = [noffFile EXCEPT !.body = NewBody]
           /\ inNoffFile' = inNoffFile + Current.size
           /\ section' = section + 1
           /\ UNCHANGED <<coff, conversion>>
  <2>1. kept = {}
    BY <1>1, <1>3 DEF Converted, Placed
  <2>3. /\ NewSegment \in Segments /\ NewSegment.size = Current.size
        /\ Placed(NewSegment, {".data", ".rdata"}, s, k + 1, NewBody)
        /\ Placed(h.code, {".text"}, s, k + 1, NewBody)
    <3>1. Placed(h.code, {".text"}, s, k, noffFile.body)
      BY <1>1 DEF Converted
    <3>2. Current.name \in {".data", ".rdata"} /\ Current.name \notin {".text"}
      BY <1>0
    <3> QED
      BY <1>0, <1>3, <2>1, <3>1, <3>2, CopyFacts
  <2>4. /\ noffH' \in Headers /\ noffH'.noffMagic = h.noffMagic /\ noffH'.code = h.code
        /\ noffH'.initData = NewSegment /\ noffH'.uninitData = h.uninitData
    BY <1>1, <1>3, <2>3, HeaderFields
  <2>5. Total(noffH') = Total(h) + Current.size
    <3>1. h.initData.size = 0 /\ h.code.size \in Nat /\ h.uninitData.size \in Nat
      BY <1>1, <1>3, TotalIsNat
    <3>2. Total(noffH') = h.code.size + Current.size + h.uninitData.size
      BY <2>3, <2>4 DEF Total
    <3>3. \A x, y, z \in Nat : x + y + z = (x + 0 + z) + y
      OBVIOUS
    <3> QED
      BY <1>1, <3>1, <3>2, <3>3 DEF Total
  <2> QED
    BY <1>0, <1>3, <2>3, <2>4, <2>5, CopyKeeps
<1> QED
  BY <1>2, <1>3 DEF Data, CopySegment, NewSegment, NewBody

LEMMA ConvertKeeps ==
    ASSUME ConversionInv, Convert
    PROVE  ConversionInv'
<1>1. UnknownSegment => ConversionInv'
  BY GiveUpKeeps DEF UnknownSegment
<1> QED
  BY <1>1, ReadHeadersKeeps, TextKeeps, DataKeeps, BssKeeps, DropKeeps, FinishKeeps, KilledKeeps DEF Convert

(* The address space has room for the sections and the stack. *)
LEMMA RoomForTheStack ==
    ASSUME NEW T \in Nat
    PROVE  /\ NewPages(T) \in Nat \ {0}
           /\ NewPages(T) * PageSize \in Nat /\ NewPages(T) * PageSize >= T + UserStacksAreaSize
           /\ (NewPages(T) * PageSize - 16) % 4 = 0
           /\ ~TooBig(NewPages(T)) => NewPages(T) \in 1..NumPhysPages /\ NewPages(T) * PageSize <= MemorySize
<1> DEFINE n == NewPages(T)
           a == T + UserStacksAreaSize + PageSize - 1
           m == a % PageSize
<1>1. PageSize \in Nat \ {0} /\ PageSize % 4 = 0 /\ UserStacksAreaSize \in Nat /\ UserStacksAreaSize > 16
      /\ NumPhysPages \in Nat
  BY TranslationAssumption, AddrSpaceAssumption
<1>2. a \in Nat /\ a >= PageSize
  BY <1>1
<1>3. n = a \div PageSize
  BY DEF NewPages, divRoundUp
<1> HIDE DEF a
<1>4. n \in Nat /\ n > 0
  <2>1. a \div PageSize \in Nat /\ (a \div PageSize > 0 <=> a >= PageSize)
    BY <1>2, MappedAddress
  <2> QED
    BY <1>2, <1>3, <2>1
<1>5. a = n * PageSize + m /\ m \in 0..(PageSize - 1)
  BY <1>1, <1>2, <1>3, Division
<1> DEFINE top == n * PageSize
<1>6. top \in Nat
  BY <1>1, <1>4
<1> HIDE DEF top, m
<1>7. top >= T + UserStacksAreaSize
  BY <1>1, <1>5, <1>6 DEF top, a
<1>8. (top - 16) % 4 = 0
  <2> DEFINE c == PageSize \div 4
  <2>1. c \in Int /\ PageSize = c * 4
    BY <1>1
  <2> HIDE DEF c, n
  <2>2. top = (n * c) * 4 /\ n * c \in Int
    BY <1>4, <2>1 DEF top
  <2> DEFINE q == n * c
  <2> HIDE DEF q
  <2>3. top - 16 = (q - 4) * 4 /\ q - 4 \in Int
    BY <2>2 DEF q
  <2> QED
    BY <2>3, Multiple
<1>9. ~TooBig(n) => n \in 1..NumPhysPages /\ top <= MemorySize
  <2> SUFFICES ASSUME ~TooBig(n) PROVE n \in 1..NumPhysPages /\ top <= MemorySize
    OBVIOUS
  <2>1. n <= NumPhysPages
    BY <1>1, <1>4 DEF TooBig
  <2>2. n * PageSize <= NumPhysPages * PageSize
    <3> HIDE DEF n
    <3>1. CASE n = NumPhysPages
      BY <1>1, <3>1
    <3>2. CASE n < NumPhysPages
      <4>1. n * PageSize + PageSize <= NumPhysPages * PageSize
        BY <1>1, <1>4, <3>2, NextMultiple
      <4>2. NumPhysPages * PageSize \in Nat
        BY <1>1
      <4> QED
        BY <1>1, <1>6, <4>1, <4>2 DEF top
    <3> QED
      BY <1>1, <1>4, <2>1, <3>1, <3>2
  <2> QED
    BY <1>1, <1>4, <2>1, <2>2 DEF top, MemorySize
<1> QED
  BY <1>4, <1>6, <1>7, <1>8, <1>9 DEF top

Filled(names, s) == {j \in DOMAIN s : s[j].name \in names /\ s[j].size # 0}

(* The memory c after Copied: the sections with these names over memory. *)
CopyOf(c, memory, names, s) ==
    /\ c \in Memories
    /\ \A p \in 0..(MemorySize - 1) :
          /\ \A j \in Filled(names, s) : p \in Extent(s[j]) => c[p] = s[j].data[p - s[j].paddr + 1]
          /\ (\A j \in Filled(names, s) : p \notin Extent(s[j])) => c[p] = memory[p]

LEMMA CopiedSections ==
    ASSUME NEW memory \in Memories, NEW segment, NEW names, NEW image \in Images, NEW body \in Seq(Byte),
           Placed(segment, names, image.sections, Len(image.sections) + 1, body)
    PROVE  CopyOf(Copied(memory, segment, body), memory, names, image.sections)
<1> DEFINE s == image.sections
           c == Copied(memory, segment, body)
           M == 0..(MemorySize - 1)
<1>1. /\ Len(s) \in Nat /\ DOMAIN s = 1..Len(s)
      /\ \A j \in DOMAIN s : s[j].paddr \in Nat /\ s[j].size \in Nat /\ s[j].data \in Seq(Byte)
  BY SectionFacts
<1>2. Filled(names, s) = {j \in 1..((Len(s) + 1) - 1) : s[j].name \in names /\ s[j].size # 0}
  <2>1. 1..((Len(s) + 1) - 1) = DOMAIN s
    BY <1>1
  <2> QED
    BY <2>1 DEF Filled
<1>3. /\ DOMAIN memory = M /\ \A p \in M : memory[p] \in Byte
      /\ MemorySize \in Nat
  BY TranslationAssumption DEF Memories, MemorySize
<1>4. /\ c = [p \in M |-> c[p]]
      /\ \A p \in M : c[p] = IF p \in segment.virtualAddr..(segment.virtualAddr + segment.size - 1)
                               THEN body[segment.inFileAddr + p - segment.virtualAddr + 1] ELSE memory[p]
  BY <1>3 DEF Copied
<1> HIDE DEF c, s, M
<1>5. CASE segment = NoSegment /\ Filled(names, s) = {}
  <2>1. segment.virtualAddr..(segment.virtualAddr + segment.size - 1) = {}
    BY <1>5 DEF NoSegment
  <2>2. \A p \in M : c[p] = memory[p]
    BY <1>4, <2>1
  <2>3. c \in [M -> Byte]
    BY <1>3, <1>4, <2>2
  <2> QED
    BY <1>5, <2>2, <2>3 DEF CopyOf, Memories, M, c, s
<1>6. ASSUME NEW j \in Filled(names, s), Filled(names, s) = {j},
             segment.virtualAddr = s[j].paddr, segment.size = s[j].size,
             segment.inFileAddr \in Nat, segment.inFileAddr + s[j].size <= Len(body),
             \A m \in 1..s[j].size : body[segment.inFileAddr + m] = s[j].data[m]
      PROVE  CopyOf(c, memory, names, s)
  <2> DEFINE v == s[j].paddr
             z == s[j].size
             f == segment.inFileAddr
  <2>1. v \in Nat /\ z \in Nat /\ Extent(s[j]) = v..(v + z - 1) /\ Len(body) \in Nat
        /\ \A m \in 1..Len(body) : body[m] \in Byte
    BY <1>1 DEF Filled, Extent
  <2>2. ASSUME NEW p \in M, p \in Extent(s[j])
        PROVE  c[p] = s[j].data[p - s[j].paddr + 1] /\ c[p] \in Byte
    <3>1. c[p] = body[f + p - v + 1]
      BY <1>4, <1>6, <2>1, <2>2
    <3> HIDE DEF v, z, f
    <3>2. p - v + 1 \in 1..z /\ f + p - v + 1 = f + (p - v + 1) /\ f + (p - v + 1) \in 1..Len(body)
      <4>1. p \in Int /\ f \in Nat /\ f + z <= Len(body)
        BY <1>3, <1>6 DEF M, f, z
      <4> QED
        BY <2>1, <2>2, <4>1
    <3>3. body[f + (p - v + 1)] = s[j].data[p - v + 1]
      BY <1>6, <3>2 DEF f, z
    <3> QED
      BY <2>1, <3>1, <3>2, <3>3 DEF v
  <2>3. ASSUME NEW p \in M, p \notin Extent(s[j])
        PROVE  c[p] = memory[p] /\ c[p] \in Byte
    BY <1>3, <1>4, <1>6, <2>1, <2>3
  <2>4. \A p \in M : c[p] \in Byte
    BY <2>2, <2>3
  <2>5. c \in [M -> Byte]
    BY <1>4, <2>4
  <2> QED
    BY <1>6, <2>2, <2>3, <2>5 DEF CopyOf, Memories, M
<1>7. \/ segment = NoSegment /\ Filled(names, s) = {}
      \/ \E j \in Filled(names, s) :
            /\ Filled(names, s) = {j}
            /\ segment.virtualAddr = s[j].paddr /\ segment.size = s[j].size
            /\ segment.inFileAddr \in Nat /\ segment.inFileAddr + s[j].size <= Len(body)
            /\ \A m \in 1..s[j].size : body[segment.inFileAddr + m] = s[j].data[m]
  BY <1>2 DEF Placed, s
<1> QED
  BY <1>5, <1>6, <1>7 DEF c, s

LEMMA BothCopied ==
    ASSUME NEW image \in Images, NEW zero, zero = [p \in 0..(MemorySize - 1) |-> 0], NEW one, NEW two,
           CopyOf(one, zero, {".text"}, image.sections),
           CopyOf(two, one, {".data", ".rdata"}, image.sections),
           \A j \in DOMAIN image.sections :
              image.sections[j].size # 0 /\ image.sections[j].name \in {".text", ".data", ".rdata"} =>
                 image.sections[j].paddr + image.sections[j].size <= MemorySize
    PROVE  HoldsImage(two, image.sections)
<1> DEFINE s == image.sections
           M == 0..(MemorySize - 1)
           text == Filled({".text"}, s)
           data == Filled({".data", ".rdata"}, s)
           N == {".text", ".data", ".rdata"}
<1>1. /\ Len(s) \in Nat /\ DOMAIN s = 1..Len(s)
      /\ \A j \in DOMAIN s : s[j].paddr \in Nat /\ s[j].size \in Nat
      /\ \A i, j \in DOMAIN s : i < j => s[i].paddr + s[i].size <= s[j].paddr
  BY SectionFacts DEF OneAfterTheOther
<1>2. /\ \A p \in M : /\ \A j \in text : p \in Extent(s[j]) => one[p] = s[j].data[p - s[j].paddr + 1]
                      /\ (\A j \in text : p \notin Extent(s[j])) => one[p] = zero[p]
      /\ \A p \in M : /\ \A j \in data : p \in Extent(s[j]) => two[p] = s[j].data[p - s[j].paddr + 1]
                      /\ (\A j \in data : p \notin Extent(s[j])) => two[p] = one[p]
      /\ two \in Memories /\ DOMAIN two = M /\ \A p \in M : zero[p] = 0
  BY DEF CopyOf, Memories
<1>3. /\ \A j : j \in text <=> j \in DOMAIN s /\ s[j].name = ".text" /\ s[j].size # 0
      /\ \A j : j \in data <=> j \in DOMAIN s /\ s[j].name \in {".data", ".rdata"} /\ s[j].size # 0
  BY DEF Filled
<1>m. MemorySize \in Nat
  BY TranslationAssumption DEF MemorySize
<1>a. \A j \in DOMAIN s : s[j].size # 0 /\ s[j].name \in N => s[j].paddr + s[j].size <= MemorySize
  OBVIOUS
<1> HIDE DEF s, M, text, data
<1>4. ASSUME NEW i \in DOMAIN s, NEW j \in DOMAIN s, i # j, NEW p \in Extent(s[i])
      PROVE  p \notin Extent(s[j])
  <2> DEFINE a == s[i].paddr
             b == s[i].size
             c == s[j].paddr
             d == s[j].size
  <2>1. a \in Nat /\ b \in Nat /\ c \in Nat /\ d \in Nat
    BY <1>1
  <2>2. a + b <= c \/ c + d <= a
    <3>1. i < j \/ j < i
      BY <1>1, <1>4
    <3> QED
      BY <1>1, <3>1
  <2>3. p \in a..(a + b - 1)
    BY DEF Extent
  <2> HIDE DEF a, b, c, d
  <2>4. p \notin c..(c + d - 1)
    BY <2>1, <2>2, <2>3
  <2> QED
    BY <2>4 DEF Extent, c, d
<1>5. ASSUME NEW j \in DOMAIN s, NEW p \in Extent(s[j]), s[j].name \in N
      PROVE  p \in M /\ s[j].size # 0
  <2> DEFINE a == s[j].paddr
             b == s[j].size
  <2>1. a \in Nat /\ b \in Nat /\ p \in a..(a + b - 1)
    BY <1>1 DEF Extent
  <2> HIDE DEF a, b
  <2>2. b # 0 /\ p \in 0..(a + b - 1)
    BY <2>1
  <2>3. a + b <= MemorySize
    BY <1>5, <1>a, <2>2 DEF a, b
  <2>4. p \in 0..(MemorySize - 1)
    BY <1>m, <2>1, <2>2, <2>3
  <2> QED
    BY <2>2, <2>4 DEF M, b
<1>6. ASSUME NEW j \in DOMAIN s, NEW p \in Extent(s[j]), s[j].name \in N
      PROVE  two[p] = s[j].data[p - s[j].paddr + 1]
  <2>1. p \in M /\ s[j].size # 0
    BY <1>5, <1>6
  <2>2. CASE s[j].name \in {".data", ".rdata"}
    BY <1>2, <1>3, <2>1, <2>2
  <2>3. CASE s[j].name = ".text"
    <3>1. one[p] = s[j].data[p - s[j].paddr + 1]
      BY <1>2, <1>3, <2>1, <2>3
    <3>2. \A i \in data : p \notin Extent(s[i])
      <4> SUFFICES ASSUME NEW i \in data PROVE p \notin Extent(s[i])
        OBVIOUS
      <4>1. i \in DOMAIN s /\ i # j
        BY <1>3, <2>3
      <4> QED
        BY <1>4, <4>1
    <3> QED
      BY <1>2, <2>1, <3>1, <3>2
  <2> QED
    BY <1>6, <2>2, <2>3
<1>7. ASSUME NEW p \in M, \A j \in {j \in DOMAIN s : s[j].name \in N} : p \notin Extent(s[j])
      PROVE  two[p] = 0
  <2>1. (\A j \in text : p \notin Extent(s[j])) /\ (\A j \in data : p \notin Extent(s[j]))
    BY <1>3, <1>7
  <2> QED
    BY <1>2, <2>1
<1> QED
  BY <1>2, <1>6, <1>7 DEF HoldsImage, s

(* What a program finds when it starts. *)
Started(n) ==
    /\ n \in 1..NumPhysPages
    /\ pageTable' = TableOf(n, {})
    /\ registers' = InitialRegisters(n)
    /\ HoldsImage(mainMemory', coff.sections)
    /\ \A j \in DOMAIN coff.sections :
          coff.sections[j].name \notin Dropped /\ coff.sections[j].size # 0 =>
             coff.sections[j].paddr + coff.sections[j].size <= n * PageSize - UserStacksAreaSize
    /\ n * PageSize \in Nat /\ n * PageSize > UserStacksAreaSize - 1 /\ n * PageSize <= MemorySize
    /\ (n * PageSize - 16) % 4 = 0

LEMMA FreshTable ==
    ASSUME NEW n \in 1..NumPhysPages
    PROVE  Dumped(NewTable(n)) = TableOf(n, {})
<1>1. DOMAIN NewTable(n) = 0..(n - 1)
  BY DEF NewTable
<1>2. ASSUME NEW v \in 0..(n - 1)
      PROVE  [NewTable(n)[v] EXCEPT !.use = @ \/ NewTable(n)[v].valid] = TableOf(n, {})[v]
  <2> DEFINE yes == v # 0
             no == FALSE
  <2>1. NewTable(n)[v] = [physicalPage |-> v, valid |-> yes, readOnly |-> no, use |-> no, dirty |-> no]
    BY DEF NewTable
  <2> DEFINE in == v \in {}
  <2>0. TableOf(n, {})[v] = [physicalPage |-> v, valid |-> yes, readOnly |-> no, use |-> yes, dirty |-> in]
    BY DEF TableOf
  <2>e. in = no
    OBVIOUS
  <2> HIDE DEF in
  <2>2. TableOf(n, {})[v] = [physicalPage |-> v, valid |-> yes, readOnly |-> no, use |-> yes, dirty |-> no]
    BY <2>0, <2>e, Zenon
  <2>3. (no \/ yes) = yes
    OBVIOUS
  <2> HIDE DEF yes, no
  <2> QED
    BY <2>1, <2>2, <2>3
<1> QED
  BY <1>1, <1>2 DEF Dumped, TableOf

LEMMA LoadedImage ==
    ASSUME ConversionInv, conversion = "done", mainMemory = [p \in 0..(MemorySize - 1) |-> 0],
           NEW n, n = NewPages(Total(noffH)), ~TooBig(n),
           mainMemory' = Copied(Copied(mainMemory, noffH.code, noffFile.body), noffH.initData, noffFile.body),
           registers' = InitialRegisters(n), pageTable' = Dumped(NewTable(n))
    PROVE  Started(n)
<1> DEFINE s == coff.sections
           body == noffFile.body
           one == Copied(mainMemory, noffH.code, body)
           top == n * PageSize
<1>1. /\ coff \in Images /\ body \in Seq(Byte) /\ noffH \in Headers /\ section = Len(s) + 1
      /\ Converted(noffH, s, Len(s) + 1, body)
  BY DEF ConversionInv, Files
<1>2. Total(noffH) \in Nat
  BY <1>1, TotalIsNat
<1>3. /\ n \in 1..NumPhysPages /\ top \in Nat /\ top >= Total(noffH) + UserStacksAreaSize
      /\ (top - 16) % 4 = 0 /\ top <= MemorySize
  BY <1>2, RoomForTheStack
<1>4. UserStacksAreaSize \in Nat /\ MemorySize \in Nat
  BY AddrSpaceAssumption, TranslationAssumption DEF MemorySize
<1>5. mainMemory \in Memories
  BY ByteIsNat DEF Memories
<1>6. CopyOf(one, mainMemory, {".text"}, s)
  <2>1. Placed(noffH.code, {".text"}, s, Len(s) + 1, body)
    BY <1>1 DEF Converted
  <2> HIDE DEF body
  <2> QED
    BY <1>1, <1>5, <2>1, CopiedSections
<1> HIDE DEF one
<1>7. CopyOf(mainMemory', one, {".data", ".rdata"}, s)
  <2>1. Placed(noffH.initData, {".data", ".rdata"}, s, Len(s) + 1, body)
    BY <1>1 DEF Converted
  <2>2. one \in Memories /\ mainMemory' = Copied(one, noffH.initData, body)
    BY <1>6 DEF CopyOf, one
  <2> HIDE DEF body
  <2>3. CopyOf(Copied(one, noffH.initData, body), one, {".data", ".rdata"}, s)
    BY <1>1, <2>1, <2>2, CopiedSections
  <2> QED
    BY <2>2, <2>3
<1>8. /\ DOMAIN s = 1..((Len(s) + 1) - 1)
      /\ \A j \in DOMAIN s : s[j].paddr \in Nat /\ s[j].size \in Nat
  <2>1. Len(s) \in Nat /\ DOMAIN s = 1..Len(s)
    BY <1>1, SectionFacts
  <2>2. \A j \in DOMAIN s : s[j].paddr \in Nat /\ s[j].size \in Nat
    BY <1>1, SectionFacts
  <2> QED
    BY <2>1, <2>2
<1>9. \A j \in DOMAIN s : s[j].name \notin Dropped /\ s[j].size # 0 => s[j].paddr + s[j].size <= Total(noffH)
  BY <1>1, <1>8 DEF Converted
<1> HIDE DEF top
<1>10. ASSUME NEW j \in DOMAIN s, s[j].name \notin Dropped, s[j].size # 0
       PROVE  s[j].paddr + s[j].size <= top - UserStacksAreaSize /\ s[j].paddr + s[j].size <= MemorySize
  <2> DEFINE e == s[j].paddr + s[j].size
  <2>1. e \in Nat /\ e <= Total(noffH)
    BY <1>8, <1>9, <1>10
  <2> HIDE DEF e
  <2>2. e <= top - UserStacksAreaSize /\ e <= MemorySize
    BY <1>2, <1>3, <1>4, <2>1
  <2> QED
    BY <2>2 DEF e
<1>11. HoldsImage(mainMemory', s)
  <2>1. \A j \in DOMAIN s : s[j].size # 0 /\ s[j].name \in {".text", ".data", ".rdata"} =>
                               s[j].paddr + s[j].size <= MemorySize
    BY <1>10 DEF Dropped
  <2>2. mainMemory = [p \in 0..(MemorySize - 1) |-> 0]
    OBVIOUS
  <2> QED
    BY <1>1, <1>6, <1>7, <2>1, <2>2, BothCopied
<1>12. pageTable' = TableOf(n, {})
  BY <1>3, FreshTable
<1>13. top > UserStacksAreaSize - 1
  BY <1>2, <1>3, <1>4
<1>14. \A j \in DOMAIN s : s[j].name \notin Dropped /\ s[j].size # 0 =>
                              s[j].paddr + s[j].size <= top - UserStacksAreaSize
  BY <1>10
<1> QED
  BY <1>3, <1>11, <1>12, <1>13, <1>14 DEF Started, top

(* StartProcess refuses the file, or the program is in memory. *)
StartsOutcome ==
    /\ status = "start" /\ UNCHANGED <<which, cvars, hvars>> /\ conversion \in {"done", "failed", "killed"}
    /\ \/ status' \in {"cannot_open", "aborted", "bad_alloc"} /\ UNCHANGED <<registers, mainMemory, pageTable>>
       \/ status' \in {"user", "aborted"} /\ conversion = "done" /\ \E n : Started(n)

LEMMA StartCases ==
    ASSUME ConversionInv, MachineInv, Starts
    PROVE  StartsOutcome
<1> DEFINE header == noffFile.header
           n == NewPages(header.code.size + header.initData.size + header.uninitData.size)
<1>1. status = "start" /\ UNCHANGED <<which, cvars, hvars>> /\ conversion \in {"done", "failed", "killed"}
  BY DEF Starts, StartProcess
<1>2. mainMemory = [p \in 0..(MemorySize - 1) |-> 0]
  BY <1>1 DEF MachineInv
<1>3. CASE ~noffFile.exists
  BY <1>1, <1>3 DEF Starts, StartProcess, StartsOutcome
<1>4. CASE noffFile.exists /\ header.noffMagic # "NOFFMAGIC"
  BY <1>1, <1>4 DEF Starts, StartProcess, StartsOutcome
<1>5. CASE noffFile.exists /\ header.noffMagic = "NOFFMAGIC"
  <2>1. conversion = "done" /\ header = noffH
    <3>1. conversion # "failed"
      BY <1>5 DEF ConversionInv
    <3>2. conversion # "killed"
      BY <1>5 DEF ConversionInv, NoHeader
    <3> QED
      BY <1>1, <3>1, <3>2 DEF ConversionInv
  <2>2. n = NewPages(Total(noffH))
    BY <2>1 DEF Total
  <2>3. IF TooBig(n)
          THEN status' = "bad_alloc" /\ UNCHANGED <<registers, mainMemory, pageTable>>
          ELSE /\ mainMemory' = Copied(Copied(mainMemory, header.code, noffFile.body), header.initData, noffFile.body)
               /\ registers' = InitialRegisters(n)
               /\ pageTable' = Dumped(NewTable(n))
               /\ status' = IF \A s \in {header.code, header.initData, header.uninitData} : Drawable(s)
                              THEN "user" ELSE "aborted"
    BY <1>5 DEF Starts, StartProcess
  <2> HIDE DEF n
  <2>4. CASE TooBig(n)
    BY <1>1, <2>3, <2>4 DEF StartsOutcome
  <2>5. CASE ~TooBig(n)
    <3>1. Started(n)
      BY <1>2, <2>1, <2>2, <2>3, <2>5, LoadedImage
    <3>2. status' \in {"user", "aborted"}
      BY <2>3, <2>5
    <3> QED
      BY <1>1, <2>1, <3>1, <3>2 DEF StartsOutcome
  <2> QED
    BY <2>4, <2>5
<1> QED
  BY <1>3, <1>4, <1>5

LEMMA FreshRegisters ==
    ASSUME NEW n, Started(n)
    PROVE  RegistersOK(registers') /\ registers'[LoadReg] = 0 /\ registers'[StackReg] = n * PageSize - 16
<1> DEFINE r == InitialRegisters(n)
           top == n * PageSize
<1>1. registers' = r /\ top \in Nat /\ top > UserStacksAreaSize - 1 /\ top <= MemorySize
  BY DEF Started
<1>2. /\ UserStacksAreaSize \in Nat /\ UserStacksAreaSize > 16 /\ MemorySize <= Base /\ MemorySize \in Nat
      /\ USER_START_ADDRESS \in Nat /\ USER_START_ADDRESS + 4 < Base
  BY AddrSpaceAssumption, TranslationAssumption DEF MemorySize
<1>3. PCReg # NextPCReg /\ StackReg \notin {PCReg, NextPCReg, 0, LoadReg} /\ LoadReg \notin {PCReg, NextPCReg}
      /\ 0 \notin {PCReg, NextPCReg, StackReg} /\ {0, LoadReg, StackReg} \subseteq Registers /\ 0 \in GPRegs
  BY MipsAssumption DEF PCReg, NextPCReg, StackReg, LoadReg, Registers, HiReg, BadVAddrReg
<1> HIDE DEF top
<1>4. Base \in Nat /\ USER_START_ADDRESS \in Word /\ USER_START_ADDRESS + 4 \in Word /\ top - 16 \in Word /\ 0 \in Word
  BY <1>1, <1>2, BaseFacts DEF Word
<1>5. \A g \in Registers : r[g] = CASE g = PCReg     -> USER_START_ADDRESS
                                    [] g = NextPCReg -> USER_START_ADDRESS + 4
                                    [] g = StackReg  -> top - 16
                                    [] OTHER         -> 0
  BY DEF InitialRegisters, top
<1>6. r = [g \in Registers |-> r[g]]
  BY DEF InitialRegisters
<1> HIDE DEF r
<1>7. \A g \in Registers : r[g] \in Word
  BY <1>3, <1>4, <1>5
<1>8. r[0] = 0 /\ r[LoadReg] = 0 /\ r[StackReg] = top - 16
  BY <1>3, <1>5
<1>9. r \in [Registers -> Word]
  BY <1>6, <1>7
<1> QED
  BY <1>1, <1>3, <1>8, <1>9 DEF RegistersOK, top

LEMMA StartsKeeps ==
    ASSUME ConversionInv, MachineInv, Starts
    PROVE  ConversionInv' /\ MachineInv' /\ HistoryInv' /\ LoadInv'
<1>1. StartsOutcome
  BY StartCases
<1>2. /\ status = "start" /\ conversion \in {"done", "failed", "killed"}
      /\ which' = which /\ program' = program /\ steps' = steps /\ ran' = ran /\ due' = due /\ written' = written
      /\ coff' = coff /\ noffFile' = noffFile /\ noffH' = noffH /\ inNoffFile' = inNoffFile /\ section' = section
      /\ conversion' = conversion
  BY <1>1 DEF StartsOutcome, cvars, hvars
<1>3. ConversionInv'
  BY <1>2 DEF ConversionInv
<1>4. /\ which = "None" /\ which \in Exceptions /\ RegistersOK(registers) /\ mainMemory \in Memories
      /\ program \in Seq(SUBSET Sources) /\ steps \in Nat /\ steps = 0 /\ due = NoLoad /\ written = {}
  BY <1>2 DEF MachineInv
<1>5. CASE status' \in {"cannot_open", "aborted", "bad_alloc"} /\ UNCHANGED <<registers, mainMemory, pageTable>>
  <2>1. status' \in Statuses /\ status' \notin {"start", "user"}
    BY <1>5 DEF Statuses
  <2>2. pageTable' = <<>> \/ \E n \in 1..NumPhysPages : pageTable' = TableOf(n, written')
    BY <1>2, <1>5 DEF MachineInv
  <2>3. MachineInv'
    BY <1>2, <1>4, <1>5, <2>1, <2>2 DEF MachineInv, TableOf, Memories
  <2> QED
    BY <1>3, <2>1, <2>3 DEF HistoryInv, LoadInv
<1>6. ASSUME status' \in {"user", "aborted"}, conversion = "done", NEW n, Started(n)
      PROVE  MachineInv' /\ HistoryInv' /\ LoadInv'
  <2>1. RegistersOK(registers') /\ registers'[LoadReg] = 0 /\ registers'[StackReg] = n * PageSize - 16
    BY <1>6, FreshRegisters
  <2>2. /\ n \in 1..NumPhysPages /\ pageTable' = TableOf(n, {}) /\ HoldsImage(mainMemory', coff.sections)
        /\ \A j \in DOMAIN coff.sections :
              coff.sections[j].name \notin Dropped /\ coff.sections[j].size # 0 =>
                 coff.sections[j].paddr + coff.sections[j].size <= n * PageSize - UserStacksAreaSize
        /\ n * PageSize \in Nat /\ n * PageSize <= MemorySize /\ (n * PageSize - 16) % 4 = 0
    BY <1>6 DEF Started
  <2>3. mainMemory' \in Memories
    BY <2>2 DEF HoldsImage
  <2>4. MachineInv'
    <3>1. \E m \in 1..NumPhysPages : pageTable' = TableOf(m, written')
      BY <1>2, <1>4, <2>2
    <3>2. status' \in Statuses /\ status' # "start"
      BY <1>6 DEF Statuses
    <3> QED
      BY <1>2, <1>4, <2>1, <2>3, <3>1, <3>2 DEF MachineInv, TableOf, Memories
  <2>5. HistoryInv'
    <3>1. due'.reg = 0 /\ 0 \in GPRegs
      BY <1>2, <1>4, RegisterNumbers DEF NoLoad
    <3> QED
      BY <2>1, <3>1 DEF HistoryInv
  <2>6. LoadInv'
    <3>1. DOMAIN pageTable' = 0..(n - 1)
      BY <2>2 DEF TableOf
    <3>2. Fresh(n)'
      BY <1>2, <2>1, <2>2, <3>1 DEF Fresh
    <3> QED
      BY <1>2, <1>6, <3>2 DEF LoadInv
  <2> QED
    BY <2>4, <2>5, <2>6
<1> QED
  BY <1>1, <1>3, <1>5, <1>6 DEF StartsOutcome

LEMMA InitKeeps ==
    ASSUME Init
    PROVE  ProgramInv
<1>1. PICK case \in Cases : coff = case[1] /\ program = case[2]
  BY DEF Init
<1>2. coff \in Images /\ program \in Seq(SUBSET Sources)
  <2>1. case \in Images \X Seq(SUBSET Sources)
    BY CasesAssumption
  <2> QED
    BY <1>1, <2>1
<1>3. ConversionInv
  <2>1. Len(coff.sections) \in Nat
    BY <1>2, SectionFacts
  <2>2. noffFile \in Files /\ noffH \in Headers
    BY EmptyHeader DEF Init, ConvertInit
  <2> QED
    BY <1>2, <2>1, <2>2 DEF ConversionInv, Init, ConvertInit
<1>4. RegistersOK(registers) /\ mainMemory \in Memories
  <2>1. LoadReg \in Registers /\ 0 \in Registers /\ 0 \in Word /\ 0 \in GPRegs
    BY RegisterNumbers
  <2> QED
    BY <2>1, ByteIsNat DEF Init, MachineInit, RegistersOK, Memories
<1>5. MachineInv
  BY <1>2, <1>4 DEF MachineInv, Init, MachineInit, ConvertInit, Statuses, Exceptions
<1> QED
  BY <1>3, <1>5 DEF ProgramInv, HistoryInv, LoadInv, Init

LEMMA ConvertsKeeps ==
    ASSUME ProgramInv, Converts
    PROVE  ProgramInv'
<1>1. ConversionInv'
  BY ConvertKeeps DEF ProgramInv, Converts
<1>2. status = "start" /\ UNCHANGED <<status, which, registers, mainMemory, pageTable, program, steps, ran, due, goes, written>>
  BY DEF Converts, mvars, hvars
<1>3. MachineInv'
  BY <1>2 DEF ProgramInv, MachineInv, TableOf, Memories, Statuses
<1> QED
  BY <1>1, <1>2, <1>3 DEF ProgramInv, HistoryInv, LoadInv

LEMMA RunsKeeps ==
    ASSUME ProgramInv, Runs
    PROVE  ProgramInv'
<1>1. MachineInv' /\ HistoryInv'
  BY RunsKeepsMachine DEF ProgramInv
<1>2. PICK s \in Sources, n \in 1..NumPhysPages : Outcome(s, n) /\ Remembers(s) /\ UNCHANGED cvars
  BY StepOutcome DEF ProgramInv
<1>3. UNCHANGED <<coff, noffFile, noffH, inNoffFile, section, conversion>>
  BY <1>2 DEF cvars
<1>4. ConversionInv'
  BY <1>3 DEF ProgramInv, ConversionInv
<1>5. LoadInv'
  <2>1. steps' # 0
    BY <1>2 DEF Remembers, ProgramInv, MachineInv
  <2>2. conversion' = "done"
    BY <1>2, <1>3 DEF Outcome, ProgramInv, LoadInv
  <2> QED
    BY <2>1, <2>2 DEF LoadInv
<1> QED
  BY <1>1, <1>4, <1>5 DEF ProgramInv

LEMMA InterruptedKeeps ==
    ASSUME ProgramInv, Interrupted
    PROVE  ProgramInv'
<1>1. /\ status = "user" /\ steps > 0 /\ due' = NoLoad
      /\ UNCHANGED <<status, which, mainMemory, pageTable, program, steps, ran, goes, written>>
  BY DEF Interrupted
<1>2. UNCHANGED <<coff, noffFile, noffH, inNoffFile, section, conversion>>
  BY DEF Interrupted, cvars
<1>3. RegistersOK(registers') /\ registers'[LoadReg] = 0
  BY InterruptRegisters DEF ProgramInv, MachineInv
<1>4. ConversionInv'
  BY <1>2 DEF ProgramInv, ConversionInv
<1>5. MachineInv'
  BY <1>1, <1>2, <1>3 DEF ProgramInv, MachineInv, Memories, RegistersOK, TableOf, Statuses
<1>6. HistoryInv'
  BY <1>1, <1>3, RegisterNumbers DEF HistoryInv, NoLoad
<1>7. LoadInv'
  BY <1>1, <1>2 DEF ProgramInv, LoadInv, MachineInv
<1> QED
  BY <1>4, <1>5, <1>6, <1>7 DEF ProgramInv

LEMMA ProgramInvKept == ProgramInv /\ [Next]_uvars => ProgramInv'
<1> SUFFICES ASSUME ProgramInv, [Next]_uvars PROVE ProgramInv'
  OBVIOUS
<1>1. CASE Converts
  BY <1>1, ConvertsKeeps
<1>2. CASE Starts
  BY <1>2, StartsKeeps DEF ProgramInv
<1>3. CASE Runs
  BY <1>3, RunsKeeps
<1>4. CASE UNCHANGED uvars
  <2>1. UNCHANGED <<coff, noffFile, noffH, inNoffFile, section, conversion>>
    BY <1>4 DEF uvars, cvars
  <2>2. UNCHANGED <<status, which, registers, mainMemory, pageTable, program, steps, ran, due, goes, written>>
    BY <1>4 DEF uvars, mvars, hvars
  <2>3. ConversionInv'
    BY <2>1 DEF ProgramInv, ConversionInv
  <2>4. MachineInv' /\ HistoryInv'
    BY <2>1, <2>2 DEF ProgramInv, MachineInv, HistoryInv, Memories, RegistersOK, TableOf, Statuses
  <2>5. ASSUME NEW n, Fresh(n) PROVE Fresh(n)'
    BY <2>1, <2>2, <2>5 DEF Fresh
  <2>6. LoadInv'
    BY <2>1, <2>2, <2>5 DEF ProgramInv, LoadInv
  <2> QED
    BY <2>3, <2>4, <2>6 DEF ProgramInv
<1> QED
  BY <1>1, <1>2, <1>3, <1>4, InterruptedKeeps DEF Next

(* The invariant of a program from its file to its end: what coff2noff has *)
(* written so far are the sections it has read, the page table maps the    *)
(* pages one to one, and the load under way is the one of the last         *)
(* instruction.                                                            *)
THEOREM ProgramInvariant == Spec => []ProgramInv
<1>1. Init => ProgramInv
  BY InitKeeps
<1> QED
  BY <1>1, ProgramInvKept, PTL DEF Spec

LEMMA TypesOK ==
    ASSUME MachineInv
    PROVE  TypeOK
<1>1. \A v \in DOMAIN pageTable : v \in 0..(NumPhysPages - 1)
  <2>1. CASE pageTable = <<>>
    BY <2>1
  <2>2. ASSUME NEW n \in 1..NumPhysPages, pageTable = TableOf(n, written)
        PROVE  \A v \in DOMAIN pageTable : v \in 0..(NumPhysPages - 1)
    <3>1. DOMAIN pageTable = 0..(n - 1)
      BY <2>2 DEF TableOf
    <3> QED
      BY <3>1, TranslationAssumption
  <2> QED
    BY <2>1, <2>2 DEF MachineInv
<1>2. \A g \in Registers : registers[g] \in Word
  BY DEF MachineInv, RegistersOK
<1>3. \A p \in DOMAIN mainMemory : mainMemory[p] \in 0..(ByteBase - 1)
  BY DEF MachineInv, Memories, Byte
<1> QED
  BY <1>1, <1>2, <1>3 DEF TypeOK, MachineInv, RegistersOK, Statuses

LEMMA PageCount ==
    ASSUME NEW n \in Nat
    PROVE  Cardinality(0..(n - 1)) = n
<1>1. Cardinality(0..(n - 1)) = IF 0 > n - 1 THEN 0 ELSE (n - 1) - 0 + 1
  BY FS_Interval
<1> QED
  BY <1>1

LEMMA FreshIsLoaded ==
    ASSUME ProgramInv
    PROVE  ImageLoaded
<1>1. TypeOK /\ (conversion = "failed" => ~noffFile.exists)
  BY TypesOK DEF ProgramInv, ConversionInv
<1>2. ASSUME status = "user", steps = 0
      PROVE  LET filled == {j \in DOMAIN coff.sections :
                               coff.sections[j].name \in {".text", ".data", ".rdata"}}
                 all == {j \in DOMAIN coff.sections : coff.sections[j].name \notin {".drop", ".debug"}}
             IN  /\ \A j \in filled : \A p \in Extent(coff.sections[j]) :
                       mainMemory[p] = coff.sections[j].data[p - coff.sections[j].paddr + 1]
                 /\ \A p \in DOMAIN mainMemory :
                       (\A j \in filled : p \notin Extent(coff.sections[j])) => mainMemory[p] = 0
                 /\ \A j \in all : \A p \in Extent(coff.sections[j]) :
                       p <= registers[StackReg] - (UserStacksAreaSize - 16)
                 /\ registers[StackReg] % 4 = 0
                 /\ registers[StackReg] < numPages * PageSize
                 /\ numPages * PageSize <= MemorySize
  <2>1. PICK n : Fresh(n)
    BY <1>2 DEF ProgramInv, LoadInv
  <2> DEFINE top == n * PageSize
  <2>2. /\ n \in Nat /\ top \in Nat /\ top <= MemorySize /\ (top - 16) % 4 = 0
        /\ registers[StackReg] = top - 16 /\ DOMAIN pageTable = 0..(n - 1)
        /\ UserStacksAreaSize \in Nat
    BY <2>1, AddrSpaceAssumption DEF Fresh
  <2>3. numPages = n
    BY <2>2, PageCount DEF numPages
  <2>4. HoldsImage(mainMemory, coff.sections)
    BY <2>1 DEF Fresh
  <2> HIDE DEF top
  <2>5. ASSUME NEW j \in DOMAIN coff.sections, coff.sections[j].name \notin {".drop", ".debug"},
               NEW p \in Extent(coff.sections[j])
        PROVE  p <= registers[StackReg] - (UserStacksAreaSize - 16)
    <3> DEFINE a == coff.sections[j].paddr
               b == coff.sections[j].size
    <3>1. a \in Nat /\ b \in Nat /\ p \in a..(a + b - 1)
      BY SectionFacts DEF Extent, ProgramInv, ConversionInv
    <3>2. b # 0 => a + b <= top - UserStacksAreaSize
      BY <2>1, <2>5 DEF Fresh, Dropped, top
    <3> HIDE DEF a, b
    <3> QED
      BY <2>2, <3>1, <3>2
  <2>6. registers[StackReg] % 4 = 0 /\ registers[StackReg] < top
    BY <2>2
  <2>7. numPages * PageSize = top
    BY <2>3 DEF top
  <2> QED
    BY <2>2, <2>4, <2>5, <2>6, <2>7 DEF HoldsImage
<1> QED
  BY <1>1, <1>2 DEF ImageLoaded, ProgramInv, LoadInv

(* coff2noff, AddrSpace::AddrSpace and StartProcess: a program starts only *)
(* from a conversion that came to its end, with every section's bytes at   *)
(* its address, zeros elsewhere and the stack's area free below an aligned *)
(* stack pointer; a conversion that failed leaves no output file.          *)
THEOREM ImagesAreLoaded == Spec => []ImageLoaded
<1>1. ProgramInv => ImageLoaded
  BY FreshIsLoaded
<1> QED
  BY <1>1, ProgramInvariant, PTL

-----------------------------------------------------------------------------
(* The action properties follow from what a step of the program does.      *)

LEMMA OnlyRuns ==
    ASSUME ProgramInv, [Next]_uvars, steps' # steps \/ which' # which
    PROVE  Runs
BY DEF Next, uvars, mvars, hvars, Converts, Starts, StartProcess, Interrupted

LEMMA StepTable ==
    ASSUME NEW s, NEW n, Outcome(s, n), Remembers(s)
    PROVE  pageTable' = TableOf(n, written')
<1>1. written' = IF status' = "user" /\ s.name \in Stores
                   THEN written \cup {b \div PageSize : b \in Named(s, registers)} ELSE written
  BY DEF Remembers
<1>2. CASE Trapped(s, n)
  BY <1>1, <1>2 DEF Trapped
<1>3. CASE Crashed(s, n)
  BY <1>1, <1>3 DEF Crashed
<1>4. CASE Executed(s, n)
  BY <1>1, <1>4 DEF Executed, Outcome
<1> QED
  BY <1>2, <1>3, <1>4 DEF Outcome

(* WriteMem, SWL and SWR: a store changes exactly the bytes it names, each *)
(* to its own byte of the register, and no other instruction changes       *)
(* memory.                                                                 *)
THEOREM StoresAreExact == Spec => StoreExact
<1>1. ProgramInv /\ [Next]_uvars =>
         [steps' # steps =>
            \A p \in DOMAIN mainMemory :
                mainMemory'[p] = IF status' = "user" /\ ran'.name \in Stores /\ p \in Named(ran', registers)
                                   THEN ByteOf(registers[ran'.rt], RegisterByte(ran', registers, p))
                                   ELSE mainMemory[p]]_uvars
  <2> SUFFICES ASSUME ProgramInv, [Next]_uvars, steps' # steps, NEW p \in DOMAIN mainMemory
               PROVE  mainMemory'[p] =
                         IF status' = "user" /\ ran'.name \in Stores /\ p \in Named(ran', registers)
                           THEN ByteOf(registers[ran'.rt], RegisterByte(ran', registers, p))
                           ELSE mainMemory[p]
    OBVIOUS
  <2>1. Runs
    BY OnlyRuns
  <2>2. PICK s \in Sources, n \in 1..NumPhysPages : Outcome(s, n) /\ Remembers(s)
    BY <2>1, StepOutcome DEF ProgramInv
  <2>3. ran' = s
    BY <2>2 DEF Remembers
  <2>4. p \in 0..(MemorySize - 1)
    BY DEF ProgramInv, MachineInv, Memories
  <2>5. CASE Trapped(s, n)
    BY <2>5 DEF Trapped
  <2>6. CASE Crashed(s, n)
    BY <2>6 DEF Crashed
  <2>7. CASE Executed(s, n)
    BY <2>2, <2>3, <2>4, <2>7 DEF Executed, Outcome
  <2> QED
    BY <2>2, <2>5, <2>6, <2>7 DEF Outcome
<1> QED
  BY <1>1, ProgramInvariant, PTL DEF Spec, StoreExact

(* Machine::Translate: a fetch, load or store goes through exactly when    *)
(* all its bytes are aligned addresses of the program's own space; the     *)
(* dirty bits say exactly which pages were stored into, and no access      *)
(* changes the mapping.                                                    *)
THEOREM AccessesAreConfined == Spec => AccessConfined
<1>1. ProgramInv /\ [Next]_uvars =>
         [steps' # steps =>
            LET pc == registers[PCReg]
                allowed == /\ pc % 4 = 0 /\ Accessible(pc)
                           /\ Aligned(ran', registers)
                           /\ \A b \in Named(ran', registers) : Accessible(b)
            IN  /\ which' \in {"AddressError", "PageFault"} <=> ~allowed
                /\ which' \notin {"BusError", "ReadOnly"}
                /\ \A v \in DOMAIN pageTable : /\ pageTable'[v].dirty <=> v \in written'
                                               /\ pageTable'[v].use <=> v # 0
                                               /\ pageTable'[v].physicalPage = v]_uvars
  <2> SUFFICES ASSUME ProgramInv, [Next]_uvars, steps' # steps
               PROVE  LET pc == registers[PCReg]
                          allowed == /\ pc % 4 = 0 /\ Accessible(pc)
                                     /\ Aligned(ran', registers)
                                     /\ \A b \in Named(ran', registers) : Accessible(b)
                      IN  /\ which' \in {"AddressError", "PageFault"} <=> ~allowed
                          /\ which' \notin {"BusError", "ReadOnly"}
                          /\ \A v \in DOMAIN pageTable : /\ pageTable'[v].dirty <=> v \in written'
                                                         /\ pageTable'[v].use <=> v # 0
                                                         /\ pageTable'[v].physicalPage = v
    OBVIOUS
  <2>1. Runs
    BY OnlyRuns
  <2>2. PICK s \in Sources, n \in 1..NumPhysPages : Outcome(s, n) /\ Remembers(s)
    BY <2>1, StepOutcome DEF ProgramInv
  <2>3. ran' = s
    BY <2>2 DEF Remembers
  <2>4. pageTable = TableOf(n, written) /\ pageTable' = TableOf(n, written') /\ which = "None"
    BY <2>2, StepTable DEF Outcome, ProgramInv, MachineInv
  <2>5. DOMAIN pageTable = 0..(n - 1)
    BY <2>4 DEF TableOf
  <2>6. numPages = n
    <3>1. n \in Nat
      BY TranslationAssumption
    <3> QED
      BY <2>5, <3>1, PageCount DEF numPages
  <2>7. FetchOK(n) /\ AccessOK(s, n) <=>
           /\ registers[PCReg] % 4 = 0 /\ Accessible(registers[PCReg])
           /\ Aligned(ran', registers)
           /\ \A b \in Named(ran', registers) : Accessible(b)
    BY <2>3, <2>6 DEF FetchOK, AccessOK, Accessible
  <2>8. /\ which' \in {"AddressError", "PageFault"} <=> ~(FetchOK(n) /\ AccessOK(s, n))
        /\ which' \notin {"BusError", "ReadOnly"}
    <3>1. CASE Trapped(s, n)
      BY <3>1 DEF Trapped
    <3>2. CASE Crashed(s, n)
      BY <2>4, <3>2 DEF Crashed
    <3>3. CASE Executed(s, n)
      BY <2>4, <3>3 DEF Executed
    <3> QED
      BY <2>2, <3>1, <3>2, <3>3 DEF Outcome
  <2>9. \A v \in DOMAIN pageTable : /\ pageTable'[v].dirty <=> v \in written'
                                    /\ pageTable'[v].use <=> v # 0
                                    /\ pageTable'[v].physicalPage = v
    BY <2>4, <2>5 DEF TableOf
  <2> QED
    BY <2>7, <2>8, <2>9
<1> QED
  BY <1>1, ProgramInvariant, PTL DEF Spec, AccessConfined

(* OneInstruction, "re-start the instruction execution from the beginning" *)
(* and RaiseException: an exception leaves memory, the program counters    *)
(* and every register as they were, but for the load that was under way,   *)
(* which is finished before the kernel looks at the registers.             *)
THEOREM TrapsAreHarmless == Spec => TrapHarmless
<1>1. ProgramInv /\ [Next]_uvars =>
         [which' # which =>
            LET seen(g) == IF g # 0 /\ g = due.reg /\ ran.name # "LWL" THEN due.value ELSE registers[g]
            IN  /\ mainMemory' = mainMemory
                /\ \A g \in GPRegs \cup HiReg..PrevPCReg :
                      g # due.reg \/ ran.name # "LWL" => registers'[g] = seen(g)
                /\ registers'[LoadReg] = 0
                /\ status' = "halted" => which' = "Syscall" /\ registers'[2] = 0
                /\ which' = "Syscall" /\ (due.reg # 2 \/ ran.name # "LWL") =>
                      (status' = "halted" <=> seen(2) = 0)
                /\ which' \in {"AddressError", "PageFault"} =>
                      registers'[BadVAddrReg] \in {registers[PCReg], Address(ran', registers),
                                                   Address(ran', registers) - (Address(ran', registers) % 4)}]_uvars
  <2> DEFINE seen(g) == IF g # 0 /\ g = due.reg /\ ran.name # "LWL" THEN due.value ELSE registers[g]
  <2> SUFFICES ASSUME ProgramInv, [Next]_uvars, which' # which
               PROVE  /\ mainMemory' = mainMemory
                      /\ \A g \in GPRegs \cup HiReg..PrevPCReg :
                            g # due.reg \/ ran.name # "LWL" => registers'[g] = seen(g)
                      /\ registers'[LoadReg] = 0
                      /\ status' = "halted" => which' = "Syscall" /\ registers'[2] = 0
                      /\ which' = "Syscall" /\ (due.reg # 2 \/ ran.name # "LWL") =>
                            (status' = "halted" <=> seen(2) = 0)
                      /\ which' \in {"AddressError", "PageFault"} =>
                            registers'[BadVAddrReg] \in {registers[PCReg], Address(ran', registers),
                                                         Address(ran', registers) - (Address(ran', registers) % 4)}
    OBVIOUS
  <2>1. Runs
    BY OnlyRuns
  <2>2. PICK s \in Sources, n \in 1..NumPhysPages : Outcome(s, n) /\ Remembers(s)
    BY <2>1, StepOutcome DEF ProgramInv
  <2>3. ran' = s
    BY <2>2 DEF Remembers
  <2>4. Trapped(s, n)
    BY <2>2 DEF Outcome, Crashed, Executed
  <2>5. /\ registers[LoadReg] = due.reg
        /\ due.reg # 0 /\ ran.name # "LWL" => registers[LoadValueReg] = due.value
    BY <2>2 DEF ProgramInv, HistoryInv, Outcome
  <2>6. \A g : g # due.reg \/ ran.name # "LWL" => Finished(g) = seen(g)
    BY <2>5 DEF Finished
  <2>7. \A g \in GPRegs \cup HiReg..PrevPCReg : registers'[g] = Finished(g)
    BY <2>4 DEF Trapped
  <2>8. 2 \in GPRegs
    BY RegisterNumbers
  <2>9. due.reg # 2 \/ ran.name # "LWL" => registers'[2] = seen(2)
    BY <2>6, <2>7, <2>8
  <2>10. status' = IF which' = "Syscall" /\ registers'[2] = 0 THEN "halted" ELSE "aborted"
    BY <2>4 DEF Trapped
  <2>11. which' \in {"AddressError", "PageFault"} =>
            registers'[BadVAddrReg] \in {registers[PCReg], Address(ran', registers),
                                         Address(ran', registers) - (Address(ran', registers) % 4)}
    BY <2>3, <2>4 DEF Trapped
  <2>12. mainMemory' = mainMemory /\ registers'[LoadReg] = 0
    BY <2>4 DEF Trapped
  <2> QED
    BY <2>6, <2>7, <2>9, <2>10, <2>11, <2>12
<1> QED
  BY <1>1, ProgramInvariant, PTL DEF Spec, TrapHarmless

-----------------------------------------------------------------------------
(* The delay slots.                                                        *)

(* The memory is smaller than the region a jump stays in: 256 megabytes in *)
(* the code, which takes the region from the address behind the slot.      *)
OneRegion == MemorySize + 8 <= 2^(JumpBits + 2)

(* The condition of a branch does not depend on the link register. *)
LEMMA BranchTaken ==
    ASSUME NEW s \in Sources, NEW i, Meaning(s, i), NEW r \in [Registers -> Word]
    PROVE  Taken(i, Computed(i, r)) <=> Branches(s, r)
<1> DEFINE d == Computed(i, r)
           B == {"BEQ", "BNE", "BGEZ", "BGEZAL", "BLTZ", "BLTZAL", "BGTZ", "BLEZ"}
           a == r[s.rs]
           b == r[s.rt]
<1>0. /\ i.rs = s.rs /\ s.rs \in GPRegs /\ s.rt \in GPRegs /\ s.rs \in Registers /\ s.rt \in Registers
      /\ RetAddrReg \in Registers
  BY Fields, RegisterNumbers
<1>1. i.opCode \in B <=> s.name \in B
  BY NameSets, OpNames DEF Meaning
<1>2. CASE i.opCode \notin B
  BY <1>1, <1>2 DEF Taken, Branches
<1>3. CASE i.opCode \in B
  <2>1. i.opCode = s.name
    BY <1>3, NameSets, OpNames DEF Meaning
  <2>2. d[s.rs] = a
    <3>1. CASE s.name \in {"BGEZAL", "BLTZAL"}
      <4>1. s.rs # RetAddrReg
        BY <3>1 DEF Sources
      <4>2. d = [r EXCEPT ![RetAddrReg] = AsWord(r[NextPCReg] + 4)]
        BY <2>1, <3>1, NameSets DEF Computed
      <4> HIDE DEF d
      <4> QED
        BY <1>0, <4>1, <4>2
    <3>2. CASE s.name \notin {"BGEZAL", "BLTZAL"}
      <4>1. d = r
        BY <1>3, <2>1, <3>2, NameSets DEF Computed
      <4> QED
        BY <4>1
    <3> QED
      BY <3>1, <3>2
  <2>3. s.name \in {"BEQ", "BNE"} => d[i.rt] = b
    <3> SUFFICES ASSUME s.name \in {"BEQ", "BNE"} PROVE d[i.rt] = b
      OBVIOUS
    <3>1. i.rt = s.rt
      BY OpNames DEF Meaning
    <3>2. d = r
      BY <2>1, NameSets DEF Computed
    <3> QED
      BY <3>1, <3>2
  <2>4. a \in Word /\ b \in Word
    BY <1>0
  <2>5. /\ Negative(a) <=> Signed(a) < 0
        /\ Negative(a) \in BOOLEAN /\ Signed(a) \in Int /\ Signed(b) \in Int
        /\ a = b <=> Signed(a) = Signed(b)
    <3>1. AsWord(Signed(a)) = a /\ AsWord(Signed(b)) = b
      BY <2>4, SignedValue
    <3> QED
      BY <2>4, <3>1, SignedValue
  <2>6. Taken(i, d) <=>
           \/ s.name = "BEQ" /\ d[s.rs] = d[i.rt]
           \/ s.name = "BNE" /\ d[s.rs] # d[i.rt]
           \/ s.name \in {"BGEZ", "BGEZAL"} /\ ~Negative(d[s.rs])
           \/ s.name \in {"BLTZ", "BLTZAL"} /\ Negative(d[s.rs])
           \/ s.name = "BGTZ" /\ Signed(d[s.rs]) > 0
           \/ s.name = "BLEZ" /\ Signed(d[s.rs]) <= 0
    BY <1>0, <2>1 DEF Taken
  <2>7. Branches(s, r) <=>
           \/ s.name = "BEQ" /\ Signed(a) = Signed(b)
           \/ s.name = "BNE" /\ Signed(a) # Signed(b)
           \/ s.name \in {"BGEZ", "BGEZAL"} /\ Signed(a) >= 0
           \/ s.name \in {"BLTZ", "BLTZAL"} /\ Signed(a) < 0
           \/ s.name = "BGTZ" /\ Signed(a) > 0
           \/ s.name = "BLEZ" /\ Signed(a) <= 0
    BY DEF Branches
  <2> HIDE DEF a, b, d
  <2>8. Taken(i, d) <=>
           \/ s.name = "BEQ" /\ a = b
           \/ s.name = "BNE" /\ a # b
           \/ s.name \in {"BGEZ", "BGEZAL"} /\ ~Negative(a)
           \/ s.name \in {"BLTZ", "BLTZAL"} /\ Negative(a)
           \/ s.name = "BGTZ" /\ Signed(a) > 0
           \/ s.name = "BLEZ" /\ Signed(a) <= 0
    BY <2>2, <2>3, <2>6
  <2>9. ~Negative(a) <=> Signed(a) >= 0
    BY <2>5
  <2>10. Taken(i, d) <=> Branches(s, r)
    BY <2>5, <2>7, <2>8, <2>9
  <2> QED
    BY <2>10 DEF d
<1> QED
  BY <1>2, <1>3

(* Four times a word that stands for an immediate. *)
LEMMA BranchTarget ==
    ASSUME NEW pc \in Int, NEW m \in Int, NEW e, e = m \/ e = m + Base
    PROVE  AsWord(pc + 4 * e) = AsWord(pc + 4 * m)
<1>1. CASE e = m
  BY <1>1
<1>2. CASE e = m + Base
  <2> DEFINE x == pc + 4 * m
  <2>1. x \in Int /\ Base \in Int
    BY BaseFacts
  <2>2. pc + 4 * e = (((x + Base) + Base) + Base) + Base
    BY <1>2, <2>1
  <2> HIDE DEF x
  <2>3. AsWord(x + Base) = AsWord(x)
    BY <2>1, Wraps
  <2>4. x + Base \in Int /\ (x + Base) + Base \in Int /\ ((x + Base) + Base) + Base \in Int
    BY <2>1
  <2>5. AsWord((x + Base) + Base) = AsWord(x + Base)
    BY <2>4, Wraps
  <2>6. AsWord(((x + Base) + Base) + Base) = AsWord((x + Base) + Base)
    BY <2>4, Wraps
  <2>7. AsWord((((x + Base) + Base) + Base) + Base) = AsWord(((x + Base) + Base) + Base)
    BY <2>4, Wraps
  <2> QED
    BY <2>2, <2>3, <2>5, <2>6, <2>7 DEF x
<1> QED
  BY <1>1, <1>2

(* pcAfter is where the manual sends the program after the delay slot. *)
LEMMA Follows ==
    ASSUME NEW s \in Sources, NEW i, Meaning(s, i), NEW r \in [Registers -> Word],
           r[NextPCReg] = r[PCReg] + 4, r[PCReg] + 8 < 2^(JumpBits + 2)
    PROVE  PcAfter(i, Computed(i, r)) = Destination(s, r, r[PCReg])
<1> DEFINE d == Computed(i, r)
           pc == r[PCReg]
           P == 2^(JumpBits + 2)
           next == AsWord(d[NextPCReg] + 4)
           J == {"J", "JAL"}
           R == {"JR", "JALR"}
<1>1. pc \in Nat /\ d[NextPCReg] = pc + 4 /\ i.rs = s.rs /\ s.rs \in GPRegs /\ s.rs \in Registers
  <2>1. d[NextPCReg] = r[NextPCReg]
    BY ComputedTyped
  <2>2. pc \in Nat /\ i.rs = s.rs /\ s.rs \in GPRegs /\ s.rs \in Registers
    BY Fields, RegisterNumbers, WordsAreNumbers
  <2> QED
    BY <2>1, <2>2
<1>2. Taken(i, d) <=> Branches(s, r)
  BY BranchTaken
<1>3. Branches(s, r) => s.name \in {"BEQ", "BNE", "BGEZ", "BGEZAL", "BLTZ", "BLTZAL", "BGTZ", "BLEZ"}
  BY DEF Branches
<1>4. (i.opCode \in J <=> s.name \in J) /\ (i.opCode \in R <=> s.name \in R)
      /\ (s.name \in R => i.opCode = s.name)
  BY NameSets, OpNames DEF Meaning
<1>5. Taken(i, d) => i.opCode \in {"BEQ", "BNE", "BGEZ", "BGEZAL", "BLTZ", "BLTZAL", "BGTZ", "BLEZ"}
  BY DEF Taken
<1>6. P \in Nat \ {0} /\ P <= Base /\ Base \in Nat \ {0}
  <2>1. JumpBits + 2 \in 0..WordBits /\ WordBits \in 0..32 /\ JumpBits + 2 \in 0..32
    BY MipsAssumption, ByteFacts
  <2>2. P \in Nat \ {0}
    BY <2>1, Powers
  <2>3. PICK q \in Nat \ {0} : 2^WordBits = q * 2^(JumpBits + 2)
    BY <2>1, PowersDivide
  <2>4. Base = q * P /\ Base \in Nat \ {0}
    BY <2>3, ByteFacts, BaseFacts
  <2> HIDE DEF P
  <2>5. q * P >= P
    BY <2>2
  <2> QED
    BY <2>2, <2>4, <2>5
<1> HIDE DEF d, P
<1>7. PcAfter(i, d) = CASE Taken(i, d) -> AsWord(d[NextPCReg] + 4 * i.extra)
                        [] i.opCode \in J -> (next - (next % P)) + 4 * i.extra
                        [] i.opCode \in R -> d[i.rs]
                        [] OTHER -> next
  BY DEF PcAfter, P
<1>8. Destination(s, r, pc) = CASE Branches(s, r) -> AsWord(pc + 4 + 4 * Immediate(s))
                                [] s.name \in J -> ((pc + 4) \div P) * P + 4 * s.k
                                [] s.name \in R -> r[s.rs]
                                [] OTHER -> AsWord(pc + 8)
  BY DEF Destination, P
<1>9. next = AsWord(pc + 8)
  <2>1. (pc + 4) + 4 = pc + 8
    BY <1>1
  <2> QED
    BY <1>1, <2>1
<1> HIDE DEF next
<1>10. CASE Branches(s, r)
  <2>1. s.name \notin DOMAIN SpecialNumber \cup {"J", "JAL"}
    BY <1>3, <1>10, OpNames, NameSets
  <2>2. s.k \in 0..(2^HalfBits - 1) /\ i.extra = SignExtended(s.k, HalfBits)
    BY <2>1, TargetField
  <2>3. Immediate(s) \in Int /\ (i.extra = Immediate(s) \/ i.extra = Immediate(s) + Base)
    BY <2>2, ImmediateValue
  <2>4. AsWord((pc + 4) + 4 * i.extra) = AsWord((pc + 4) + 4 * Immediate(s))
    <3>1. pc + 4 \in Int
      BY <1>1
    <3> QED
      BY <2>3, <3>1, BranchTarget
  <2>5. PcAfter(i, d) = AsWord((pc + 4) + 4 * i.extra)
    BY <1>1, <1>2, <1>5, <1>7, <1>10
  <2>6. Destination(s, r, pc) = AsWord((pc + 4) + 4 * Immediate(s))
    BY <1>3, <1>8, <1>10
  <2> QED
    BY <2>4, <2>5, <2>6 DEF d
<1>11. CASE s.name \in J
  <2>1. ~Branches(s, r) /\ ~Taken(i, d) /\ i.opCode \in J /\ i.opCode \notin R /\ s.name \notin R
    BY <1>2, <1>3, <1>4, <1>11
  <2>2. i.extra = s.k
    BY <2>1, TargetField
  <2>3. PcAfter(i, d) = (next - (next % P)) + 4 * s.k
    BY <1>7, <2>1, <2>2
  <2>4. Destination(s, r, pc) = ((pc + 4) \div P) * P + 4 * s.k
    BY <1>8, <2>1, <1>11
  <2>5. pc + 8 < P
    BY DEF P
  <2> HIDE DEF pc
  <2>6. AsWord(pc + 8) = pc + 8
    <3>1. pc + 8 \in 0..(Base - 1)
      BY <1>1, <1>6, <2>5
    <3>2. \A x \in 0..(Base - 1) : x % Base = x
      BY <1>6
    <3> QED
      BY <3>1, <3>2 DEF AsWord
  <2>7. \A x \in 0..(P - 1) : x % P = x /\ x \div P = 0
    <3> SUFFICES ASSUME NEW x \in 0..(P - 1) PROVE x % P = x /\ x \div P = 0
      OBVIOUS
    <3>1. 0 * P + x = x /\ 0 \in Int
      BY <1>6
    <3>2. (0 * P + x) \div P = 0 /\ (0 * P + x) % P = x
      BY <1>6, <3>1, QuotientIsUnique
    <3> QED
      BY <3>1, <3>2
  <2>8. pc + 8 \in 0..(P - 1) /\ pc + 4 \in 0..(P - 1)
    BY <1>1, <1>6, <2>5
  <2>9. next - (next % P) = 0 /\ ((pc + 4) \div P) * P = 0
    <3>1. next = pc + 8 /\ next % P = pc + 8 /\ (pc + 4) \div P = 0
      BY <1>9, <2>6, <2>7, <2>8
    <3> QED
      BY <1>1, <1>6, <3>1
  <2>10. PcAfter(i, d) = Destination(s, r, pc)
    BY <2>3, <2>4, <2>9
  <2> QED
    BY <2>10 DEF d, pc
<1>12. CASE s.name \in R
  <2>1. ~Branches(s, r) /\ ~Taken(i, d) /\ i.opCode \in R /\ i.opCode \notin J /\ s.name \notin J /\ i.opCode = s.name
    BY <1>2, <1>3, <1>4, <1>12
  <2>2. PcAfter(i, d) = d[s.rs] /\ Destination(s, r, pc) = r[s.rs]
    BY <1>1, <1>7, <1>8, <2>1, <1>12
  <2>3. d[s.rs] = r[s.rs]
    <3>1. CASE s.name = "JR"
      <4>1. d = r
        BY <2>1, <3>1, NameSets DEF Computed, d
      <4> QED
        BY <4>1
    <3>2. CASE s.name = "JALR"
      <4>1. s.rs # s.rd /\ i.rd = s.rd
        BY <3>2, Fields DEF Sources
      <4>2. d = [r EXCEPT ![i.rd] = AsWord(r[NextPCReg] + 4)]
        BY <2>1, <3>2, NameSets DEF Computed, d
      <4> QED
        BY <1>1, <4>1, <4>2
    <3> QED
      BY <1>12, <3>1, <3>2
  <2> QED
    BY <2>2, <2>3 DEF d
<1>13. CASE ~Branches(s, r) /\ s.name \notin J \cup R
  <2>1. PcAfter(i, d) = next /\ Destination(s, r, pc) = AsWord(pc + 8)
    BY <1>2, <1>4, <1>7, <1>8, <1>13
  <2> QED
    BY <1>9, <2>1 DEF d
<1> QED
  BY <1>10, <1>11, <1>12, <1>13

LEMMA SlotInvKept ==
    ASSUME OneRegion, ProgramInv, SlotInv, [Next]_uvars
    PROVE  SlotInv'
<1>1. CASE Runs
  <2>1. PICK s \in Sources, n \in 1..NumPhysPages : Outcome(s, n) /\ Remembers(s)
    BY <1>1, StepOutcome DEF ProgramInv
  <2> DEFINE i == Decode(Assembled(s))
             pc == registers[PCReg]
             top == n * PageSize
  <2> SUFFICES ASSUME status' = "user", registers'[PCReg] = registers'[PrevPCReg] + 4
               PROVE  registers'[NextPCReg] = goes'
    BY DEF SlotInv
  <2>2. Executed(s, n)
    BY <2>1 DEF Outcome, Trapped, Crashed
  <2>3. registers \in [Registers -> Word]
    BY DEF ProgramInv, MachineInv, RegistersOK
  <2>4. /\ registers'[PrevPCReg] = pc /\ registers'[PCReg] = registers[NextPCReg]
        /\ registers'[NextPCReg] = PcAfter(i, Computed(i, registers))
        /\ pc \in PageSize..(top - 1)
    BY <2>2 DEF Executed, FetchOK
  <2>5. goes' = Destination(s, registers, pc)
    BY <2>1 DEF Remembers
  <2>6. pc \in Nat /\ registers[NextPCReg] = pc + 4
    BY <2>3, <2>4, RegisterNumbers, WordsAreNumbers
  <2>7. top <= MemorySize /\ top \in Nat /\ MemorySize \in Nat
    <3>0. n \in Nat /\ NumPhysPages \in Nat /\ PageSize \in Nat \ {0} /\ n <= NumPhysPages
      BY TranslationAssumption
    <3>1. top \in Nat /\ NumPhysPages * PageSize \in Nat
      BY <3>0
    <3>2. CASE n = NumPhysPages
      BY <3>1, <3>2 DEF MemorySize
    <3>3. CASE n < NumPhysPages
      <4>1. n * PageSize + PageSize <= NumPhysPages * PageSize
        BY <3>0, <3>3, NextMultiple
      <4> QED
        BY <3>0, <3>1, <4>1 DEF MemorySize
    <3> QED
      BY <3>0, <3>2, <3>3
  <2>8. pc + 8 < 2^(JumpBits + 2)
    <3> DEFINE P == 2^(JumpBits + 2)
    <3>0. JumpBits + 2 \in 0..32
      BY MipsAssumption, ByteFacts
    <3>1. P \in Nat
      BY <3>0, Powers
    <3>2. MemorySize + 8 <= P
      BY DEF OneRegion
    <3> HIDE DEF P, pc, top
    <3>3. pc + 8 < P
      <4>1. pc < top
        BY <2>4, <2>6, <2>7, TranslationAssumption
      <4> QED
        BY <2>6, <2>7, <3>1, <3>2, <4>1
    <3> QED
      BY <3>3 DEF P
  <2>9. Meaning(s, i)
    <3>1. s.name \in Names
      BY DEF Sources
    <3> QED
      BY <3>1, Decoded
  <2> HIDE DEF i
  <2> QED
    BY <2>3, <2>4, <2>5, <2>6, <2>8, <2>9, Follows
<1>2. CASE Starts
  <2>1. steps' = 0
    BY <1>2 DEF Starts, StartProcess, hvars, ProgramInv, MachineInv
  <2> QED
    BY <2>1 DEF SlotInv
<1>3. CASE Converts \/ UNCHANGED uvars
  BY <1>3 DEF Converts, uvars, mvars, hvars, SlotInv
<1>4. CASE Interrupted
  <2>1. \A g \in {PCReg, NextPCReg, PrevPCReg} : registers'[g] = Finished(g)
    BY <1>4, InterruptRegisters, RegisterNumbers DEF ProgramInv, MachineInv
  <2>2. \A g \in {PCReg, NextPCReg, PrevPCReg} : Finished(g) = registers[g]
    BY RegisterNumbers DEF Finished, ProgramInv, MachineInv, RegistersOK
  <2> QED
    BY <1>4, <2>1, <2>2 DEF Interrupted, SlotInv
<1> QED
  BY <1>1, <1>2, <1>3, <1>4 DEF Next

(* Machine::OneInstruction, DelayedLoad and CheckIfDue: a load shows the   *)
(* bytes of memory at the end of the instruction after it, trap or not, or *)
(* before that instruction when an interrupt comes in between, and not     *)
(* earlier; an interrupt changes no other register; a branch takes effect  *)
(* after the instruction behind it.  The memory is smaller than the region *)
(* of a jump.                                                              *)
THEOREM SlotsAreDelayed ==
    ASSUME OneRegion
    PROVE  Spec => DelaySlots
<1> DEFINE Slots == steps' # steps =>
              /\ due.reg # 0 /\ ran.name # "LWL" /\ status' # "crashed" => registers'[due.reg] = due.value
              /\ status' = "user" /\ ran'.name \in Loads /\ ran'.rt # due.reg =>
                    registers'[ran'.rt] = registers[ran'.rt]
              /\ status' = "user" /\ steps > 0 /\ registers[PCReg] = registers[PrevPCReg] + 4 =>
                    registers'[PCReg] = goes
           Between == steps' = steps /\ status = "user" =>
              \A g \in GPRegs \cup HiReg..PrevPCReg :
                  g # due.reg \/ ran.name # "LWL" =>
                      registers'[g] = IF g # 0 /\ g = due.reg THEN due.value ELSE registers[g]
<1>1. Init => SlotInv
  BY DEF Init, SlotInv
<1>2. ProgramInv /\ SlotInv /\ [Next]_uvars => SlotInv'
  BY SlotInvKept
<1>3. ProgramInv /\ SlotInv /\ [Next]_uvars => [Slots]_uvars
  <2> SUFFICES ASSUME ProgramInv, SlotInv, [Next]_uvars, steps' # steps
               PROVE  /\ due.reg # 0 /\ ran.name # "LWL" /\ status' # "crashed" => registers'[due.reg] = due.value
                      /\ status' = "user" /\ ran'.name \in Loads /\ ran'.rt # due.reg =>
                            registers'[ran'.rt] = registers[ran'.rt]
                      /\ status' = "user" /\ steps > 0 /\ registers[PCReg] = registers[PrevPCReg] + 4 =>
                            registers'[PCReg] = goes
    OBVIOUS
  <2>1. Runs
    BY OnlyRuns
  <2>2. PICK s \in Sources, n \in 1..NumPhysPages : Outcome(s, n) /\ Remembers(s)
    BY <2>1, StepOutcome DEF ProgramInv
  <2>3. ran' = s /\ status = "user"
    BY <2>2 DEF Remembers, Outcome
  <2>4. /\ registers[LoadReg] = due.reg /\ due.reg \in GPRegs
        /\ due.reg # 0 /\ ran.name # "LWL" => registers[LoadValueReg] = due.value
    BY <2>3 DEF ProgramInv, HistoryInv
  <2>5. RegistersOK(registers) /\ registers \in [Registers -> Word] /\ registers[0] = 0
    BY DEF ProgramInv, MachineInv, RegistersOK
  <2>6. ASSUME due.reg # 0, ran.name # "LWL", status' # "crashed" PROVE registers'[due.reg] = due.value
    <3>1. CASE Trapped(s, n)
      <4>1. registers'[due.reg] = Finished(due.reg)
        BY <2>4, <3>1 DEF Trapped
      <4> QED
        BY <2>4, <2>6, <4>1 DEF Finished
    <3>2. CASE Executed(s, n)
      <4>1. due.reg \in (GPRegs \cup {HiReg, LoReg}) \ {0}
        BY <2>4, <2>6
      <4>2. registers'[due.reg] = registers[LoadValueReg]
        BY <2>4, <3>2, <4>1 DEF Executed
      <4> QED
        BY <2>4, <2>6, <4>2
    <3> QED
      BY <2>2, <2>6, <3>1, <3>2 DEF Outcome, Crashed
  <2>7. ASSUME status' = "user", s.name \in Loads, s.rt # due.reg PROVE registers'[s.rt] = registers[s.rt]
    <3> DEFINE i == Decode(Assembled(s))
    <3>1. Executed(s, n) /\ s.rt \in GPRegs
      BY <2>2, <2>7 DEF Outcome, Trapped, Crashed, Sources
    <3>2. CASE s.rt = 0
      BY <2>5, <3>1, <3>2 DEF Executed, RegistersOK
    <3>3. CASE s.rt # 0
      <4>1. s.rt \in (GPRegs \cup {HiReg, LoReg}) \ {0}
        BY <3>1, <3>3
      <4>2. registers'[s.rt] = Computed(i, registers)[s.rt]
        BY <2>4, <2>7, <3>1, <4>1 DEF Executed
      <4>3. i.opCode = s.name
        <5>1. s.name \in Names
          BY DEF Sources
        <5>2. Meaning(s, i)
          BY <5>1, Decoded
        <5> HIDE DEF i
        <5> QED
          BY <2>7, <5>2, Fields
      <4>4. Computed(i, registers) = registers
        <5> HIDE DEF i
        <5> QED
          BY <2>7, <4>3, NameSets DEF Computed
      <4> QED
        BY <4>2, <4>4
    <3> QED
      BY <3>2, <3>3
  <2>8. ASSUME status' = "user", steps > 0, registers[PCReg] = registers[PrevPCReg] + 4
        PROVE  registers'[PCReg] = goes
    <3>1. Executed(s, n)
      BY <2>2, <2>8 DEF Outcome, Trapped, Crashed
    <3>2. registers'[PCReg] = registers[NextPCReg]
      BY <3>1 DEF Executed
    <3> QED
      BY <2>3, <2>8, <3>2 DEF SlotInv
  <2> QED
    BY <2>3, <2>6, <2>7, <2>8
<1>4. ProgramInv /\ [Next]_uvars => [Between]_uvars
  <2> SUFFICES ASSUME ProgramInv, Next, steps' = steps, status = "user",
                      NEW g \in GPRegs \cup HiReg..PrevPCReg, g # due.reg \/ ran.name # "LWL"
               PROVE  registers'[g] = IF g # 0 /\ g = due.reg THEN due.value ELSE registers[g]
    OBVIOUS
  <2>1. ~Runs
    BY DEF Runs, Step, Remembers, ProgramInv, MachineInv
  <2>2. Interrupted
    BY <2>1 DEF Next, Converts, Starts, StartProcess
  <2>3. registers'[g] = Finished(g)
    BY <2>2, InterruptRegisters DEF ProgramInv, MachineInv
  <2>4. registers[LoadReg] = due.reg /\ (due.reg # 0 /\ ran.name # "LWL" => registers[LoadValueReg] = due.value)
    BY DEF ProgramInv, HistoryInv
  <2> QED
    BY <2>3, <2>4 DEF Finished
<1>5. [Slots]_uvars /\ [Between]_uvars => [Slots /\ Between]_uvars
  OBVIOUS
<1> QED
  BY <1>1, <1>2, <1>3, <1>4, <1>5, ProgramInvariant, PTL DEF Spec, DelaySlots

-----------------------------------------------------------------------------
(* Arithmetic on words and on the integers they stand for.                 *)

LEMMA Wrapped ==
    ASSUME NEW n \in Int, -Base <= n, n < 2 * Base
    PROVE  AsWord(n) = IF n < 0 THEN n + Base ELSE IF n < Base THEN n ELSE n - Base
<1>0. Base \in Nat \ {0}
  BY BaseFacts
<1>1. CASE n < 0
  <2>1. n + Base \in 0..(Base - 1) /\ (-1) * Base + (n + Base) = n
    BY <1>0, <1>1
  <2>2. ((-1) * Base + (n + Base)) % Base = n + Base
    BY <1>0, <2>1, QuotientIsUnique
  <2> QED
    BY <1>1, <2>1, <2>2 DEF AsWord
<1>2. CASE n >= 0 /\ n < Base
  <2>1. n \in 0..(Base - 1) /\ 0 * Base + n = n
    BY <1>0, <1>2
  <2>2. (0 * Base + n) % Base = n
    BY <1>0, <2>1, QuotientIsUnique
  <2> QED
    BY <1>2, <2>1, <2>2 DEF AsWord
<1>3. CASE n >= Base
  <2>1. n - Base \in 0..(Base - 1) /\ 1 * Base + (n - Base) = n
    BY <1>0, <1>3
  <2>2. (1 * Base + (n - Base)) % Base = n - Base
    BY <1>0, <2>1, QuotientIsUnique
  <2> QED
    BY <1>0, <1>3, <2>1, <2>2 DEF AsWord
<1> QED
  BY <1>0, <1>1, <1>2, <1>3

(* The words and the integers, by half of the words. *)
LEMMA Halves ==
    \E h \in Nat \ {0} :
       /\ Base = 2 * h /\ Base \div 2 = h
       /\ \A w \in Word : /\ w \in 0..(2 * h - 1)
                          /\ Signed(w) = IF w >= h THEN w - 2 * h ELSE w
                          /\ Negative(w) <=> w >= h
       /\ \A n \in Int : Fits(n) <=> -h <= n /\ n < h
<1> DEFINE h == Base \div 2
<1>1. h \in Nat \ {0} /\ Base = 2 * h
  BY BaseFacts
<1>2. /\ \A w \in Word : /\ w \in 0..(Base - 1)
                         /\ Signed(w) = IF w >= h THEN w - Base ELSE w
                         /\ Negative(w) <=> w >= h
      /\ \A n \in Int : Fits(n) <=> n \in (-h)..(h - 1)
  BY DEF Word, Signed, Negative, Fits
<1> HIDE DEF h
<1>3. \A n \in Int : n \in (-h)..(h - 1) <=> -h <= n /\ n < h
  BY <1>1
<1> QED
  BY <1>1, <1>2, <1>3 DEF h

LEMMA SignedOfFit == \A n \in Int : Fits(n) => Signed(AsWord(n)) = n
<1> SUFFICES ASSUME NEW n \in Int, Fits(n) PROVE Signed(AsWord(n)) = n
  OBVIOUS
<1>1. PICK h \in Nat \ {0} :
         /\ Base = 2 * h
         /\ \A w \in Word : Signed(w) = IF w >= h THEN w - 2 * h ELSE w
         /\ -h <= n /\ n < h
  BY Halves
<1>2. AsWord(n) = IF n < 0 THEN n + Base ELSE IF n < Base THEN n ELSE n - Base
  BY <1>1, Wrapped
<1>3. AsWord(n) \in Word
  BY AsWordInWord
<1> QED
  BY <1>1, <1>2, <1>3

(* The sum and the difference of two words, as integers. *)
LEMMA SumOfWords ==
    ASSUME NEW a \in Word, NEW b \in Word
    PROVE  LET n == Signed(a) + Signed(b)
           IN  /\ SameSignOverflow(a, b, AsWord(a + b)) <=> ~Fits(n)
               /\ Signed(AsWord(a + b)) - n \in {-Base, 0, Base}
               /\ Fits(n) => Signed(AsWord(a + b)) = n
<1> DEFINE w == AsWord(a + b)
           x == Signed(a)
           y == Signed(b)
           z == Signed(w)
<1>1. PICK h \in Nat \ {0} :
       /\ Base = 2 * h
       /\ \A u \in Word : /\ u \in 0..(2 * h - 1)
                          /\ Signed(u) = IF u >= h THEN u - 2 * h ELSE u
                          /\ Negative(u) <=> u >= h
       /\ \A n \in Int : Fits(n) <=> -h <= n /\ n < h
  BY Halves
<1>2. a \in 0..(2 * h - 1) /\ b \in 0..(2 * h - 1)
  BY <1>1
<1>3. w \in Word /\ w = IF a + b < Base THEN a + b ELSE a + b - Base
  BY <1>1, <1>2, Wrapped, AsWordInWord
<1>4. /\ x = IF a >= h THEN a - 2 * h ELSE a
      /\ y = IF b >= h THEN b - 2 * h ELSE b
      /\ z = IF w >= h THEN w - 2 * h ELSE w
      /\ Negative(a) <=> a >= h
      /\ Negative(b) <=> b >= h
      /\ Negative(w) <=> w >= h
      /\ x + y \in Int => (Fits(x + y) <=> -h <= x + y /\ x + y < h)
  <2> HIDE DEF w
  <2> QED
    BY <1>1, <1>3
<1>5. SameSignOverflow(a, b, w) <=> ((a >= h) <=> (b >= h)) /\ ~((a >= h) <=> (w >= h))
  <2>1. Negative(a) \in BOOLEAN /\ Negative(b) \in BOOLEAN /\ Negative(w) \in BOOLEAN
    BY DEF Negative
  <2> QED
    BY <1>4, <2>1 DEF SameSignOverflow
<1> HIDE DEF w, x, y, z
<1>6. x \in Int /\ y \in Int /\ x + y \in Int
  BY <1>2, <1>4
<1>7. SameSignOverflow(a, b, w) <=> ~Fits(x + y)
  BY <1>1, <1>2, <1>3, <1>4, <1>5, <1>6
<1>8. z - (x + y) \in {-Base, 0, Base} /\ (Fits(x + y) => z = x + y)
  BY <1>1, <1>2, <1>3, <1>4, <1>6
<1> QED
  BY <1>7, <1>8 DEF w, x, y, z

LEMMA DifferenceOfWords ==
    ASSUME NEW a \in Word, NEW b \in Word
    PROVE  LET n == Signed(a) - Signed(b)
           IN  /\ Negative(a) # Negative(b) /\ Negative(a) # Negative(AsWord(a - b)) <=> ~Fits(n)
               /\ Signed(AsWord(a - b)) - n \in {-Base, 0, Base}
               /\ Fits(n) => Signed(AsWord(a - b)) = n
<1> DEFINE w == AsWord(a - b)
           x == Signed(a)
           y == Signed(b)
           z == Signed(w)
<1>1. PICK h \in Nat \ {0} :
       /\ Base = 2 * h
       /\ \A u \in Word : /\ u \in 0..(2 * h - 1)
                          /\ Signed(u) = IF u >= h THEN u - 2 * h ELSE u
                          /\ Negative(u) <=> u >= h
       /\ \A n \in Int : Fits(n) <=> -h <= n /\ n < h
  BY Halves
<1>2. a \in 0..(2 * h - 1) /\ b \in 0..(2 * h - 1)
  BY <1>1
<1>3. w \in Word /\ w = IF a - b < 0 THEN a - b + Base ELSE a - b
  BY <1>1, <1>2, Wrapped, AsWordInWord
<1>4. /\ x = IF a >= h THEN a - 2 * h ELSE a
      /\ y = IF b >= h THEN b - 2 * h ELSE b
      /\ z = IF w >= h THEN w - 2 * h ELSE w
      /\ Negative(a) <=> a >= h
      /\ Negative(b) <=> b >= h
      /\ Negative(w) <=> w >= h
      /\ x - y \in Int => (Fits(x - y) <=> -h <= x - y /\ x - y < h)
  <2> HIDE DEF w
  <2> QED
    BY <1>1, <1>3
<1>5. Negative(a) # Negative(b) /\ Negative(a) # Negative(w)
        <=> ~((a >= h) <=> (b >= h)) /\ ~((a >= h) <=> (w >= h))
  <2>1. Negative(a) \in BOOLEAN /\ Negative(b) \in BOOLEAN /\ Negative(w) \in BOOLEAN
    BY DEF Negative
  <2> QED
    BY <1>4, <2>1
<1> HIDE DEF w, x, y, z
<1>6. x \in Int /\ y \in Int /\ x - y \in Int
  BY <1>2, <1>4
<1>7. ~((a >= h) <=> (b >= h)) /\ ~((a >= h) <=> (w >= h)) <=> ~Fits(x - y)
  BY <1>1, <1>2, <1>3, <1>4, <1>6
<1>8. z - (x - y) \in {-Base, 0, Base} /\ (Fits(x - y) => z = x - y)
  BY <1>1, <1>2, <1>3, <1>4, <1>6
<1> QED
  BY <1>5, <1>7, <1>8 DEF w, x, y, z

LEMMA NoRemainder == 0 % Base = 0 /\ Base % Base = 0 /\ (-Base) % Base = 0
BY WordSizes

(* The bounds of a right shift. *)
LEMMA ShiftIsFloor ==
    ASSUME NEW w \in Word, NEW k \in 0..32
    PROVE  LET q == Signed(ShiftRightSigned(w, k))
           IN  q \in Int /\ q * 2^k <= Signed(w) /\ Signed(w) < (q + 1) * 2^k
<1> DEFINE p == 2^k
           n == Signed(w)
           q == n \div p
<1>1. p \in Nat \ {0} /\ n \in Int /\ n \in (-(Base \div 2))..(Base \div 2 - 1) /\ Base \div 2 \in Nat \ {0}
  BY Powers, SignedValue, BaseFacts
<1> HIDE DEF p, n
<1>2. q \in Int /\ n % p \in 0..(p - 1) /\ n = q * p + (n % p)
  BY <1>1, Division
<1>3. q \in (-(Base \div 2))..(Base \div 2 - 1)
  <2> DEFINE h == Base \div 2
             m == n % p
  <2>1. h \in Nat \ {0} /\ n \in (-h)..(h - 1) /\ m \in 0..(p - 1) /\ n = q * p + m /\ q \in Int
    BY <1>1, <1>2
  <2> HIDE DEF h, m, q
  <2>2. q < h
    <3> SUFFICES ASSUME q >= h PROVE FALSE
      BY <2>1
    <3>1. (q - h) * p >= 0 /\ (q - h) * p = q * p - h * p
      BY <1>1, <2>1
    <3>2. h * (p - 1) >= 0 /\ h * (p - 1) = h * p - h
      BY <1>1, <2>1
    <3> QED
      BY <1>1, <2>1, <3>1, <3>2
  <2>3. q >= -h
    <3> SUFFICES ASSUME q < -h PROVE FALSE
      BY <2>1
    <3>1. (-h - 1 - q) * p >= 0 /\ (-h - 1 - q) * p = -(h * p) - p - q * p
      BY <1>1, <2>1
    <3>2. h * (p - 1) >= 0 /\ h * (p - 1) = h * p - h
      BY <1>1, <2>1
    <3> QED
      BY <1>1, <2>1, <3>1, <3>2
  <2> QED
    BY <2>1, <2>2, <2>3 DEF h
<1>4. Signed(AsWord(q)) = q
  BY <1>2, <1>3, SignedOfFit DEF Fits
<1> HIDE DEF q
<1>5. (q + 1) * p = q * p + p
  BY <1>1, <1>2
<1>6. q * p <= n /\ n < (q + 1) * p
  BY <1>1, <1>2, <1>5
<1>7. Signed(ShiftRightSigned(w, k)) = q
  BY <1>4 DEF ShiftRightSigned, p, n, q
<1> QED
  BY <1>2, <1>6, <1>7 DEF p, n

(* The quotient of C, which rounds towards 0, and what it leaves. *)
LEMMA QuotientOfC ==
    ASSUME NEW a \in Int, NEW b \in Int, b # 0
    PROVE  LET q == Quotient(a, b)
               rem == a - b * q
           IN  /\ q \in Int /\ rem \in Int /\ rem * rem < b * b /\ rem * a >= 0
               /\ (rem < b /\ -rem < b) \/ (rem < -b /\ -rem < -b)
               /\ a >= 0 /\ b >= 0 => q = a \div b /\ rem >= 0 /\ rem < b
<1> DEFINE x == IF a < 0 THEN -a ELSE a
           y == IF b < 0 THEN -b ELSE b
           d == x \div y
           m == x % y
           q == Quotient(a, b)
           rem == a - b * q
<1>1. x \in Nat /\ y \in Nat \ {0} /\ (a = x \/ a = -x) /\ (b = y \/ b = -y)
  OBVIOUS
<1>2. q = IF (a < 0) = (b < 0) THEN d ELSE -d
  BY DEF Quotient
<1>3. a < 0 => a = -x
  OBVIOUS
<1>4. ~(a < 0) => a = x
  OBVIOUS
<1>5. b < 0 => b = -y
  OBVIOUS
<1>6. ~(b < 0) => b = y
  OBVIOUS
<1> HIDE DEF x, y
<1>7. d \in Int /\ m \in 0..(y - 1) /\ x = d * y + m
  BY <1>1, Division
<1> HIDE DEF d, m, q
<1>8. q \in Int
  BY <1>2, <1>7
<1>9. b * q = IF a < 0 THEN -(d * y) ELSE d * y
  <2>1. CASE a < 0 /\ b < 0
    BY <1>1, <1>2, <1>5, <1>7, <2>1
  <2>2. CASE a < 0 /\ ~(b < 0)
    BY <1>1, <1>2, <1>6, <1>7, <2>2
  <2>3. CASE ~(a < 0) /\ b < 0
    BY <1>1, <1>2, <1>5, <1>7, <2>3
  <2>4. CASE ~(a < 0) /\ ~(b < 0)
    BY <1>1, <1>2, <1>6, <1>7, <2>4
  <2> QED
    BY <2>1, <2>2, <2>3, <2>4
<1>10. rem = IF a < 0 THEN -m ELSE m
  <2> DEFINE p == d * y
             v == b * q
  <2>1. p \in Int /\ x = p + m /\ v = (IF a < 0 THEN -p ELSE p)
    BY <1>1, <1>7, <1>9
  <2> HIDE DEF p, v
  <2>2. a - v = IF a < 0 THEN -m ELSE m
    BY <1>1, <1>3, <1>4, <1>7, <2>1
  <2> QED
    BY <2>2 DEF v
<1> HIDE DEF rem
<1>11. rem \in Int /\ rem * rem = m * m /\ b * b = y * y
  BY <1>1, <1>7, <1>10
<1>12. m * m < y * y
  <2>1. m \in Int /\ y \in Int /\ y - m > 0 /\ y + m > 0
    BY <1>1, <1>7
  <2>2. (y - m) * (y + m) > 0
    BY <2>1
  <2>3. (y - m) * (y + m) = y * y - m * m
    BY <2>1
  <2> QED
    BY <2>1, <2>2, <2>3
<1>13. rem * a = m * x
  <2>1. CASE a < 0
    BY <1>1, <1>3, <1>7, <1>10, <2>1
  <2>2. CASE ~(a < 0)
    BY <1>1, <1>4, <1>7, <1>10, <2>2
  <2> QED
    BY <2>1, <2>2
<1>14. m * x >= 0
  BY <1>1, <1>7
<1>15. ASSUME a >= 0, b >= 0 PROVE q = a \div b /\ rem >= 0 /\ rem < b
  <2>1. a = x /\ b = y /\ ~(a < 0) /\ ~(b < 0)
    BY <1>4, <1>6, <1>15
  <2> QED
    BY <1>2, <1>7, <1>10, <2>1 DEF d
<1>16. (rem < b /\ -rem < b) \/ (rem < -b /\ -rem < -b)
  BY <1>1, <1>5, <1>6, <1>7, <1>10
<1> QED
  BY <1>8, <1>11, <1>12, <1>13, <1>14, <1>15, <1>16 DEF rem, q

(* Only the least integer divided by -1 has a quotient that is no word. *)
LEMMA QuotientFits ==
    ASSUME NEW a \in Int, NEW b \in Int, b # 0, Fits(a)
    PROVE  Fits(Quotient(a, b)) <=> ~(a = -(Base \div 2) /\ b = -1)
<1> DEFINE x == IF a < 0 THEN -a ELSE a
           y == IF b < 0 THEN -b ELSE b
           d == x \div y
           h == Base \div 2
           q == Quotient(a, b)
<1>1. x \in Nat /\ y \in Nat \ {0} /\ (a < 0 => a = -x) /\ (~(a < 0) => a = x) /\ (b < 0 => b = -y) /\ (~(b < 0) => b = y)
  OBVIOUS
<1>2. q = IF (a < 0) = (b < 0) THEN d ELSE -d
  BY DEF Quotient
<1>3. h \in Nat \ {0} /\ h >= 128 /\ a \in (-h)..(h - 1)
  BY BaseFacts, WordSizes DEF Fits
<1> HIDE DEF x, y
<1>4. d \in Int /\ x % y \in 0..(y - 1) /\ x = d * y + (x % y)
  BY <1>1, Division
<1>a. y = 1 => d = x
  BY <1>1
<1> HIDE DEF d, q, h
<1>5. x \in 0..h
  BY <1>1, <1>3
<1>6. d \in 0..x /\ (y >= 2 => 2 * d <= x)
  <2> DEFINE m == x % y
             p == d * y
  <2>1. m \in 0..(y - 1) /\ x = p + m
    BY <1>4
  <2> HIDE DEF m
  <2>2. d >= 0
    <3> SUFFICES ASSUME d < 0 PROVE FALSE
      BY <1>4
    <3>1. (-1 - d) * y >= 0 /\ (-1 - d) * y = -y - p
      BY <1>1, <1>4
    <3>2. p \in Int
      BY <1>1, <1>4
    <3> HIDE DEF p
    <3> QED
      BY <1>1, <1>4, <2>1, <3>1, <3>2
  <2>3. (y - 1) * d >= 0 /\ (y - 1) * d = p - d
    BY <1>1, <1>4, <2>2
  <2>4. ASSUME y >= 2 PROVE 2 * d <= p
    <3>1. (y - 2) * d >= 0 /\ (y - 2) * d = p - 2 * d
      BY <1>1, <1>4, <2>2, <2>4
    <3> QED
      BY <1>1, <1>4, <3>1
  <2>5. p \in Int
    BY <1>1, <1>4
  <2> HIDE DEF p
  <2> QED
    BY <1>1, <1>4, <2>1, <2>2, <2>3, <2>4, <2>5
<1>7. q \in Int
  BY <1>2, <1>6
<1>8. Fits(q) <=> -h <= q /\ q < h
  <2>1. Fits(q) <=> q \in (-h)..(h - 1)
    BY DEF Fits, h
  <2> QED
    BY <1>3, <1>7, <2>1
<1> SUFFICES Fits(q) <=> ~(a = -h /\ b = -1)
  BY DEF q, h
<1>9. CASE y >= 2
  <2>1. -h <= q /\ q < h /\ b # -1
    BY <1>1, <1>2, <1>3, <1>5, <1>6, <1>9
  <2> QED
    BY <1>8, <2>1
<1>10. CASE y = 1
  <2>1. d = x /\ (b = 1 \/ b = -1)
    BY <1>1, <1>a, <1>10
  <2>2. CASE b = 1
    BY <1>1, <1>2, <1>3, <1>5, <1>8, <2>1, <2>2
  <2>3. CASE b = -1
    <3>1. q = -a
      BY <1>1, <1>2, <2>1, <2>3
    <3>2. -h <= -a /\ -a < h <=> a # -h
      BY <1>3
    <3> QED
      BY <1>8, <2>3, <3>1, <3>2
  <2> QED
    BY <2>1, <2>2, <2>3
<1> QED
  BY <1>1, <1>9, <1>10

(* One more bit of a number. *)
LEMMA OneMoreBit ==
    ASSUME NEW a \in Nat, NEW n \in 1..32
    PROVE  a % 2^n = (a % 2^(n - 1)) + 2^(n - 1) * Bit(a, n - 1)
<1> DEFINE p == 2^(n - 1)
           q == a \div p
           r == a % p
           c == q \div 2
           b == q % 2
<1>1. n - 1 \in 0..32 /\ n \in 1..32
  OBVIOUS
<1>2. p \in Nat \ {0} /\ 2^n = 2 * p
  BY <1>1, Powers
<1>3. Bit(a, n - 1) = b
  BY DEF Bit
<1> HIDE DEF p
<1>4. q \in Int /\ r \in 0..(p - 1) /\ a = q * p + r
  BY <1>2, Division
<1> HIDE DEF q, r
<1>5. c \in Int /\ b \in {0, 1} /\ q = 2 * c + b
  BY <1>4
<1> HIDE DEF c, b
<1>6. p * b \in {0, p} /\ p * b \in Int
  BY <1>2, <1>5
<1>7. a = c * (2 * p) + (r + p * b)
  <2>1. q * p = c * (2 * p) + p * b
    BY <1>2, <1>5
  <2> DEFINE x == q * p
             y == c * (2 * p)
             z == p * b
  <2>2. x = y + z /\ x \in Int /\ y \in Int /\ z \in Int /\ a = x + r
    BY <1>2, <1>4, <1>5, <2>1
  <2> HIDE DEF x, y, z
  <2>3. a = y + (r + z)
    BY <1>4, <2>2
  <2> QED
    BY <2>3 DEF y, z
<1>8. r + p * b \in 0..(2 * p - 1) /\ 2 * p \in Nat \ {0}
  BY <1>2, <1>4, <1>6
<1> DEFINE N == 2 * p
           m == r + p * b
<1>9. (c * N + m) % N = m
  <2> HIDE DEF N, m
  <2>1. N \in Nat \ {0} /\ m \in 0..(N - 1)
    BY <1>8 DEF N, m
  <2> QED
    BY <1>5, <2>1, QuotientIsUnique
<1> QED
  BY <1>2, <1>3, <1>7, <1>9 DEF p, r

LEMMA SmallHasNoBit ==
    ASSUME NEW n \in 0..32, NEW u \in 0..(2^n - 1), NEW m \in n..32
    PROVE  Bit(u, m) = 0
<1>0. m \in 0..32 /\ n \in 0..m
  OBVIOUS
<1>1. PICK q \in Nat \ {0} : 2^m = q * 2^n
  BY <1>0, PowersDivide
<1> DEFINE p == 2^n
           P == 2^m
<1>2. p \in Nat \ {0} /\ P \in Nat \ {0} /\ P = q * p /\ u \in 0..(p - 1)
  BY <1>1, Powers
<1> HIDE DEF p, P
<1>3. (q - 1) * p >= 0 /\ (q - 1) * p = P - p
  BY <1>2
<1>4. u \in 0..(P - 1) /\ u = 0 * P + u
  BY <1>2, <1>3
<1>5. (0 * P + u) \div P = 0
  BY <1>2, <1>4, QuotientIsUnique
<1>6. u \div P = 0
  BY <1>4, <1>5
<1>7. Bit(u, m) = (u \div P) % 2
  BY DEF Bit, P
<1> QED
  BY <1>6, <1>7

(* An immediate of half a word leaves the other half of the register. *)
LEMMA OrKeepsHigh ==
    ASSUME NEW a \in Word, NEW u \in 0..(2^HalfBits - 1)
    PROVE  HighBytes(Or(a, u), 2) = HighBytes(a, 2)
<1>0. /\ WordBits \in 8..32 /\ HalfBits \in 4..16 /\ HalfBits < WordBits /\ 2^WordBits = Base
      /\ 2^HalfBits = ByteBase^2 /\ 2^HalfBits \in Nat \ {0}
  BY ByteFacts, Powers
<1>1. a \in Nat /\ u \in Nat /\ a \in 0..(Base - 1)
  BY <1>0, WordsAreNumbers DEF Word
<1>2. BitOr \in [{0, 1} -> [{0, 1} -> {0, 1}]] /\ \A x \in {0, 1} : BitOr[x][0] = x
  BY DEF BitOr
<1>3. PICK low \in [0..WordBits -> Nat], bit \in [1..WordBits -> {0, 1}] :
              /\ Combined(BitOr, a, u) = low[WordBits]
              /\ low[0] = 0
              /\ \A n \in 1..WordBits : bit[n] = BitOr[Bit(a, n - 1)][Bit(u, n - 1)]
              /\ \A n \in 1..WordBits : low[n] = low[n - 1] + 2^(n - 1) * bit[n]
  BY <1>1, <1>2, CombinedSum, Zenon
<1> DEFINE Small == {n \in 0..WordBits : low[n] \in 0..(2^n - 1)}
           H == 2^HalfBits
           T == {n \in 0..WordBits : n >= HalfBits => low[n] - low[HalfBits] = (a % 2^n) - (a % H)}
<1>4. low[HalfBits] \in 0..(H - 1)
  <2>1. 0 \in Small
    <3>1. 0 \in 0..WordBits /\ low[0] \in 0..(2^0 - 1)
      BY <1>0, <1>3, Powers
    <3> QED
      BY <3>1
  <2>2. ASSUME NEW n \in 1..WordBits, n - 1 \in Small PROVE n \in Small
    <3> DEFINE p == 2^(n - 1)
               q == 2^n
    <3>1. n - 1 \in 0..32 /\ n \in 1..32
      BY <1>0
    <3>2. q = 2 * p /\ p \in Nat
      BY <3>1, Powers
    <3>3. bit[n] \in {0, 1}
      OBVIOUS
    <3>4. low[n - 1] \in 0..(p - 1) /\ low[n] = low[n - 1] + p * bit[n]
      BY <1>3, <2>2
    <3> HIDE DEF p, q
    <3>5. low[n] \in 0..(q - 1)
      BY <3>2, <3>3, <3>4
    <3> QED
      BY <3>5 DEF q
  <2> HIDE DEF Small
  <2>3. WordBits \in Nat /\ HalfBits \in 0..WordBits
    BY <1>0
  <2>4. HalfBits \in Small
    BY <2>1, <2>2, <2>3, UpTo
  <2> QED
    BY <2>4 DEF Small
<1>5. ASSUME NEW n \in 1..WordBits, n - 1 \in T PROVE n \in T
  <2> SUFFICES ASSUME n >= HalfBits PROVE low[n] - low[HalfBits] = (a % 2^n) - (a % H)
    OBVIOUS
  <2>1. CASE n = HalfBits
    <3>1. low[HalfBits] - low[HalfBits] = 0
      BY <1>4
    <3>2. a % H \in Int
      BY <1>0, <1>1
    <3> HIDE DEF H
    <3>3. (a % H) - (a % H) = 0
      BY <3>2
    <3> QED
      BY <2>1, <3>1, <3>3 DEF H
  <2>2. CASE n > HalfBits
    <3> DEFINE p == 2^(n - 1)
               old == low[n - 1]
               d == Bit(a, n - 1)
               s == a % p
               t == a % 2^n
               l == low[HalfBits]
               m == a % H
    <3>1. n - 1 \in HalfBits..32 /\ n \in 1..32 /\ n - 1 >= HalfBits /\ n - 1 \in 0..WordBits /\ n - 1 \in 0..32
          /\ HalfBits \in 0..32
      BY <1>0, <2>2
    <3>2. Bit(u, n - 1) = 0
      BY <3>1, SmallHasNoBit
    <3>3. d \in {0, 1}
      BY <1>1, <3>1, BitIsBit
    <3>4. bit[n] = d
      BY <1>2, <1>3, <3>2, <3>3
    <3>5. t = s + p * d
      BY <1>1, <3>1, OneMoreBit
    <3>6. low[n] = old + p * d
      BY <1>3, <3>4
    <3>7. old - l = s - m
      BY <1>5, <3>1
    <3>a. p \in Nat \ {0}
      BY <3>1, Powers
    <3>b. old \in Nat
      BY <3>1
    <3>c. HalfBits \in 0..WordBits
      BY <1>0
    <3>8. p \in Nat \ {0} /\ old \in Nat /\ l \in Nat
      BY <3>a, <3>b, <3>c
    <3>9. s \in Int /\ m \in Int
      <4> HIDE DEF p, H
      <4>1. H \in Nat \ {0}
        BY <1>0 DEF H
      <4> QED
        BY <1>1, <3>8, <4>1
    <3> HIDE DEF p, old, d, s, t, l, m
    <3> DEFINE e == p * d
    <3>10. e \in Int /\ t = s + e /\ low[n] = old + e
      BY <3>3, <3>5, <3>6, <3>8
    <3> HIDE DEF e
    <3>11. low[n] - l = t - m
      BY <3>7, <3>8, <3>9, <3>10
    <3> QED
      BY <3>11 DEF l, t, m
  <2>3. n = HalfBits \/ n > HalfBits
    BY <1>0
  <2> QED
    BY <2>1, <2>2, <2>3
<1>6. 0 \in T
  BY <1>0
<1> HIDE DEF T
<1>7. WordBits \in T
  <2>1. WordBits \in Nat /\ WordBits \in 0..WordBits
    BY <1>0
  <2> QED
    BY <1>5, <1>6, <2>1, UpTo
<1>8. low[WordBits] - low[HalfBits] = (a % Base) - (a % H)
  BY <1>0, <1>7 DEF T
<1>9. a % Base = a
  BY <1>1, BaseFacts
<1> DEFINE w == low[WordBits]
           l == low[HalfBits]
           c == a \div H
           m == a % H
<1> HIDE DEF H
<1>10. H \in Nat \ {0} /\ l \in 0..(H - 1) /\ w \in Nat
  BY <1>0, <1>4 DEF H
<1>11. c \in Int /\ m \in 0..(H - 1) /\ a = c * H + m
  <2>1. H \in Nat \ {0} /\ a \in Int
    BY <1>1, <1>10
  <2> QED
    BY <2>1, Division
<1>12. w - l = a - m
  BY <1>8, <1>9
<1> HIDE DEF w, l, c, m
<1>13. w = c * H + l
  <2> DEFINE x == c * H
  <2>1. x \in Int /\ a = x + m
    BY <1>10, <1>11
  <2> HIDE DEF x
  <2>2. w = x + l
    BY <1>1, <1>10, <1>11, <1>12, <2>1
  <2> QED
    BY <2>2 DEF x
<1>14. w % H = l
  BY <1>10, <1>11, <1>13, QuotientIsUnique
<1>15. w - (w % H) = a - (a % H)
  BY <1>12, <1>14 DEF m
<1> QED
  BY <1>0, <1>3, <1>15 DEF HighBytes, Or, w, H

-----------------------------------------------------------------------------
(* What the multiplication computes.                                       *)

LEMMA ShiftsByOne ==
    ASSUME NEW w \in Word
    PROVE  /\ ShiftLeft(w, 1) = IF Negative(w) THEN 2 * w - Base ELSE 2 * w
           /\ ShiftRightSigned(w, 1) = IF Negative(w) THEN (w - Base) \div 2 + Base ELSE w \div 2
<1>1. PICK h \in Nat \ {0} :
       /\ Base = 2 * h
       /\ \A u \in Word : /\ u \in 0..(2 * h - 1)
                          /\ Signed(u) = IF u >= h THEN u - 2 * h ELSE u
                          /\ Negative(u) <=> u >= h
  BY Halves
<1>2. w \in 0..(2 * h - 1) /\ Signed(w) = (IF w >= h THEN w - 2 * h ELSE w) /\ (Negative(w) <=> w >= h)
  BY <1>1
<1>3. ShiftLeft(w, 1) = AsWord(2 * w) /\ ShiftRightSigned(w, 1) = AsWord(Signed(w) \div 2)
  BY <1>2 DEF ShiftLeft, ShiftRightSigned, AsWord
<1>4. AsWord(2 * w) = IF 2 * w < Base THEN 2 * w ELSE 2 * w - Base
  <2>1. 2 * w \in Int /\ -Base <= 2 * w /\ 2 * w < 2 * Base /\ ~(2 * w < 0)
    BY <1>1, <1>2
  <2> QED
    BY <2>1, Wrapped
<1> DEFINE n == Signed(w) \div 2
<1>5. n \in Int /\ -Base <= n /\ n < Base /\ n < 2 * Base /\ (n < 0 <=> w >= h)
  BY <1>1, <1>2
<1>6. AsWord(n) = IF w >= h THEN n + Base ELSE n
  <2> HIDE DEF n
  <2> QED
    BY <1>5, Wrapped
<1> QED
  BY <1>1, <1>2, <1>3, <1>4, <1>6

(* The double words of the loop: the product so far, and what is added. *)
Sum(s) == s.hi * Base + s.lo
Addend(s) == s.bHi * Base + s.bLo

LEMMA LoopTypes ==
    ASSUME NEW s \in MultState
    PROVE  /\ {s.a, s.bHi, s.bLo, s.hi, s.lo} \subseteq 0..(Base - 1)
           /\ {s.a, s.bHi, s.bLo, s.hi, s.lo} \subseteq Word
           /\ Sum(s) \in Nat /\ Addend(s) \in Nat /\ s.left \in BOOLEAN
<1>1. {s.a, s.bHi, s.bLo, s.hi, s.lo} \subseteq 0..(Base - 1) /\ s.left \in BOOLEAN
      /\ {s.a, s.bHi, s.bLo, s.hi, s.lo} \subseteq Word
  BY DEF MultState, Word
<1>2. Base \in Nat
  BY BaseFacts
<1>3. \A x, y \in 0..(Base - 1) : x * Base + y \in Nat
  BY <1>2
<1> QED
  BY <1>1, <1>3 DEF Sum, Addend

LEMMA ShiftedValue ==
    ASSUME NEW s \in MultState, NEW n \in 1..WordBits, s.bHi < 2^(n - 1)
    PROVE  LET t == Shifted(s)
           IN  /\ t.bHi < 2^n /\ Addend(t) = 2 * Addend(s)
               /\ Sum(t) = Sum(s) /\ t.left = s.left /\ t.a = ShiftRightSigned(s.a, 1)
<1> DEFINE c == IF Negative(s.bLo) THEN 1 ELSE 0
           t == Shifted(s)
           x == s.bHi
           y == s.bLo
           q == 2^n
           p == 2^(n - 1)
<1>1. /\ t.bHi = ShiftLeft(x, 1) + c /\ t.bLo = ShiftLeft(y, 1) /\ t.hi = s.hi /\ t.lo = s.lo
      /\ t.left = s.left /\ t.a = ShiftRightSigned(s.a, 1)
  BY DEF Shifted, MultState
<1>2. x \in 0..(Base - 1) /\ y \in 0..(Base - 1) /\ x \in Word /\ y \in Word /\ Base \in Nat
  BY LoopTypes, BaseFacts
<1>3. n \in 1..32 /\ n - 1 \in 0..32 /\ WordBits \in 0..32 /\ n \in 0..WordBits
  BY ByteFacts
<1>4. q = 2 * p /\ p \in Nat \ {0}
  BY <1>3, Powers
<1>5. q <= Base
  <2>1. PICK z \in Nat \ {0} : 2^WordBits = z * 2^n
    BY <1>3, PowersDivide
  <2>2. Base = z * q
    BY <2>1, ByteFacts
  <2> HIDE DEF q
  <2>3. q \in Nat
    BY <1>4
  <2>4. (z - 1) * q >= 0 /\ (z - 1) * q = z * q - q
    BY <2>3
  <2> QED
    BY <1>2, <2>2, <2>3, <2>4
<1> HIDE DEF p, q
<1>6. x < p
  BY DEF p
<1>7. ~Negative(x)
  <2>1. Negative(x) <=> x >= Base \div 2
    BY DEF Negative
  <2> QED
    BY <1>2, <1>4, <1>5, <1>6, <2>1, BaseFacts
<1>8. ShiftLeft(x, 1) = 2 * x /\ ShiftLeft(y, 1) = 2 * y - c * Base
  BY <1>2, <1>7, ShiftsByOne
<1>9. c \in {0, 1}
  OBVIOUS
<1> HIDE DEF c, t, x, y
<1>10. t.bHi < q
  BY <1>1, <1>2, <1>4, <1>6, <1>8, <1>9
<1>11. \A u, v, k, B \in Int : (2 * u + k) * B + (2 * v - k * B) = 2 * (u * B + v)
  OBVIOUS
<1>12. Addend(t) = 2 * Addend(s)
  <2>1. x \in Int /\ y \in Int /\ c \in Int /\ Base \in Int
    BY <1>2, <1>9
  <2>2. (2 * x + c) * Base + (2 * y - c * Base) = 2 * (x * Base + y)
    BY <1>11, <2>1
  <2> QED
    BY <1>1, <1>8, <2>2 DEF Addend, x, y
<1> QED
  BY <1>1, <1>10, <1>12 DEF t, q, Sum

LEMMA AddedValue ==
    ASSUME NEW s \in MultState, Sum(s) + Addend(s) < Base * Base
    PROVE  LET t == Added(s)
           IN  /\ Sum(t) = Sum(s) + Addend(s)
               /\ t.bHi = s.bHi /\ t.bLo = s.bLo /\ t.a = s.a /\ t.left = s.left
<1> DEFINE sum == AsWord(s.lo + s.bLo)
           c == CarryOut(sum, s.bLo)
           high == AsWord(s.hi + c + s.bHi)
           t == Added(s)
           u == s.hi
           v == s.lo
           x == s.bHi
           y == s.bLo
<1>1. t.lo = sum /\ t.hi = high /\ t.bHi = x /\ t.bLo = y /\ t.a = s.a /\ t.left = s.left
  BY DEF Added, MultState
<1>2. x \in 0..(Base - 1) /\ y \in 0..(Base - 1) /\ u \in 0..(Base - 1) /\ v \in 0..(Base - 1) /\ Base \in Nat \ {0}
  BY LoopTypes, BaseFacts
<1>3. c = (IF sum < y THEN 1 ELSE 0) /\ sum = AsWord(v + y) /\ high = AsWord(u + c + x)
  BY DEF CarryOut
<1>4. u * Base + v + (x * Base + y) < Base * Base
  BY DEF Sum, Addend
<1> HIDE DEF sum, c, high, t, u, v, x, y
<1>5. sum = IF v + y < Base THEN v + y ELSE v + y - Base
  <2>1. v + y \in Int /\ -Base <= v + y /\ v + y < 2 * Base /\ ~(v + y < 0)
    BY <1>2
  <2> DEFINE n == v + y
  <2>2. AsWord(n) = IF n < 0 THEN n + Base ELSE IF n < Base THEN n ELSE n - Base
    <3> HIDE DEF n
    <3>1. n \in Int /\ -Base <= n /\ n < 2 * Base
      BY <2>1 DEF n
    <3> QED
      BY <3>1, Wrapped
  <2>3. sum = AsWord(n) /\ ~(n < 0)
    BY <1>3, <2>1, Zenon
  <2> HIDE DEF n
  <2>4. sum = IF n < Base THEN n ELSE n - Base
    BY <2>2, <2>3
  <2> QED
    BY <1>2, <2>4 DEF n
<1>6. c \in {0, 1} /\ sum = v + y - c * Base /\ sum \in 0..(Base - 1)
  BY <1>2, <1>3, <1>5
<1> DEFINE w == u + c + x
<1>7. w \in Int /\ w >= 0
  BY <1>2, <1>6
<1>8. w * Base + sum = u * Base + v + (x * Base + y)
  <2>1. \A a, b, k, d, e, B \in Int : (a + k + d) * B + (b + e - k * B) = a * B + b + (d * B + e)
    OBVIOUS
  <2>2. u \in Int /\ v \in Int /\ c \in Int /\ x \in Int /\ y \in Int /\ Base \in Int
    BY <1>2, <1>6
  <2>3. (u + c + x) * Base + (v + y - c * Base) = u * Base + v + (x * Base + y)
    BY <2>1, <2>2
  <2> QED
    BY <1>6, <2>3
<1> HIDE DEF w
<1>9. w < Base
  <2> SUFFICES ASSUME w >= Base PROVE FALSE
    BY <1>2, <1>7
  <2>1. (w - Base) * Base >= 0 /\ (w - Base) * Base = w * Base - Base * Base
    BY <1>2, <1>7
  <2> DEFINE W == w * Base
             D == Base * Base
  <2>2. W \in Int /\ D \in Int /\ W + sum < D /\ W - D >= 0
    BY <1>2, <1>4, <1>7, <1>8, <2>1
  <2> HIDE DEF W, D
  <2> QED
    BY <1>6, <2>2
<1>10. high = w
  <2>1. -Base <= w /\ w < 2 * Base /\ ~(w < 0)
    BY <1>2, <1>7, <1>9
  <2>2. AsWord(w) = w
    BY <1>7, <1>9, <2>1, Wrapped
  <2> QED
    BY <1>3, <2>2 DEF w
<1>11. Sum(t) = Sum(s) + Addend(s)
  BY <1>1, <1>8, <1>10 DEF Sum, Addend, u, v, x, y
<1> QED
  BY <1>1, <1>11 DEF t, x, y

(* The multiplier a of the loop, of which the bits R are left: the upper   *)
(* ones are copies of its sign.                                            *)
Remaining(a, R, p) ==
    /\ R \in Nat /\ R < p
    /\ \/ ~Negative(a) /\ a = R
       \/ Negative(a) /\ a = R + Base - p

LEMMA RemainingHalved ==
    ASSUME NEW a \in Word, NEW R, NEW p \in Nat \ {0}, Remaining(a, R, 2 * p)
    PROVE  Remaining(ShiftRightSigned(a, 1), R \div 2, p) /\ a % 2 = R % 2
<1> DEFINE w == ShiftRightSigned(a, 1)
<1>0. w = IF Negative(a) THEN (a - Base) \div 2 + Base ELSE a \div 2
  BY ShiftsByOne
<1>1. PICK h \in Nat \ {0} :
       /\ Base = 2 * h
       /\ \A u \in Word : /\ u \in 0..(2 * h - 1)
                          /\ Negative(u) <=> u >= h
  BY Halves
<1>2. a \in 0..(2 * h - 1) /\ (Negative(a) <=> a >= h)
  BY <1>1
<1>3. w \in Word
  BY ShiftsInWord
<1>4. Negative(w) <=> w >= h
  BY <1>1, <1>3
<1>5. R \in Nat /\ R < 2 * p /\ ((~Negative(a) /\ a = R) \/ (Negative(a) /\ a = R + Base - 2 * p))
  BY DEF Remaining
<1> HIDE DEF w
<1>6. R \div 2 \in Nat /\ R \div 2 < p
  BY <1>5
<1>7. CASE ~Negative(a)
  <2>1. w = R \div 2 /\ a = R /\ ~(w >= h)
    BY <1>0, <1>1, <1>2, <1>5, <1>7
  <2> QED
    BY <1>4, <1>6, <2>1 DEF Remaining, w
<1>8. CASE Negative(a)
  <2>1. a = R + 2 * h - 2 * p /\ w = (a - 2 * h) \div 2 + 2 * h /\ a >= h
    BY <1>0, <1>1, <1>2, <1>5, <1>8
  <2>2. w = R \div 2 + 2 * h - p /\ w >= h /\ a % 2 = R % 2
    BY <1>1, <1>2, <1>5, <2>1
  <2> QED
    BY <1>1, <1>4, <1>6, <2>2 DEF Remaining, w
<1> QED
  BY <1>7, <1>8

(* The loop invariant: the sum so far and the rest of the multiplier times *)
(* the addend make up the product X.                                       *)
MultInv(s, n, X) ==
    IF s.left THEN Sum(s) = X
    ELSE /\ s.bHi < 2^n
         /\ \E R : Remaining(s.a, R, 2^(WordBits - n)) /\ Sum(s) + R * Addend(s) = X

LEMMA IterateKeeps ==
    ASSUME NEW s \in MultState, NEW X \in Nat, X < Base * Base, NEW n \in 1..WordBits, MultInv(s, n - 1, X)
    PROVE  MultInv(Iterate(s), n, X)
<1>0. s.left \in BOOLEAN
  BY LoopTypes
<1>1. CASE s.left
  <2>1. Iterate(s) = s
    BY <1>1, IterateCases
  <2> QED
    BY <1>1, <2>1 DEF MultInv
<1>2. CASE ~s.left
  <2> DEFINE p == 2^(WordBits - n)
             U == Sum(s)
             V == Addend(s)
  <2>1. WordBits \in 8..32 /\ WordBits - n \in 0..32 /\ WordBits - (n - 1) \in 1..32
        /\ WordBits - (n - 1) - 1 = WordBits - n
    BY ByteFacts
  <2>2. p \in Nat \ {0}
    BY <2>1, Powers
  <2>3. 2^(WordBits - (n - 1)) = 2 * p
    <3> DEFINE m == WordBits - (n - 1)
    <3>1. m \in 1..32 /\ m - 1 = WordBits - n
      BY <2>1
    <3> HIDE DEF m
    <3>2. 2^m = 2 * 2^(m - 1)
      BY <3>1, Powers
    <3> QED
      BY <3>1, <3>2 DEF m
  <2>4. s.bHi < 2^(n - 1) /\ \E R : Remaining(s.a, R, 2 * p) /\ U + R * V = X
    BY <1>2, <2>3 DEF MultInv
  <2> HIDE DEF p
  <2>5. PICK R : Remaining(s.a, R, 2 * p) /\ U + R * V = X
    BY <2>4
  <2> DEFINE r == R \div 2
  <2>6. Remaining(ShiftRightSigned(s.a, 1), r, p) /\ s.a % 2 = R % 2
    <3>1. s.a \in Word
      BY LoopTypes
    <3> QED
      BY <2>2, <2>5, <3>1, RemainingHalved
  <2>7. U \in Nat /\ V \in Nat /\ R \in Nat
    BY <2>5, LoopTypes DEF Remaining
  <2>8. r \in Nat /\ R = 2 * r + (R % 2) /\ R % 2 \in {0, 1}
    BY <2>7
  <2>9. ASSUME NEW t \in MultState, ~t.left, t.bHi = s.bHi, t.a = s.a, Addend(t) = V, Sum(t) + (2 * r) * V = X
        PROVE  MultInv(Shifted(t), n, X)
    <3> DEFINE z == Shifted(t)
    <3>1. /\ z.bHi < 2^n /\ Addend(z) = 2 * V /\ Sum(z) = Sum(t) /\ z.left = t.left
          /\ z.a = ShiftRightSigned(s.a, 1)
      BY <2>4, <2>9, ShiftedValue
    <3> HIDE DEF z, r, U, V
    <3>2. r * (2 * V) = (2 * r) * V
      BY <2>7, <2>8
    <3>3. Sum(z) + r * Addend(z) = X
      BY <2>9, <3>1, <3>2
    <3>4. Remaining(z.a, r, 2^(WordBits - n))
      BY <2>6, <3>1 DEF p
    <3>5. ~z.left
      BY <2>9, <3>1
    <3> QED
      BY <3>1, <3>3, <3>4, <3>5 DEF MultInv, z
  <2>10. CASE s.a % 2 = 0
    <3>1. Iterate(s) = Shifted(s)
      BY <1>2, <2>10, IterateCases
    <3>2. R = 2 * r
      BY <2>6, <2>8, <2>10
    <3> HIDE DEF r, V, U
    <3>3. Sum(s) + (2 * r) * V = X
      BY <2>5, <3>2 DEF U
    <3> QED
      BY <1>2, <2>9, <3>1, <3>3 DEF V
  <2>11. CASE s.a % 2 # 0
    <3> DEFINE t == Added(s)
    <3>1. R = 2 * r + 1
      BY <2>6, <2>8, <2>11
    <3>2. U + V + (2 * r) * V = X /\ (2 * r) * V >= 0 /\ (2 * r) * V \in Int
      <4> HIDE DEF r, U, V
      <4>1. (2 * r + 1) * V = (2 * r) * V + V /\ (2 * r) * V \in Int /\ (2 * r) * V >= 0
        BY <2>7, <2>8
      <4> DEFINE A == (2 * r) * V
      <4>2. A \in Int /\ U + (A + V) = X
        BY <2>5, <3>1, <4>1
      <4> HIDE DEF A
      <4>3. U + V + A = X
        BY <2>7, <4>2
      <4> QED
        BY <4>1, <4>3 DEF A
    <3>3. U + V < Base * Base
      <4> DEFINE A == (2 * r) * V
                 D == Base * Base
      <4>1. A \in Int /\ A >= 0 /\ U + V + A = X /\ X < D /\ D \in Int
        BY <3>2, BaseFacts
      <4> HIDE DEF A, D, U, V
      <4>2. U + V < D
        BY <2>7, <4>1
      <4> QED
        BY <4>2 DEF D
    <3>4. /\ Sum(t) = U + V
          /\ t.bHi = s.bHi /\ t.bLo = s.bLo /\ t.a = s.a /\ t.left = s.left
      BY <3>3, AddedValue
    <3>5. t \in MultState
      BY AddedTyped
    <3>6. Addend(t) = V
      BY <3>4 DEF Addend
    <3>7. CASE s.a \div 2 = 0
      <4>1. Iterate(s) = [t EXCEPT !.left = TRUE]
        BY <1>2, <2>11, <3>7, IterateCases
      <4>2. s.a = 1 /\ R = 1
        <5>1. s.a \in 0..(Base - 1) /\ s.a \in Word
          BY LoopTypes
        <5>2. s.a = 1
          BY <2>11, <3>7, <5>1, BaseFacts
        <5>3. ~Negative(s.a)
          BY <5>2, BaseFacts DEF Negative
        <5> QED
          BY <2>5, <5>2, <5>3 DEF Remaining
      <4>3. Sum(t) = X
        BY <2>5, <2>7, <3>4, <4>2
      <4>4. [t EXCEPT !.left = TRUE].left = TRUE /\ Sum([t EXCEPT !.left = TRUE]) = Sum(t)
        BY <3>5 DEF MultState, Sum
      <4> QED
        BY <4>1, <4>3, <4>4 DEF MultInv
    <3>8. CASE s.a \div 2 # 0
      <4>1. Iterate(s) = Shifted(t)
        BY <1>2, <2>11, <3>8, IterateCases
      <4>2. Sum(t) + (2 * r) * V = X
        BY <3>2, <3>4
      <4> HIDE DEF t, r, V, U
      <4> QED
        BY <1>2, <2>9, <3>4, <3>5, <3>6, <4>1, <4>2
    <3> QED
      BY <3>7, <3>8
  <2> QED
    BY <2>10, <2>11
<1> QED
  BY <1>0, <1>1, <1>2

LEMMA BelowSquare ==
    ASSUME NEW x \in Word, NEW y \in Word
    PROVE  x * y \in Nat /\ x * y < Base * Base
<1>1. x \in 0..(Base - 1) /\ y \in 0..(Base - 1) /\ Base \in Nat
  BY BaseFacts DEF Word
<1>2. (Base - x) * Base >= Base /\ (Base - x) * Base = Base * Base - x * Base
  BY <1>1
<1>3. x * (Base - y) >= 0 /\ x * (Base - y) = x * Base - x * y
  BY <1>1
<1>4. x * y \in Nat /\ x * Base \in Int /\ Base * Base \in Int
  BY <1>1
<1> DEFINE D == Base * Base
           E == x * Base
           F == x * y
<1> HIDE DEF D, E, F
<1>5. D - E >= Base /\ E - F >= 0 /\ D \in Int /\ E \in Int /\ F \in Nat /\ Base > 0
  BY <1>1, <1>2, <1>3, <1>4, BaseFacts DEF D, E, F
<1>6. F < D
  BY <1>1, <1>5
<1> QED
  BY <1>4, <1>6 DEF D, F

(* What the loop of Mult leaves: the product of the magnitudes. *)
Product(h, l, a, b, s) == h * Base + l = Magnitude(a, s) * Magnitude(b, s)

LEMMA LoopMultiplies ==
    ASSUME NEW a \in Word, NEW b \in Word, NEW s \in BOOLEAN
    PROVE  \E hi, lo \in Word :
              /\ Product(hi, lo, a, b, s)
              /\ Mult(a, b, s) =
                    IF a = 0 \/ b = 0 THEN [hi |-> 0, lo |-> 0]
                    ELSE IF s /\ Negative(a) # Negative(b) THEN Negated(hi, lo) ELSE [hi |-> hi, lo |-> lo]
<1> DEFINE A == Magnitude(a, s)
           B == Magnitude(b, s)
           X == A * B
           start == Before(a, b, s)
<1>0. WordBits \in 8..32 /\ WordBits \in Nat /\ 2^WordBits = Base /\ Base \in Nat \ {0}
  BY ByteFacts, BaseFacts
<1>1. A \in Word /\ B \in Word /\ A \in 0..(Base - 1) /\ B \in 0..(Base - 1)
  BY MagnitudeInWord DEF Word
<1>2. X \in Nat /\ X < Base * Base
  <2> HIDE DEF A, B
  <2> QED
    BY <1>1, BelowSquare
<1>3. PICK loop \in [0..WordBits -> MultState] :
              /\ loop[0] = start
              /\ \A n \in 1..WordBits : loop[n] = Iterate(loop[n - 1])
              /\ Mult(a, b, s) =
                    IF a = 0 \/ b = 0 THEN [hi |-> 0, lo |-> 0]
                    ELSE IF s /\ Negative(a) # Negative(b)
                      THEN Negated(loop[WordBits].hi, loop[WordBits].lo)
                      ELSE [hi |-> loop[WordBits].hi, lo |-> loop[WordBits].lo]
  BY MultLoop
<1>4. start.a = A /\ start.bHi = 0 /\ start.bLo = B /\ start.hi = 0 /\ start.lo = 0 /\ start.left = FALSE
  BY DEF Before
<1> HIDE DEF A, B, start
<1>5. MultInv(start, 0, X)
  <2>1. Sum(start) = 0 /\ Addend(start) = B
    BY <1>0, <1>1, <1>4 DEF Sum, Addend
  <2>2. start.bHi < 2^0
    BY <1>4, Powers
  <2>3. Remaining(start.a, A, 2^(WordBits - 0))
    <3>1. WordBits - 0 = WordBits /\ A + Base - Base = A
      BY <1>0, <1>1
    <3>2. Negative(A) \in BOOLEAN
      BY DEF Negative
    <3> QED
      BY <1>0, <1>1, <1>4, <3>1, <3>2 DEF Remaining
  <2>4. Sum(start) + A * Addend(start) = X
    BY <1>2, <2>1
  <2> HIDE DEF X
  <2> QED
    BY <1>4, <2>2, <2>3, <2>4 DEF MultInv
<1> HIDE DEF X
<1> DEFINE T == {n \in 0..WordBits : MultInv(loop[n], n, X)}
<1>6. 0 \in T
  BY <1>0, <1>3, <1>5
<1>7. ASSUME NEW n \in 1..WordBits, n - 1 \in T PROVE n \in T
  <2>1. n \in 0..WordBits /\ n - 1 \in 0..WordBits /\ loop[n - 1] \in MultState /\ loop[n] = Iterate(loop[n - 1])
    BY <1>0, <1>3
  <2>2. MultInv(loop[n - 1], n - 1, X)
    BY <1>7
  <2>3. MultInv(Iterate(loop[n - 1]), n, X)
    BY <1>2, <2>1, <2>2, IterateKeeps
  <2> QED
    BY <2>1, <2>3
<1> HIDE DEF T
<1>8. WordBits \in T
  <2>1. WordBits \in 0..WordBits
    BY <1>0
  <2> QED
    BY <1>0, <1>6, <1>7, <2>1, UpTo
<1> DEFINE e == loop[WordBits]
<1>9. MultInv(e, WordBits, X) /\ e \in MultState
  BY <1>0, <1>8 DEF T
<1> HIDE DEF e
<1>10. Sum(e) = X
  <2>0. e.left \in BOOLEAN /\ Sum(e) \in Nat /\ Addend(e) \in Nat
    BY <1>9, LoopTypes
  <2>1. CASE e.left
    BY <1>9, <2>1 DEF MultInv
  <2>2. CASE ~e.left
    <3>1. PICK R : Remaining(e.a, R, 2^(WordBits - WordBits)) /\ Sum(e) + R * Addend(e) = X
      BY <1>9, <2>2 DEF MultInv
    <3>2. WordBits - WordBits = 0 /\ 2^0 = 1
      BY <1>0, Powers
    <3>a. Remaining(e.a, R, 1)
      BY <3>1, <3>2
    <3>3. R = 0
      BY <3>a DEF Remaining
    <3> QED
      BY <2>0, <3>1, <3>3
  <2> QED
    BY <2>0, <2>1, <2>2
<1>11. e.hi \in Word /\ e.lo \in Word
  BY <1>9, LoopTypes
<1>12. Product(e.hi, e.lo, a, b, s)
  BY <1>10 DEF Sum, Product, X, A, B
<1>13. Mult(a, b, s) =
          IF a = 0 \/ b = 0 THEN [hi |-> 0, lo |-> 0]
          ELSE IF s /\ Negative(a) # Negative(b) THEN Negated(e.hi, e.lo) ELSE [hi |-> e.hi, lo |-> e.lo]
  BY <1>3 DEF e
<1> QED
  BY <1>11, <1>12, <1>13

(* Mult in machine/mipssim.cc, without signs (MULTU): the two words hold    *)
(* the product.                                                            *)
THEOREM UnsignedProduct ==
    ASSUME NEW a \in Word, NEW b \in Word
    PROVE  Mult(a, b, FALSE).hi * Base + Mult(a, b, FALSE).lo = (a * b) % (Base * Base)
<1> DEFINE M == Mult(a, b, FALSE)
           D == Base * Base
           X == a * b
<1>0. PICK hi, lo \in Word :
         /\ Product(hi, lo, a, b, FALSE)
         /\ M = IF a = 0 \/ b = 0 THEN [hi |-> 0, lo |-> 0]
                ELSE IF FALSE /\ Negative(a) # Negative(b) THEN Negated(hi, lo) ELSE [hi |-> hi, lo |-> lo]
  <2> DEFINE F == FALSE
  <2>1. F \in BOOLEAN
    OBVIOUS
  <2> HIDE DEF F
  <2>2. \E hi, lo \in Word :
              /\ Product(hi, lo, a, b, F)
              /\ Mult(a, b, F) =
                    IF a = 0 \/ b = 0 THEN [hi |-> 0, lo |-> 0]
                    ELSE IF F /\ Negative(a) # Negative(b) THEN Negated(hi, lo) ELSE [hi |-> hi, lo |-> lo]
    BY <2>1, LoopMultiplies, Zenon
  <2> QED
    BY <2>2, Zenon DEF F
<1>1. /\ Product(hi, lo, a, b, FALSE)
      /\ M = IF a = 0 \/ b = 0 THEN [hi |-> 0, lo |-> 0] ELSE [hi |-> hi, lo |-> lo]
  <2> HIDE DEF M
  <2> QED
    BY <1>0
<1>2. Base \in Nat \ {0} /\ a \in Nat /\ b \in Nat /\ hi \in Nat /\ lo \in Nat
  BY BaseFacts, WordsAreNumbers
<1>3. hi * Base + lo = X
  BY <1>1 DEF Product, Magnitude
<1>4. M.hi * Base + M.lo = X
  <2>1. CASE a = 0 \/ b = 0
    <3>1. M.hi = 0 /\ M.lo = 0
      <4> HIDE DEF M
      <4> QED
        BY <1>1, <2>1
    <3>2. X = 0 /\ 0 * Base + 0 = 0
      BY <1>2, <2>1
    <3> QED
      BY <3>1, <3>2
  <2>2. CASE ~(a = 0 \/ b = 0)
    <3>1. M.hi = hi /\ M.lo = lo
      <4> HIDE DEF M
      <4> QED
        BY <1>1, <2>2
    <3> QED
      BY <1>3, <3>1
  <2> QED
    BY <2>1, <2>2
<1>5. X \in Nat /\ X < D /\ D \in Nat \ {0}
  BY <1>2, BelowSquare
<1> HIDE DEF X, D, M
<1>6. X % D = X
  <2>1. X \in 0..(D - 1) /\ 0 * D + X = X
    BY <1>5
  <2>2. (0 * D + X) % D = X
    BY <1>5, <2>1, QuotientIsUnique
  <2> QED
    BY <2>1, <2>2
<1> QED
  BY <1>4, <1>6 DEF X, D, M

LEMMA MagnitudeValue ==
    ASSUME NEW a \in Word
    PROVE  Magnitude(a, TRUE) = IF Negative(a) THEN -Signed(a) ELSE Signed(a)
<1>1. PICK h \in Nat \ {0} :
       /\ Base = 2 * h
       /\ \A u \in Word : /\ u \in 0..(2 * h - 1)
                          /\ Signed(u) = IF u >= h THEN u - 2 * h ELSE u
                          /\ Negative(u) <=> u >= h
  BY Halves
<1>2. a \in 0..(2 * h - 1) /\ Signed(a) = (IF a >= h THEN a - 2 * h ELSE a) /\ (Negative(a) <=> a >= h)
  BY <1>1
<1> DEFINE n == Base - a
<1>3. n \in Int /\ -Base <= n /\ n < 2 * Base /\ (a >= h => n >= 0 /\ n < Base)
  BY <1>1, <1>2
<1>4. a >= h => AsWord(n) = n
  <2> HIDE DEF n
  <2> QED
    BY <1>3, Wrapped
<1>5. Magnitude(a, TRUE) = IF Negative(a) THEN AsWord(n) ELSE a
  BY DEF Magnitude, Negate
<1>6. Base - a = -(a - 2 * h)
  BY <1>1, <1>2
<1> QED
  BY <1>2, <1>4, <1>5, <1>6

(* The negation of a double word. *)
LEMMA NegatedValue ==
    ASSUME NEW hi \in Word, NEW lo \in Word, hi # 0 \/ lo # 0
    PROVE  Negated(hi, lo).hi * Base + Negated(hi, lo).lo = Base * Base - (hi * Base + lo)
<1> DEFINE N == Negated(hi, lo)
           c == IF lo = 0 THEN 1 ELSE 0
           u == Base - 1 - hi + c
           v == Base - lo
<1>1. hi \in 0..(Base - 1) /\ lo \in 0..(Base - 1) /\ Base \in Nat \ {0}
  BY BaseFacts DEF Word
<1>2. N.hi = AsWord(u) /\ N.lo = AsWord(v)
  BY DEF Negated, Negate, Not
<1>3. /\ u \in Int /\ -Base <= u /\ u < 2 * Base /\ u >= 0 /\ u < Base
      /\ v \in Int /\ -Base <= v /\ v < 2 * Base /\ v >= 0
      /\ c \in {0, 1} /\ (v < Base <=> c = 0) /\ (c = 1 => v = Base) /\ u \in Int
  BY <1>1
<1>4. AsWord(u) = u /\ AsWord(v) = v - c * Base
  <2> HIDE DEF u, v, c
  <2>1. AsWord(u) = u
    BY <1>3, Wrapped
  <2>2. AsWord(v) = IF v < Base THEN v ELSE v - Base
    BY <1>3, Wrapped
  <2> QED
    BY <1>1, <1>3, <2>1, <2>2
<1>5. \A B, x, y, k \in Int : (B - 1 - x + k) * B + (B - y - k * B) = B * B - (x * B + y)
  OBVIOUS
<1>6. (Base - 1 - hi + c) * Base + (Base - lo - c * Base) = Base * Base - (hi * Base + lo)
  <2> HIDE DEF c
  <2>1. c \in Int /\ hi \in Int /\ lo \in Int /\ Base \in Int
    BY <1>1, <1>3
  <2> QED
    BY <1>5, <2>1
<1> QED
  BY <1>2, <1>4, <1>6

(* Mult in machine/mipssim.cc, with signs (MULT): the two words hold the    *)
(* product, in two's complement, also for the least integer.              *)
THEOREM SignedProduct ==
    ASSUME NEW a \in Word, NEW b \in Word
    PROVE  Mult(a, b, TRUE).hi * Base + Mult(a, b, TRUE).lo = (Signed(a) * Signed(b)) % (Base * Base)
<1> DEFINE M == Mult(a, b, TRUE)
           D == Base * Base
           x == Signed(a)
           y == Signed(b)
           A == Magnitude(a, TRUE)
           B == Magnitude(b, TRUE)
           P == A * B
           differ == Negative(a) # Negative(b)
<1>0. PICK hi, lo \in Word :
         /\ Product(hi, lo, a, b, TRUE)
         /\ M = IF a = 0 \/ b = 0 THEN [hi |-> 0, lo |-> 0]
                ELSE IF TRUE /\ differ THEN Negated(hi, lo) ELSE [hi |-> hi, lo |-> lo]
  <2> DEFINE F == TRUE
  <2>1. F \in BOOLEAN
    OBVIOUS
  <2> HIDE DEF F
  <2>2. \E hi, lo \in Word :
              /\ Product(hi, lo, a, b, F)
              /\ Mult(a, b, F) =
                    IF a = 0 \/ b = 0 THEN [hi |-> 0, lo |-> 0]
                    ELSE IF F /\ Negative(a) # Negative(b) THEN Negated(hi, lo) ELSE [hi |-> hi, lo |-> lo]
    BY <2>1, LoopMultiplies, Zenon
  <2> QED
    BY <2>2, Zenon DEF F
<1>1. hi * Base + lo = P
  BY <1>0 DEF Product
<1>2. A \in Word /\ B \in Word /\ A \in Nat /\ B \in Nat /\ Base \in Nat \ {0} /\ hi \in Nat /\ lo \in Nat
  BY MagnitudeInWord, WordsAreNumbers, BaseFacts
<1>3. P \in Nat /\ P < D /\ D \in Nat \ {0}
  <2> HIDE DEF A, B
  <2> QED
    BY <1>2, BelowSquare
<1>4. A = (IF Negative(a) THEN -x ELSE x) /\ B = (IF Negative(b) THEN -y ELSE y)
  BY MagnitudeValue
<1>5. /\ x \in Int /\ y \in Int /\ Negative(a) \in BOOLEAN /\ Negative(b) \in BOOLEAN
      /\ (x = 0 <=> a = 0) /\ (y = 0 <=> b = 0)
  <2>1. \A w \in Word : Signed(w) = 0 <=> w = 0
    BY BaseFacts DEF Signed, Word
  <2> QED
    BY <2>1, SignedValue
<1> HIDE DEF A, B, x, y, M
<1>6. CASE a = 0 \/ b = 0
  <2>1. M.hi = 0 /\ M.lo = 0
    BY <1>0, <1>6
  <2>2. x * y = 0 /\ 0 * Base + 0 = 0
    BY <1>2, <1>5, <1>6
  <2>3. 0 % D = 0
    BY <1>3
  <2> QED
    BY <2>1, <2>2, <2>3 DEF M, x, y
<1>7. CASE ~(a = 0 \/ b = 0) /\ ~differ
  <2>1. M.hi = hi /\ M.lo = lo
    BY <1>0, <1>7
  <2>2. x * y = P
    <3>1. CASE Negative(a) /\ Negative(b)
      BY <1>4, <1>5, <3>1
    <3>2. CASE ~Negative(a) /\ ~Negative(b)
      BY <1>4, <1>5, <3>2
    <3> QED
      BY <1>5, <1>7, <3>1, <3>2
  <2>3. P % D = P
    <3> HIDE DEF P, D
    <3>1. P \in 0..(D - 1) /\ 0 * D + P = P
      BY <1>3
    <3>2. (0 * D + P) % D = P
      BY <1>3, <3>1, QuotientIsUnique
    <3> QED
      BY <3>1, <3>2
  <2> QED
    BY <1>1, <2>1, <2>2, <2>3 DEF M, x, y
<1>8. CASE ~(a = 0 \/ b = 0) /\ differ
  <2>1. M = Negated(hi, lo)
    BY <1>0, <1>8
  <2>2. x * y = -P
    <3>1. CASE Negative(a) /\ ~Negative(b)
      BY <1>4, <1>5, <3>1
    <3>2. CASE ~Negative(a) /\ Negative(b)
      BY <1>4, <1>5, <3>2
    <3> QED
      BY <1>5, <1>8, <3>1, <3>2
  <2>3. P > 0
    <3>1. A > 0 /\ B > 0
      BY <1>2, <1>4, <1>5, <1>8
    <3> QED
      BY <1>2, <3>1
  <2>4. hi # 0 \/ lo # 0
    <3> SUFFICES ASSUME hi = 0, lo = 0 PROVE FALSE
      OBVIOUS
    <3>1. 0 * Base + 0 = 0
      BY <1>2
    <3> HIDE DEF P
    <3> QED
      BY <1>1, <1>3, <2>3, <3>1
  <2>5. M.hi * Base + M.lo = D - P
    BY <1>1, <2>1, <2>4, NegatedValue
  <2>6. (-P) % D = D - P
    <3> HIDE DEF P, D
    <3>1. D - P \in 0..(D - 1) /\ (-1) * D + (D - P) = -P
      BY <1>3, <2>3
    <3>2. ((-1) * D + (D - P)) % D = D - P
      BY <1>3, <3>1, QuotientIsUnique
    <3> QED
      BY <3>1, <3>2
  <2> QED
    BY <2>2, <2>5, <2>6 DEF M, x, y
<1> QED
  BY <1>6, <1>7, <1>8

-----------------------------------------------------------------------------
(* The results of the instructions, in the registers d that follow r.      *)

LEMMA OverflowExact ==
    ASSUME NEW s \in Sources, NEW i, Meaning(s, i), NEW r \in [Registers -> Word]
    PROVE  Overflows(i, r) <=> s.name \in {"ADD", "ADDI", "SUB"} /\ ~Fits(Exact(s, r))
<1> DEFINE a == r[s.rs]
           b == r[s.rt]
           e == i.extra
<1>0. a \in Word /\ b \in Word /\ i.rs = s.rs
  BY Fields, RegisterNumbers
<1>1. a \in Nat /\ b \in Nat
  BY <1>0, WordsAreNumbers
<1>2. CASE s.name = "ADD"
  <2>1. i.opCode = "ADD" /\ i.rt = s.rt
    BY <1>2, Fields DEF ToRd
  <2>2. Exact(s, r) = Signed(a) + Signed(b)
    BY <1>2 DEF Exact
  <2>3. Overflows(i, r) <=> SameSignOverflow(a, b, AsWord(a + b))
    BY <1>0, <2>1 DEF Overflows
  <2>4. SameSignOverflow(a, b, AsWord(a + b)) <=> ~Fits(Signed(a) + Signed(b))
    BY <1>0, SumOfWords
  <2> QED
    BY <1>2, <2>2, <2>3, <2>4
<1>3. CASE s.name = "SUB"
  <2>1. i.opCode = "SUB" /\ i.rt = s.rt
    BY <1>3, Fields DEF ToRd
  <2>2. Exact(s, r) = Signed(a) - Signed(b)
    BY <1>3 DEF Exact
  <2>3. Overflows(i, r) <=> Negative(a) # Negative(b) /\ Negative(a) # Negative(AsWord(a - b))
    BY <1>0, <2>1 DEF Overflows
  <2>4. Negative(a) # Negative(b) /\ Negative(a) # Negative(AsWord(a - b)) <=> ~Fits(Signed(a) - Signed(b))
    BY <1>0, DifferenceOfWords
  <2> QED
    BY <1>3, <2>2, <2>3, <2>4
<1>4. CASE s.name = "ADDI"
  <2>1. i.opCode = "ADDI" /\ s.k \in 0..(2^HalfBits - 1) /\ e = SignExtended(s.k, HalfBits) /\ e \in Word
    BY <1>4, Fields DEF ToRt
  <2>2. Signed(e) = Immediate(s)
    BY <2>1, ImmediateValue
  <2>3. Exact(s, r) = Signed(a) + Signed(e)
    BY <1>4, <2>2 DEF Exact
  <2>4. Overflows(i, r) <=> SameSignOverflow(e, a, AsWord(a + e))
    BY <1>0, <2>1 DEF Overflows
  <2> HIDE DEF a, e
  <2>5. e \in Nat /\ Signed(a) \in Int /\ Signed(e) \in Int
    BY <1>0, <2>1, WordsAreNumbers, SignedValue
  <2>6. a + e = e + a /\ Signed(a) + Signed(e) = Signed(e) + Signed(a)
    BY <1>1, <2>5
  <2>7. SameSignOverflow(e, a, AsWord(e + a)) <=> ~Fits(Signed(e) + Signed(a))
    BY <1>0, <2>1, SumOfWords
  <2> QED
    BY <1>4, <2>3, <2>4, <2>6, <2>7
<1>5. CASE s.name \notin {"ADD", "ADDI", "SUB"}
  <2>1. i.opCode \notin {"ADD", "ADDI", "SUB"}
    <3>1. i.opCode \in {"ADD", "ADDI", "SUB"} => i.opCode = s.name
      BY Fields DEF ToRd, ToRt
    <3> QED
      BY <1>5, <3>1
  <2> QED
    BY <1>5, <2>1 DEF Overflows
<1> QED
  BY <1>2, <1>3, <1>4, <1>5

LEMMA TrappedQuotient ==
    ASSUME NEW s \in Sources, NEW i, Meaning(s, i), NEW r \in [Registers -> Word]
    PROVE  LET a == Signed(r[s.rs])
               b == Signed(r[s.rt])
           IN  /\ HostTraps(i, r) => s.name = "DIV" /\ b # 0 /\ ~Fits(Quotient(a, b))
               /\ s.name = "DIV" /\ b # 0 /\ ~HostTraps(i, r) => Fits(Quotient(a, b))
<1> DEFINE x == r[s.rs]
           y == r[s.rt]
           a == Signed(x)
           b == Signed(y)
<1>0. x \in Word /\ y \in Word /\ i.rs = s.rs
  BY Fields, RegisterNumbers
<1>1. a \in Int /\ b \in Int /\ Fits(a)
  BY <1>0, SignedValue DEF Fits
<1>2. x = Base \div 2 <=> a = -(Base \div 2)
  BY <1>0, BaseFacts DEF Signed, Word
<1>3. ASSUME s.name = "DIV" PROVE i.opCode = "DIV" /\ i.rt = s.rt
  BY <1>3, Fields DEF ToHiLo
<1>4. i.opCode = "DIV" => s.name = "DIV"
  BY Fields DEF ToHiLo
<1>5. HostTraps(i, r) <=> s.name = "DIV" /\ a = -(Base \div 2) /\ b = -1
  BY <1>0, <1>2, <1>3, <1>4 DEF HostTraps
<1> HIDE DEF a, b
<1>6. b # 0 => (Fits(Quotient(a, b)) <=> ~(a = -(Base \div 2) /\ b = -1))
  BY <1>1, QuotientFits
<1>7. b = -1 => b # 0
  OBVIOUS
<1> QED
  BY <1>5, <1>6, <1>7 DEF a, b

RdResult(s, r, q) ==
    LET n == Exact(s, r)
        a == Signed(r[s.rs])
        b == Signed(r[s.rt])
    IN  /\ s.name \in {"ADD", "SUB"} => q = n
        /\ s.name \in {"ADDU", "SUBU"} => (q - n) % Base = 0
        /\ s.name = "SLT" => q = Flag(a < b)
        /\ s.name = "SRA" => q * 2^s.k <= b /\ b < (q + 1) * 2^s.k

LEMMA RdResults ==
    ASSUME NEW s \in Sources, NEW i, Meaning(s, i), NEW r \in [Registers -> Word], ~Overflows(i, r),
           s.name \in ToRd
    PROVE  RdResult(s, r, Signed(RdValue(i, r)))
<1> DEFINE a == r[s.rs]
           b == r[s.rt]
           q == Signed(RdValue(i, r))
<1>0. /\ a \in Word /\ b \in Word /\ i.rs = s.rs /\ i.rt = s.rt /\ i.opCode = s.name
      /\ i.extra = s.k /\ s.k \in 0..(WordBits - 1)
  BY Fields, RegisterNumbers
<1>1. a \in Nat /\ b \in Nat /\ s.k \in 0..32
  BY <1>0, WordsAreNumbers, ByteFacts
<1>2. CASE s.name \in {"ADD", "ADDU"}
  <2>1. RdValue(i, r) = AsWord(a + b) /\ Exact(s, r) = Signed(a) + Signed(b)
    BY <1>0, <1>2 DEF RdValue, Exact
  <2>2. /\ q - Exact(s, r) \in {-Base, 0, Base}
        /\ Fits(Exact(s, r)) => q = Exact(s, r)
    BY <1>0, <2>1, SumOfWords
  <2>3. s.name = "ADD" => Fits(Exact(s, r))
    BY OverflowExact
  <2> HIDE DEF q
  <2>4. (q - Exact(s, r)) % Base = 0
    BY <2>2, NoRemainder
  <2> QED
    BY <1>2, <2>2, <2>3, <2>4 DEF RdResult, q
<1>3. CASE s.name \in {"SUB", "SUBU"}
  <2>1. RdValue(i, r) = AsWord(a - b) /\ Exact(s, r) = Signed(a) - Signed(b)
    BY <1>0, <1>3 DEF RdValue, Exact
  <2>2. /\ q - Exact(s, r) \in {-Base, 0, Base}
        /\ Fits(Exact(s, r)) => q = Exact(s, r)
    BY <1>0, <2>1, DifferenceOfWords
  <2>3. s.name = "SUB" => Fits(Exact(s, r))
    BY OverflowExact
  <2> HIDE DEF q
  <2>4. (q - Exact(s, r)) % Base = 0
    BY <2>2, NoRemainder
  <2> QED
    BY <1>3, <2>2, <2>3, <2>4 DEF RdResult, q
<1>4. CASE s.name = "SLT"
  <2>1. RdValue(i, r) = Flag(Signed(a) < Signed(b))
    BY <1>0, <1>4 DEF RdValue
  <2>2. \A c : Signed(Flag(c)) = Flag(c)
    BY BaseFacts DEF Signed, Flag
  <2> QED
    BY <1>4, <2>1, <2>2 DEF RdResult
<1>5. CASE s.name = "SRA"
  <2>1. RdValue(i, r) = ShiftRightSigned(b, s.k)
    BY <1>0, <1>5 DEF RdValue
  <2>2. q * 2^s.k <= Signed(b) /\ Signed(b) < (q + 1) * 2^s.k
    BY <1>0, <1>1, <2>1, ShiftIsFloor
  <2> HIDE DEF q
  <2> QED
    BY <1>5, <2>2 DEF RdResult, q
<1>6. CASE s.name \notin {"ADD", "ADDU", "SUB", "SUBU", "SLT", "SRA"}
  BY <1>6 DEF RdResult
<1> QED
  BY <1>2, <1>3, <1>4, <1>5, <1>6

RtResult(s, r, w) ==
    LET q == Signed(w)
    IN  /\ s.name \in {"ADDI", "ADDIU"} => (q - Exact(s, r)) % Base = 0
        /\ s.name = "SLTI" => q = Flag(Signed(r[s.rs]) < Immediate(s))
        /\ s.name = "ORI" => HighBytes(w, 2) = HighBytes(r[s.rs], 2)

LEMMA RtResults ==
    ASSUME NEW s \in Sources, NEW i, Meaning(s, i), NEW r \in [Registers -> Word], s.name \in ToRt
    PROVE  RtResult(s, r, RtValue(i, r))
<1> DEFINE a == r[s.rs]
           e == i.extra
           w == RtValue(i, r)
<1>0. /\ a \in Word /\ i.rs = s.rs /\ i.opCode = s.name
      /\ e = SignExtended(s.k, HalfBits) /\ e \in Word /\ s.k \in 0..(2^HalfBits - 1)
  BY Fields, RegisterNumbers
<1>1. Signed(e) = Immediate(s)
  BY <1>0, ImmediateValue
<1>2. CASE s.name \in {"ADDI", "ADDIU"}
  <2>1. w = AsWord(a + e) /\ Exact(s, r) = Signed(a) + Signed(e)
    BY <1>0, <1>1, <1>2 DEF RtValue, Exact
  <2>2. Signed(w) - Exact(s, r) \in {-Base, 0, Base}
    BY <1>0, <2>1, SumOfWords
  <2> HIDE DEF w
  <2>3. (Signed(w) - Exact(s, r)) % Base = 0
    BY <2>2, NoRemainder
  <2> QED
    BY <1>2, <2>3 DEF RtResult, w
<1>3. CASE s.name = "SLTI"
  <2>1. w = Flag(Signed(a) < Immediate(s))
    BY <1>0, <1>1, <1>3 DEF RtValue
  <2>2. \A c : Signed(Flag(c)) = Flag(c)
    BY BaseFacts DEF Signed, Flag
  <2> QED
    BY <1>3, <2>1, <2>2 DEF RtResult
<1>4. CASE s.name = "ORI"
  <2> DEFINE u == e % 2^HalfBits
  <2>1. w = Or(a, u)
    BY <1>0, <1>4 DEF RtValue
  <2>2. u \in 0..(2^HalfBits - 1)
    <3>1. 2^HalfBits \in Nat \ {0} /\ e \in Int
      BY <1>0, Powers, ByteFacts, WordsAreNumbers
    <3> QED
      BY <3>1
  <2> HIDE DEF u, w
  <2>3. HighBytes(w, 2) = HighBytes(a, 2)
    BY <1>0, <2>1, <2>2, OrKeepsHigh
  <2> QED
    BY <1>4, <2>3 DEF RtResult, w
<1>5. CASE s.name \notin {"ADDI", "ADDIU", "SLTI", "ORI"}
  BY <1>5 DEF RtResult
<1> QED
  BY <1>2, <1>3, <1>4, <1>5

HiLoResult(s, r, hi, lo) ==
    LET a == Signed(r[s.rs])
        b == Signed(r[s.rt])
        rem == Signed(hi)
    IN  /\ s.name \in {"MULT", "MULTU"} => hi * Base + lo = Exact(s, r) % (Base * Base)
        /\ s.name = "DIV" /\ b # 0 => a = Signed(lo) * b + rem /\ rem * rem < b * b /\ rem * a >= 0
        /\ s.name = "DIVU" /\ b # 0 => r[s.rs] = lo * r[s.rt] + hi /\ hi < r[s.rt]

LEMMA HiLoResults ==
    ASSUME NEW s \in Sources, NEW i, Meaning(s, i), NEW r \in [Registers -> Word], ~HostTraps(i, r),
           s.name \in ToHiLo
    PROVE  HiLoResult(s, r, HiLoValue(i, r).hi, HiLoValue(i, r).lo)
<1> DEFINE x == r[s.rs]
           y == r[s.rt]
           a == Signed(x)
           b == Signed(y)
           v == HiLoValue(i, r)
<1>0. x \in Word /\ y \in Word /\ i.rs = s.rs /\ i.rt = s.rt /\ i.opCode = s.name
  BY Fields, RegisterNumbers
<1>1. /\ x \in Nat /\ y \in Nat /\ a \in Int /\ b \in Int /\ Fits(a) /\ Fits(b) /\ (b # 0 <=> y # 0)
      /\ x < Base /\ y < Base /\ Base \in Nat
  BY <1>0, SignedValue, BaseFacts DEF Fits, Signed, Word
<1>2. CASE s.name = "MULT"
  <2>1. v = Mult(x, y, TRUE) /\ Exact(s, r) = a * b
    BY <1>0, <1>2 DEF HiLoValue, Exact
  <2>2. Mult(x, y, TRUE).hi * Base + Mult(x, y, TRUE).lo = (a * b) % (Base * Base)
    BY <1>0, SignedProduct
  <2> HIDE DEF v, a, b
  <2>3. v.hi * Base + v.lo = Exact(s, r) % (Base * Base)
    BY <2>1, <2>2
  <2> QED
    BY <1>2, <2>3 DEF HiLoResult, v
<1>3. CASE s.name = "MULTU"
  <2>1. v = Mult(x, y, FALSE) /\ Exact(s, r) = x * y
    BY <1>0, <1>3 DEF HiLoValue, Exact
  <2>2. Mult(x, y, FALSE).hi * Base + Mult(x, y, FALSE).lo = (x * y) % (Base * Base)
    BY <1>0, UnsignedProduct
  <2> HIDE DEF v
  <2>3. v.hi * Base + v.lo = Exact(s, r) % (Base * Base)
    BY <2>1, <2>2
  <2> QED
    BY <1>3, <2>3 DEF HiLoResult, v
<1>4. CASE s.name = "DIV"
  <2> SUFFICES ASSUME b # 0
               PROVE  a = Signed(v.lo) * b + Signed(v.hi) /\ Signed(v.hi) * Signed(v.hi) < b * b /\ Signed(v.hi) * a >= 0
    BY <1>4 DEF HiLoResult
  <2> DEFINE q == Quotient(a, b)
             rem == a - b * q
  <2>1. v = [hi |-> AsWord(rem), lo |-> AsWord(q)]
    BY <1>0, <1>1, <1>4 DEF HiLoValue
  <2>2. Fits(q)
    BY <1>4, TrappedQuotient
  <2> HIDE DEF a, b
  <2>3. /\ q \in Int /\ rem \in Int /\ rem * rem < b * b /\ rem * a >= 0
        /\ (rem < b /\ -rem < b) \/ (rem < -b /\ -rem < -b)
    BY <1>1, QuotientOfC
  <2> HIDE DEF q, rem, v
  <2>4. Fits(rem)
    <3> DEFINE h == Base \div 2
    <3>1. h \in Nat /\ b \in (-h)..(h - 1)
      BY <1>1, BaseFacts DEF Fits
    <3> HIDE DEF h
    <3>2. rem \in (-h)..(h - 1)
      BY <1>1, <2>3, <3>1
    <3> QED
      BY <3>2 DEF Fits, h
  <2>5. Signed(v.hi) = rem /\ Signed(v.lo) = q
    BY <2>1, <2>2, <2>3, <2>4, SignedOfFit
  <2>6. a = q * b + rem
    <3>1. \A k, l, m \in Int : k = m * l + (k - l * m)
      OBVIOUS
    <3> QED
      BY <1>1, <2>3, <3>1 DEF rem
  <2> QED
    BY <2>3, <2>5, <2>6
<1>5. CASE s.name = "DIVU"
  <2> SUFFICES ASSUME b # 0 PROVE x = v.lo * y + v.hi /\ v.hi < y
    BY <1>5 DEF HiLoResult
  <2> DEFINE q == Quotient(x, y)
             rem == x - y * q
  <2>0. y # 0
    BY <1>1
  <2>1. v = [hi |-> AsWord(rem), lo |-> AsWord(q)]
    BY <1>0, <1>5, <2>0 DEF HiLoValue
  <2> HIDE DEF x, y
  <2>2. q \in Int /\ rem \in Int /\ q = x \div y /\ rem >= 0 /\ rem < y
    <3>1. x \in Int /\ y \in Int /\ x >= 0 /\ y >= 0
      BY <1>1
    <3> QED
      BY <2>0, <3>1, QuotientOfC
  <2>3. q \in 0..x
    <3>1. y \in Nat \ {0}
      BY <1>1, <2>0
    <3> QED
      BY <1>1, <2>2, <3>1
  <2> HIDE DEF q, rem, v
  <2>4. AsWord(rem) = rem
    <3>1. rem >= 0 /\ rem < Base /\ -Base <= rem /\ rem < 2 * Base
      BY <1>1, <2>2
    <3> QED
      BY <2>2, <3>1, Wrapped
  <2>5. AsWord(q) = q
    <3>1. q >= 0 /\ q < Base /\ -Base <= q /\ q < 2 * Base
      BY <1>1, <2>2, <2>3
    <3> QED
      BY <2>2, <3>1, Wrapped
  <2>6. x = q * y + rem
    <3>1. \A k, l, m \in Int : k = m * l + (k - l * m)
      OBVIOUS
    <3>2. x \in Int /\ y \in Int /\ q \in Int
      BY <1>1, <2>2
    <3> QED
      BY <3>1, <3>2 DEF rem
  <2> QED
    BY <2>1, <2>2, <2>4, <2>5, <2>6
<1>6. CASE s.name \notin {"MULT", "MULTU", "DIV", "DIVU"}
  BY <1>6 DEF HiLoResult
<1> QED
  BY <1>2, <1>3, <1>4, <1>5, <1>6

(* The results, in the registers after the step. *)
Results(s) ==
    /\ s.name \in ToRd /\ s.rd # 0 => RdResult(s, registers, Signed(registers'[s.rd]))
    /\ s.name \in ToRt /\ s.rt # 0 => RtResult(s, registers, registers'[s.rt])
    /\ s.name \in ToHiLo => HiLoResult(s, registers, registers'[HiReg], registers'[LoReg])

LEMMA StepResults ==
    ASSUME RegistersOK(registers), NEW s \in Sources, NEW n, Executed(s, n), registers[LoadReg] = 0
    PROVE  Results(s)
<1> DEFINE i == Decode(Assembled(s))
           done == Computed(i, registers)
<1>1. /\ ~HostTraps(i, registers) /\ ~Overflows(i, registers)
      /\ \A g \in (GPRegs \cup {HiReg, LoReg}) \ {0} : registers'[g] = done[g]
  BY DEF Executed
<1>2. Meaning(s, i)
  <2>1. s.name \in Names
    BY DEF Sources
  <2> QED
    BY <2>1, Decoded
<1> HIDE DEF i
<1>3. registers \in [Registers -> Word]
  BY DEF RegistersOK
<1>4. ASSUME s.name \in ToRd, s.rd # 0 PROVE RdResult(s, registers, Signed(registers'[s.rd]))
  <2>1. i.opCode \in ToRd /\ i.rd = s.rd /\ s.rd \in GPRegs /\ s.rd \in Registers
    BY <1>2, <1>4, Fields, RegisterNumbers
  <2>2. done = [registers EXCEPT ![s.rd] = RdValue(i, registers)]
    BY <2>1, NameSets DEF Computed
  <2>3. registers'[s.rd] = RdValue(i, registers)
    BY <1>1, <1>3, <1>4, <2>1, <2>2
  <2>4. RdResult(s, registers, Signed(RdValue(i, registers)))
    BY <1>1, <1>2, <1>3, <1>4, RdResults
  <2> QED
    BY <2>3, <2>4
<1>5. ASSUME s.name \in ToRt, s.rt # 0 PROVE RtResult(s, registers, registers'[s.rt])
  <2>1. i.opCode \in ToRt /\ i.rt = s.rt /\ s.rt \in GPRegs /\ s.rt \in Registers
    BY <1>2, <1>5, Fields, RegisterNumbers
  <2>2. done = [registers EXCEPT ![s.rt] = RtValue(i, registers)]
    BY <2>1, NameSets DEF Computed
  <2>3. registers'[s.rt] = RtValue(i, registers)
    BY <1>1, <1>3, <1>5, <2>1, <2>2
  <2>4. RtResult(s, registers, RtValue(i, registers))
    BY <1>2, <1>3, <1>5, RtResults
  <2> QED
    BY <2>3, <2>4
<1>6. ASSUME s.name \in ToHiLo PROVE HiLoResult(s, registers, registers'[HiReg], registers'[LoReg])
  <2>1. i.opCode \in ToHiLo /\ {HiReg, LoReg} \subseteq Registers /\ HiReg # LoReg /\ 0 \notin {HiReg, LoReg}
    BY <1>2, <1>6, Fields, RegisterNumbers
  <2>2. done = [registers EXCEPT ![HiReg] = HiLoValue(i, registers).hi, ![LoReg] = HiLoValue(i, registers).lo]
    BY <2>1, NameSets DEF Computed
  <2>3. registers'[HiReg] = HiLoValue(i, registers).hi /\ registers'[LoReg] = HiLoValue(i, registers).lo
    BY <1>1, <1>3, <2>1, <2>2
  <2>4. HiLoResult(s, registers, HiLoValue(i, registers).hi, HiLoValue(i, registers).lo)
    BY <1>1, <1>2, <1>3, <1>6, HiLoResults
  <2> QED
    BY <2>3, <2>4
<1> QED
  BY <1>4, <1>5, <1>6 DEF Results

(* A step that raises an overflow, and one that ends the host's process. *)
LEMMA ResultTraps ==
    ASSUME ProgramInv, NEW s \in Sources, NEW n, Outcome(s, n)
    PROVE  /\ which' \notin {"AddressError", "PageFault"} =>
                 (which' = "Overflow" <=> s.name \in {"ADD", "ADDI", "SUB"} /\ ~Fits(Exact(s, registers)))
           /\ status' = "crashed" => /\ s.name = "DIV" /\ Signed(registers[s.rt]) # 0
                                     /\ ~Fits(Quotient(Signed(registers[s.rs]), Signed(registers[s.rt])))
<1> DEFINE i == Decode(Assembled(s))
<1>1. Meaning(s, i)
  <2>1. s.name \in Names
    BY DEF Sources
  <2> QED
    BY <2>1, Decoded
<1>2. registers \in [Registers -> Word] /\ which = "None"
  BY DEF ProgramInv, MachineInv, RegistersOK, Outcome
<1>3. Overflows(i, registers) <=> s.name \in {"ADD", "ADDI", "SUB"} /\ ~Fits(Exact(s, registers))
  <2> HIDE DEF i
  <2> QED
    BY <1>1, <1>2, OverflowExact
<1>4. HostTraps(i, registers) => /\ s.name = "DIV" /\ Signed(registers[s.rt]) # 0
                                 /\ ~Fits(Quotient(Signed(registers[s.rs]), Signed(registers[s.rt])))
  <2> HIDE DEF i
  <2> QED
    BY <1>1, <1>2, TrappedQuotient
<1>5. CASE Trapped(s, n)
  <2>1. /\ which' \in {"AddressError", "PageFault"} <=> ~(FetchOK(n) /\ AccessOK(s, n))
        /\ which' = "Overflow" <=> FetchOK(n) /\ Overflows(i, registers)
        /\ status' \in {"halted", "aborted"}
    BY <1>5 DEF Trapped
  <2> HIDE DEF i
  <2> QED
    BY <1>3, <2>1
<1>6. CASE Crashed(s, n)
  <2>1. which' = "None" /\ HostTraps(i, registers)
    BY <1>2, <1>6 DEF Crashed
  <2> HIDE DEF i
  <2> QED
    BY <1>4, <2>1
<1>7. CASE Executed(s, n)
  <2>1. which' = "None" /\ status' = "user" /\ ~Overflows(i, registers)
    BY <1>2, <1>7 DEF Executed, Outcome
  <2> HIDE DEF i
  <2> QED
    BY <1>3, <2>1
<1> QED
  BY <1>5, <1>6, <1>7 DEF Outcome

(* Machine::OneInstruction and Mult: ADD, ADDI and SUB raise an overflow   *)
(* exactly when the integer result has no word, and otherwise hold it; HI  *)
(* and LO hold the exact product, or a quotient and remainder of C; SLT,   *)
(* SLTI and SRA compare and shift the signed integers; ADDI and ADDIU add  *)
(* a signed immediate, and ORI one that leaves the high half alone; only a *)
(* division with no quotient in a word kills the process.                  *)
THEOREM ResultsAreExact == Spec => ResultExact
<1>1. ProgramInv /\ [Next]_uvars => [ExactStep]_uvars
  <2> SUFFICES ASSUME ProgramInv, Next, status # status' \/ steps' # steps PROVE ExactStep
    BY DEF ExactStep, Completed
  <2>1. Runs \/ (steps' = steps /\ status' # "crashed")
    BY DEF Next, Converts, Starts, StartProcess, Interrupted, hvars, mvars
  <2>2. CASE ~Runs
    BY <2>1, <2>2 DEF ExactStep, Completed
  <2>3. CASE Runs
    <3> DEFINE s == ran'
    <3>1. PICK n \in 1..NumPhysPages : s \in Sources /\ Outcome(s, n)
      <4>1. PICK x \in Sources, n \in 1..NumPhysPages : Outcome(x, n) /\ Remembers(x)
        BY <2>3, StepOutcome DEF ProgramInv
      <4>2. s = x
        BY <4>1 DEF Remembers
      <4> HIDE DEF s
      <4> QED
        BY <4>1, <4>2
    <3> HIDE DEF s
    <3>3. /\ which' \notin {"AddressError", "PageFault"} =>
                 (which' = "Overflow" <=> s.name \in {"ADD", "ADDI", "SUB"} /\ ~Fits(Exact(s, registers)))
          /\ status' = "crashed" => /\ s.name = "DIV" /\ Signed(registers[s.rt]) # 0
                                    /\ ~Fits(Quotient(Signed(registers[s.rs]), Signed(registers[s.rt])))
      BY <3>1, ResultTraps
    <3>4. Completed => Results(s)
      <4> SUFFICES ASSUME Completed PROVE Results(s)
        OBVIOUS
      <4>1. RegistersOK(registers) /\ registers[LoadReg] = 0
        BY <3>1 DEF ProgramInv, MachineInv, HistoryInv, Completed, Outcome
      <4>2. Executed(s, n)
        BY <3>1 DEF Outcome, Trapped, Crashed, Completed
      <4> QED
        BY <3>1, <4>1, <4>2, StepResults
    <3>5. 0 % Base = 0 /\ 0 - 0 = 0
      BY NoRemainder
    <3> DEFINE dest(g) == IF g = 0 THEN 0 ELSE Signed(registers'[g])
               zeroOr(g, value) == IF g = 0 THEN 0 ELSE value
               a == Signed(registers[s.rs])
               b == Signed(registers[s.rt])
               m == Exact(s, registers)
    <3>6. ASSUME Completed
          PROVE  /\ s.name \in {"ADD", "SUB"} => dest(s.rd) = zeroOr(s.rd, m)
                 /\ s.name \in {"ADDU", "SUBU"} => (dest(s.rd) - zeroOr(s.rd, m)) % Base = 0
                 /\ s.name = "SLT" => dest(s.rd) = zeroOr(s.rd, Flag(a < b))
                 /\ s.name = "SRA" => LET q == dest(s.rd) IN s.rd # 0 => q * 2^s.k <= b /\ b < (q + 1) * 2^s.k
      <4>1. CASE s.rd = 0
        BY <3>5, <4>1
      <4>2. CASE s.rd # 0
        <5>1. s.name \in {"ADD", "SUB", "ADDU", "SUBU", "SLT", "SRA"} => s.name \in ToRd
          BY DEF ToRd
        <5>2. s.name \in ToRd => RdResult(s, registers, Signed(registers'[s.rd]))
          BY <3>4, <3>6, <4>2 DEF Results
        <5> QED
          BY <4>2, <5>1, <5>2 DEF RdResult
      <4> QED
        BY <4>1, <4>2
    <3>7. ASSUME Completed
          PROVE  /\ s.name \in {"ADDI", "ADDIU"} => (dest(s.rt) - zeroOr(s.rt, m)) % Base = 0
                 /\ s.name = "SLTI" => dest(s.rt) = zeroOr(s.rt, Flag(a < Immediate(s)))
                 /\ s.name = "ORI" /\ s.rt # 0 => HighBytes(registers'[s.rt], 2) = HighBytes(registers[s.rs], 2)
      <4>1. CASE s.rt = 0
        BY <3>5, <4>1
      <4>2. CASE s.rt # 0
        <5>1. s.name \in {"ADDI", "ADDIU", "SLTI", "ORI"} => s.name \in ToRt
          BY DEF ToRt
        <5>2. s.name \in ToRt => RtResult(s, registers, registers'[s.rt])
          BY <3>4, <3>7, <4>2 DEF Results
        <5> QED
          BY <4>2, <5>1, <5>2 DEF RtResult
      <4> QED
        BY <4>1, <4>2
    <3>8. ASSUME Completed
          PROVE  LET hi == registers'[HiReg]
                     lo == registers'[LoReg]
                     rem == Signed(hi)
                 IN  /\ s.name \in {"MULT", "MULTU"} => hi * Base + lo = m % (Base * Base)
                     /\ s.name = "DIV" /\ b # 0 => a = Signed(lo) * b + rem /\ rem * rem < b * b /\ rem * a >= 0
                     /\ s.name = "DIVU" /\ b # 0 =>
                           registers[s.rs] = lo * registers[s.rt] + hi /\ hi < registers[s.rt]
      <4>1. s.name \in {"MULT", "MULTU", "DIV", "DIVU"} => s.name \in ToHiLo
        BY DEF ToHiLo
      <4> QED
        BY <3>4, <3>8, <4>1 DEF Results, HiLoResult
    <3> HIDE DEF dest, zeroOr, a, b, m
    <3> QED
      BY <3>3, <3>6, <3>7, <3>8, Zenon DEF ExactStep, dest, zeroOr, a, b, m, s
  <2> QED
    BY <2>2, <2>3
<1> QED
  BY <1>1, ProgramInvariant, PTL DEF Spec, ResultExact

=============================================================================
