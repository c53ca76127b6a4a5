-------------------------------- MODULE Word --------------------------------
(***************************************************************************)
(* The words of the simulated MIPS: four bytes of ByteBits bits (8 in the  *)
(* code), held as the unsigned number they represent.                      *)
(***************************************************************************)
EXTENDS Integers

CONSTANT ByteBits

ASSUME WordAssumption == ByteBits \in {2, 4, 8}

ByteBase == 2^ByteBits
WordBits == 4 * ByteBits
HalfBits == 2 * ByteBits
Base == 2^WordBits
Word == 0..(Base - 1)

(* The value of a word as a C int. *)
Signed(w) == IF w >= Base \div 2 THEN w - Base ELSE w

(* The word that holds an integer: arithmetic in the machine wraps around. *)
AsWord(n) == n % Base

(* w & SIGN_BIT. *)
Negative(w) == w >= Base \div 2

(* A value of n bits, with its highest bit copied into the bits above it.  *)
SignExtended(w, n) == IF w >= 2^(n - 1) THEN w + Base - 2^n ELSE w

Bit(w, k) == (w \div 2^k) % 2

(* The word whose bits are op of the bits of a and b. *)
Combined(op, a, b) ==
    LET low[n \in 0..WordBits] ==
          IF n = 0 THEN 0 ELSE low[n - 1] + 2^(n - 1) * op[Bit(a, n - 1)][Bit(b, n - 1)]
    IN  low[WordBits]

BitAnd == [x \in {0, 1} |-> [y \in {0, 1} |-> x * y]]
BitOr  == [x \in {0, 1} |-> [y \in {0, 1} |-> x + y - x * y]]
BitXor == [x \in {0, 1} |-> [y \in {0, 1} |-> (x + y) % 2]]

And(a, b) == Combined(BitAnd, a, b)
Or(a, b)  == Combined(BitOr, a, b)
Xor(a, b) == Combined(BitXor, a, b)
Not(a)    == Base - 1 - a

ShiftLeft(w, k)  == (w * 2^k) % Base
ShiftRight(w, k) == w \div 2^k

(* >> of a C int: the sign bit is copied. *)
ShiftRightSigned(w, k) == AsWord(Signed(w) \div 2^k)

(* Byte k of a word, byte 0 the lowest; a word without its n lowest bytes; *)
(* and its n lowest bytes alone.                                           *)
ByteOf(w, k)     == (w \div ByteBase^k) % ByteBase
HighBytes(w, n)  == w - (w % ByteBase^n)
LowBytes(w, n)   == w % ByteBase^n

=============================================================================
