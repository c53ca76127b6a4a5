-------------------------------- MODULE Mult --------------------------------
(***************************************************************************)
(* The multiplication of the simulated MIPS (Mult in machine/mipssim.cc):  *)
(* a double-word product by shifting and adding single words.              *)
(***************************************************************************)
EXTENDS Word

Negate(w) == AsWord(Base - w)

(* Negating the least int overflows in C++; the build wraps around. *)
Magnitude(w, signedArith) == IF signedArith /\ Negative(w) THEN Negate(w) ELSE w

(* Mutant of CarryOut: the carry out of the low word is forgotten. *)
CarryOut_Never(sum, addend) == 0

CarryOut(sum, addend) == IF sum < addend THEN 1 ELSE 0

(* The second half of an iteration.  a is a C int: its shift copies the    *)
(* sign bit.                                                               *)
Shifted(s) ==
    [s EXCEPT !.bHi = ShiftLeft(s.bHi, 1) + (IF Negative(s.bLo) THEN 1 ELSE 0),
              !.bLo = ShiftLeft(s.bLo, 1),
              !.a = ShiftRightSigned(s.a, 1)]

(* One iteration; the loop is left once no bit of a remains. *)
Iterate(s) ==
    LET sum == AsWord(s.lo + s.bLo)
        added == [s EXCEPT !.lo = sum, !.hi = AsWord(@ + CarryOut(sum, s.bLo) + s.bHi)]
    IN  CASE s.left -> s
          [] ~s.left /\ s.a % 2 = 0 -> Shifted(s)
          [] OTHER -> IF s.a \div 2 = 0 THEN [added EXCEPT !.left = TRUE] ELSE Shifted(added)

(* The double word, negated. *)
Negated(hi, lo) ==
    [lo |-> Negate(lo), hi |-> AsWord(Not(hi) + (IF lo = 0 THEN 1 ELSE 0))]

(* Mult(a, b, signedArith): the words left in *hiPtr and *loPtr. *)
Mult(a, b, signedArith) ==
    LET before == [a |-> Magnitude(a, signedArith), bHi |-> 0, bLo |-> Magnitude(b, signedArith),
                   hi |-> 0, lo |-> 0, left |-> FALSE]
        loop[i \in 0..WordBits] == IF i = 0 THEN before ELSE Iterate(loop[i - 1])
        after == loop[WordBits]
        negative == signedArith /\ Negative(a) # Negative(b)
    IN  CASE a = 0 \/ b = 0 -> [hi |-> 0, lo |-> 0]
          [] a # 0 /\ b # 0 /\ negative -> Negated(after.hi, after.lo)
          [] OTHER -> [hi |-> after.hi, lo |-> after.lo]

=============================================================================
