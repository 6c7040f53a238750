-------------------------------- MODULE Gf8 --------------------------------
(***************************************************************************)
(* Arithmetic of GF(2^8) as the library computes it: the log/exp tables of *)
(* field/tables.rs, the operators of field/gf8.rs and the nibble tables of *)
(* kernel/scalar.rs.                                                       *)
(*                                                                         *)
(* A byte is the set of its one-bits: bit i is worth 2^i, xor is symmetric *)
(* difference, and a shift moves every bit.                                *)
(***************************************************************************)
EXTENDS Integers, FiniteSets

Bits == 0..7
Byte == SUBSET Bits

ZERO == {}      \* 0x00
ONE  == {0}     \* 0x01
Gen  == {0, 1}  \* GEN  = 0x03
Poly == {0, 1, 3, 4}  \* POLY & 0xFF = 0x1B

Xor(a, b) == (a \ b) \cup (b \ a)

\* ONE round of the multiply loops: a <<= 1, reduced when bit 7 was set.
Xtime(a) ==
  LET shifted == {i \in Bits : i - 1 \in a}
  IN  IF 7 \in a THEN Xor(shifted, Poly) ELSE shifted

\* gf_mul_slow and gf_mul_polynomial: bit i of b adds a * x^i to the result.
MulSlow(a, b) ==
  LET power[i \in Bits] == IF i = 0 THEN a ELSE Xtime(power[i - 1])
      result[n \in 0..8] ==
        IF n = 0 THEN ZERO
        ELSE IF n - 1 \in b THEN Xor(result[n - 1], power[n - 1])
        ELSE result[n - 1]
  IN  result[8]

-----------------------------------------------------------------------------
(* The tables. *)

(* The value of x at round i of the loop of gen_exp, GEN^i. It is written by *)
(* halving i, to keep the recursion shallow; that neighbours are one round *)
(* of the loop apart (x = gf_mul_slow(x, GEN)) is checked, not assumed.    *)
GenPower[i \in 0..254] ==
  IF i = 0 THEN ONE
  ELSE LET root   == GenPower[i \div 2]
           square == MulSlow(root, root)
       IN  IF i % 2 = 0 THEN square ELSE MulSlow(square, Gen)

\* The loop writes i and i + 255; three entries are set after it.
EXP == [i \in 0..511 |-> CASE i = 511          -> Gen
                           [] i \in {255, 510} -> ONE
                           [] OTHER            -> GenPower[i % 255]]

\* LOG[0] is the sentinel 0; every other entry is written by the loop.
LOG == [a \in Byte |-> IF a = ZERO THEN 0
                       ELSE CHOOSE i \in 0..254 : EXP[i] = a]

INV == [a \in Byte |-> IF a = ZERO THEN ZERO ELSE EXP[255 - LOG[a]]]

-----------------------------------------------------------------------------
(* The operators of Gf8. Add, AddAssign, Sub and SubAssign are Xor; Neg is *)
(* the identity.                                                           *)

\* Mutant: the sentinel LOG[0] = 0 is looked up for a zero right operand.
MulReadingSentinel(a, b) == IF a = ZERO THEN ZERO ELSE EXP[LOG[a] + LOG[b]]

Mul(a, b) == IF a = ZERO \/ b = ZERO THEN ZERO ELSE EXP[LOG[a] + LOG[b]]

Inv(a) == INV[a]

\* Mutant: the exponent is reduced by the number of bytes.
PowModBytes(a, e) ==
  IF a = ZERO THEN IF e = 0 THEN ONE ELSE ZERO
  ELSE EXP[(LOG[a] * (e % 256)) % 255]

Pow(a, e) ==
  IF a = ZERO THEN IF e = 0 THEN ONE ELSE ZERO
  ELSE EXP[(LOG[a] * (e % 255)) % 255]

\* Div asserts that b is not zero.
Div(a, b) == Mul(a, Inv(b))

\* EXP[255 - LOG[a]], the inverse the decoder takes of a pivot.
PivotInverse(a) == EXP[255 - LOG[a]]

-----------------------------------------------------------------------------
(* The product as the scalar kernel and every shuffle kernel compute it:   *)
(* one table for each half of the byte.                                    *)

Low(a)  == a \cap (0..3)
High(a) == {i \in 0..3 : i + 4 \in a}
Up(n)   == {i \in 4..7 : i - 4 \in n}

NibbleLo(c, n) == MulSlow(c, n)
\* Mutant: the high table is built without nibble << 4.
NibbleHiUnshifted(c, n) == MulSlow(c, n)

NibbleHi(c, n) == MulSlow(c, Up(n))

NibbleMul(c, a) == Xor(NibbleLo(c, Low(a)), NibbleHi(c, High(a)))
=============================================================================
