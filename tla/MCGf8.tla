------------------------------- MODULE MCGf8 -------------------------------
(***************************************************************************)
(* A calculator with one register, computed twice: acc by the library's    *)
(* table-driven operators, ref by polynomial arithmetic. From zero every   *)
(* byte is reachable, so every operator meets every pair of operands.      *)
(***************************************************************************)
EXTENDS Gf8

VARIABLES acc, ref

(* Exponents around the order of the group and far beyond it; 0 is special. *)
Exponents == {0, 1, 2, 7, 254, 255, 256, 510, 65535, 2147483647}

(* Inverses by search among the polynomial products. *)
InverseSlow == [b \in Byte \ {ZERO} |-> CHOOSE q \in Byte : MulSlow(q, b) = ONE]

(* Square and multiply by polynomial arithmetic. *)
PowSlow(a, e) ==
  LET power[n \in 0..e] ==
        IF n = 0 THEN ONE
        ELSE LET root   == power[n \div 2]
                 square == MulSlow(root, root)
             IN  IF n % 2 = 0 THEN square ELSE MulSlow(square, a)
  IN  power[e]

Init == acc = ZERO /\ ref = ZERO

AddAssign == \E b \in Byte : acc' = Xor(acc, b) /\ ref' = Xor(ref, b)

MulAssign == \E b \in Byte : acc' = Mul(acc, b) /\ ref' = MulSlow(ref, b)

Divide ==
  \E b \in Byte \ {ZERO} : \E inverse \in {InverseSlow[b]} :
    acc' = Div(acc, b) /\ ref' = MulSlow(ref, inverse)

Invert ==
  /\ acc' = Inv(acc)
  /\ ref' = IF ref = ZERO THEN ZERO ELSE InverseSlow[ref]

Raise == \E e \in Exponents : acc' = Pow(acc, e) /\ ref' = PowSlow(ref, e)

Next == AddAssign \/ MulAssign \/ Divide \/ Invert \/ Raise

Spec == Init /\ [][Next]_<<acc, ref>>

(***************************************************************************)
(* Every operator of Gf8, whatever its operands, including the sentinel    *)
(* LOG[0], the doubled half of EXP and pow(0, 0), gives the value of       *)
(* polynomial arithmetic modulo x^8 + x^4 + x^3 + x + 1. And after each of *)
(* its entries that equals the register EXP has the generator times that   *)
(* byte: both halves and the three entries written by hand go on from each *)
(* other, 510 and 511 included, which no operator looks up.                *)
(***************************************************************************)
TablesArePolynomial ==
  /\ acc = ref
  /\ \A i \in 0..510 : EXP[i] = acc => EXP[i + 1] = MulSlow(acc, Gen)

(***************************************************************************)
(* The products form a field: multiplication by the register commutes,     *)
(* distributes over xor (the second summand ranges over the single bits,   *)
(* whose xors are all bytes) and associates (the third factor is x, whose  *)
(* powers and their xors are all bytes).                                   *)
(***************************************************************************)
FieldLaws ==
  \A b \in Byte :
    /\ Mul(acc, b) = Mul(b, acc)
    /\ Mul(acc, Mul(b, {1})) = Mul(Mul(acc, b), {1})
    /\ \A i \in Bits : Mul(acc, Xor(b, {i})) = Xor(Mul(acc, b), Mul(acc, {i}))

(***************************************************************************)
(* The two nibble tables every axpy and scale kernel reads give the        *)
(* product of the coefficient with the whole byte.                         *)
(***************************************************************************)
NibblesAreProduct == \A a \in Byte : NibbleMul(acc, a) = Mul(acc, a)
=============================================================================
