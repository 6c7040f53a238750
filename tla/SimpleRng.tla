----------------------------- MODULE SimpleRng -----------------------------
(***************************************************************************)
(* The library's generator of coding coefficients (encoder.rs): xorshift   *)
(* on a word, whose low byte is the next coefficient. A word is the set of *)
(* its one-bits, so xor is symmetric difference and shifts move bits; bits *)
(* shifted past either end are lost.                                       *)
(***************************************************************************)
EXTENDS Integers

CONSTANTS
  W,                \* 64, the width of the state
  Left1, Right, Left2,  \* 13, 7, 17, the shifts of next_u8
  Golden,           \* 0x9E37_79B9_7F4A_7C15
  Seeds             \* the seeds callers pass

ASSUME WordAssumption ==
  /\ W \in Nat \ {0}
  /\ Left1 \in Nat \ {0} /\ Right \in Nat \ {0} /\ Left2 \in Nat \ {0}
  /\ Golden \subseteq 0..(W - 1) /\ Golden # {}
  /\ Seeds \subseteq SUBSET (0..(W - 1))

WordBits == 0..(W - 1)

VARIABLE state  \* SimpleRng.0

Xor(a, b)  == (a \ b) \cup (b \ a)
Shl(a, n)  == {i \in WordBits : i - n \in a}
Shr(a, n)  == {i \in WordBits : i + n \in a}
LowByte(a) == a \cap (0..7)

(* wrapping_add(1): bit i flips when every bit below it is set. *)
PlusOne(a) ==
  {i \in WordBits : (i \in a) # (\A j \in WordBits : j < i => j \in a)}

(* Mutant: the sum is used as it is. *)
SeededUnchecked(seed) == PlusOne(seed)

(* SimpleRng::new *)
Seeded(seed) == IF PlusOne(seed) = {} THEN Golden ELSE PlusOne(seed)

(* Mutant: the right shift is missing. *)
ShiftedWithoutRight(a) ==
  LET b == Xor(a, Shl(a, Left1))
  IN  Xor(b, Shl(b, Left2))

(* The three lines of next_u8. *)
Shifted(a) ==
  LET b == Xor(a, Shl(a, Left1))
      c == Xor(b, Shr(b, Right))
  IN  Xor(c, Shl(c, Left2))

RngInit == \E seed \in Seeds : state = Seeded(seed)

NextU8 == state' = Shifted(state)

RngSpec == RngInit /\ [][NextU8]_state

(***************************************************************************)
(* The generator never falls into the state 0, which would reproduce       *)
(* itself and make every further coefficient 0.                            *)
(***************************************************************************)
StateNeverZero == state # {}
=============================================================================
