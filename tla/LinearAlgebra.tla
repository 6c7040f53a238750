--------------------------- MODULE LinearAlgebra ---------------------------
(***************************************************************************)
(* What a coded packet is made of: a coefficient vector, with one entry    *)
(* for each source symbol of the generation, and a payload, the same       *)
(* combination of the bytes of the source symbols.                         *)
(***************************************************************************)
EXTENDS Field

CONSTANTS
  K,            \* generation_size: the number of source symbols
  N,            \* symbol_size: the number of bytes of a symbol
  Code(_)       \* the payload a correct sender gives a coefficient vector

(* Decoder::new and Encoder::new refuse a zero generation or symbol size. *)
ASSUME SizeAssumption == K \in Nat \ {0} /\ N \in Nat \ {0}

Cols    == 0..(K - 1)
Vector  == [Cols -> Elem]           \* a coefficient vector
Payload == [0..(N - 1) -> Elem]     \* the bytes of one symbol

ZeroVector  == [j \in Cols |-> Zero]
ZeroPayload == [j \in 0..(N - 1) |-> Zero]
Unit(i)     == [j \in Cols |-> IF j = i THEN One ELSE Zero]

(* A sender's payload is a linear function of the coefficient vector: the   *)
(* same combination of the source symbols, byte by byte.                   *)
ASSUME CodeAssumption ==
  /\ \A x \in Vector : Code(x) \in Payload
  /\ \A c \in Elem, x, y \in Vector :
       Code(Axpy(c, x, y)) = Axpy(c, Code(x), Code(y))
  /\ \A c \in Elem, x \in Vector : Code(Scale(c, x)) = Scale(c, Code(x))

(* Source symbol i is the payload of the unit vector i (encode_systematic). *)
Source == [i \in Cols |-> Code(Unit(i))]
=============================================================================
