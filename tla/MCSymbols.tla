----------------------------- MODULE MCSymbols -----------------------------
(***************************************************************************)
(* The value the model checker gives Code: the linear code of three fixed  *)
(* source symbols over the field of MCField.                               *)
(***************************************************************************)
EXTENDS LinearAlgebra, MCField

(* The first bytes of the source symbols 0, 1 and 2. *)
SourceByte(i, j) ==
  CASE i = 0 -> IF j = 0 THEN MCOne ELSE Omega
    [] i = 1 -> Omega
    [] i = 2 -> IF j = 0 THEN Omega2 ELSE MCZero

(* The linear code of the symbols whose bytes are byte(i, j). *)
CodeOf(byte(_, _)) ==
  [c \in Vector |->
     [j \in 0..(N - 1) |->
        LET sum[i \in 0..K] ==
              IF i = 0 THEN MCZero
              ELSE MCPlus(sum[i - 1], MCTimes(c[i - 1], byte(i - 1, j)))
        IN  sum[K]]]

CodeTable == CodeOf(SourceByte)
MCCode(c) == CodeTable[c]

(* The same over the prime subfield, for two symbols. *)
SourceBit(i, j) == IF i = 1 /\ j = 0 THEN MCZero ELSE MCOne

BitsCodeTable == CodeOf(SourceBit)
MCBitsCode(c) == BitsCodeTable[c]
=============================================================================
