------------------------------- MODULE Field -------------------------------
(***************************************************************************)
(* A field of characteristic two, and the two operations on slices of its  *)
(* elements that the whole library is built from: axpy and scale           *)
(* (kernel/scalar.rs; the SIMD kernels compute the same functions).        *)
(*                                                                         *)
(* The library's field is GF(2^8) of module Gf8; the model checker is      *)
(* given a subfield of it, and what is proved holds for every field that   *)
(* satisfies FieldAssumption.                                              *)
(***************************************************************************)
EXTENDS Integers, FiniteSets

CONSTANTS
  Elem,         \* the field: the values of one byte
  Zero, One,
  Plus(_, _),   \* xor of two bytes
  Times(_, _),  \* GF(2^8) multiplication
  Reciprocal(_)    \* EXP[255 - LOG[a]]

(* A field in which every element is its own negative. *)
ASSUME FieldAssumption ==
  /\ Zero \in Elem /\ One \in Elem /\ Zero # One
  /\ \A a \in Elem :
       /\ Plus(a, Zero) = a
       /\ Plus(a, a) = Zero
       /\ Times(a, One) = a
       /\ Times(a, Zero) = Zero
       /\ a # Zero => Reciprocal(a) \in Elem /\ Times(Reciprocal(a), a) = One
  /\ \A a, b \in Elem :
       /\ Plus(a, b) \in Elem /\ Plus(a, b) = Plus(b, a)
       /\ Times(a, b) \in Elem /\ Times(a, b) = Times(b, a)
  /\ \A a, b, c \in Elem :
       /\ Plus(Plus(a, b), c) = Plus(a, Plus(b, c))
       /\ Times(Times(a, b), c) = Times(a, Times(b, c))
       /\ Times(a, Plus(b, c)) = Plus(Times(a, b), Times(a, c))

(* A byte has finitely many values. *)
ASSUME FiniteField == IsFiniteSet(Elem)

(* axpy on y[from..] with x[from..]: y[j] ^= c * x[j]. The code's early      *)
(* returns for c = 0 and its xor loop for c = 1 compute the same vector.    *)
AxpyFrom(from, c, x, y) ==
  [j \in DOMAIN y |-> IF j >= from THEN Plus(y[j], Times(c, x[j])) ELSE y[j]]

Axpy(c, x, y) == AxpyFrom(0, c, x, y)

(* scale_inplace on y[from..]. *)
ScaleFrom(from, c, y) ==
  [j \in DOMAIN y |-> IF j >= from THEN Times(c, y[j]) ELSE y[j]]

Scale(c, y) == ScaleFrom(0, c, y)
=============================================================================
