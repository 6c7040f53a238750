------------------------------ MODULE ZeroRuns ------------------------------
(***************************************************************************)
(* How long SimpleRng can draw nothing but zero bytes, asked of all its    *)
(* states at once. next_u8 is linear over xor, so the states that have     *)
(* drawn only zeros form a space; basis spans it. Draw moves the space by  *)
(* moving the basis, and LookAt keeps the part of it in which the next bit *)
(* of the byte drawn is zero, by elimination. A generator runs along.      *)
(***************************************************************************)
EXTENDS SimpleRng

VARIABLES
  basis,   \* spans the states that are still possible
  bit,     \* the bits of the byte drawn below this one have been looked at
  zeros    \* all bits the generator has shown so far were zero

zeroVars == <<state, basis, bit, zeros>>

ZeroInit ==
  /\ RngInit
  /\ basis = {{i} : i \in WordBits}
  /\ bit = 8
  /\ zeros = TRUE

Draw ==
  /\ bit = 8
  /\ NextU8
  /\ basis' = {Shifted(a) : a \in basis}
  /\ bit' = 0
  /\ UNCHANGED zeros

(* The combinations of a basis in which bit n is zero. *)
Without(n, B) ==
  IF \A a \in B : n \notin a THEN B
  ELSE LET pivot == CHOOSE a \in B : n \in a
       IN  {IF n \in a THEN Xor(a, pivot) ELSE a : a \in B \ {pivot}}

LookAt ==
  /\ bit < 8
  /\ basis' = Without(bit, basis)
  /\ zeros' = (zeros /\ bit \notin state)
  /\ bit' = bit + 1
  /\ UNCHANGED state

ZeroNext == Draw \/ LookAt

ZeroSpec == ZeroInit /\ [][ZeroNext]_zeroVars

-----------------------------------------------------------------------------
(***************************************************************************)
(* When the basis has run out, every generator has drawn a byte other than *)
(* zero, from whatever seed it started.                                    *)
(***************************************************************************)
EmptyBasisEndsZeros == basis = {} => ~zeros
=============================================================================
