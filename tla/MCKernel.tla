------------------------------ MODULE MCKernel ------------------------------
(***************************************************************************)
(* Kernel with vectors of 2, 4 and 8 bytes, blocks of 16 and fusion from   *)
(* 32 bytes and 2 sources, over the field of MCField.                      *)
(***************************************************************************)
EXTENDS Kernel, MCField

MCTiers == {"gfni_avx512", "gfni_avx2", "gfni_sse", "avx512_ssse3",
            "avx2_ssse3", "ssse3", "neon", "wasm", "scalar"}

(* Bytes other than 0, in an order that does not repeat. *)
MCMemory == [a \in 0..160 |-> <<MCOne, Omega, Omega2>>[1 + ((a * a + a \div 4) % 3)]]

At(p, l) == [ptr |-> p, len |-> l]

(* Every combination of steps: one unrolled iteration and each tail. *)
Lengths == (0..17) \cup {23, 31, 32, 33, 46, 47, 48, 63, 64, 71}
Starts  == {0, 1}            \* an aligned source and one that is not
Dests   == {80, 82, 84, 87}  \* divisible by 8 (and 16), 2, 4 and by none

Coeffs == {MCZero, MCOne, Omega}

Single ==
  {[op |-> o, coeffs |-> <<e>>, sources |-> <<At(p, l)>>, y |-> At(q, l)] :
     o \in {"axpy", "scale"}, e \in Coeffs, p \in Starts, q \in {80, 84, 87}, l \in Lengths}

Inplace ==
  {[op |-> "scale_inplace", coeffs |-> <<e>>, sources |-> <<>>, y |-> At(q, l)] :
     e \in Coeffs, q \in {80, 87}, l \in Lengths}

Dot == {[op |-> "dot", coeffs |-> <<>>, sources |-> <<At(1, l)>>, y |-> At(q, l)] :
          q \in {0, 80}, l \in Lengths}

(* Slices that touch, overlap by a byte at either end, or coincide; slices  *)
(* whose lengths differ; a bad source after a good one.                     *)
Positions(l) == {40 - l, 40 - l + 1, 40, 40 + l - 1, 40 + l}
Rejected ==
  UNION {{[op |-> o, coeffs |-> <<Omega>>, sources |-> <<At(p, l)>>, y |-> At(40, l)] :
            o \in {"axpy", "scale", "axpy_multi"}, p \in Positions(l)} : l \in {0, 1, 5}}
  \cup {[op |-> o, coeffs |-> <<Omega>>, sources |-> <<At(0, l)>>, y |-> At(40, 5)] :
          o \in {"axpy", "scale", "dot"}, l \in {0, 4, 6}}
  \cup {[op |-> "axpy_multi", coeffs |-> e, sources |-> <<At(0, 5), At(p, l)>>, y |-> At(40, 5)] :
          e \in {<<MCOne>>, <<MCOne, MCZero>>, <<MCZero, Omega2>>},
          p \in {3, 36, 44}, l \in {4, 5}}

(* Sources may share bytes with each other. *)
Multi ==
  {[op |-> "axpy_multi", coeffs |-> e,
    sources |-> [s \in DOMAIN e |-> At(CASE s = 1 -> 0 [] s = 2 -> 3 [] s = 3 -> 8, l)],
    y |-> At(q, l)] :
     e \in {<<>>, <<Omega>>, <<MCZero, MCOne>>, <<Omega, Omega2>>,
            <<MCOne, MCZero, Omega>>},
     q \in {80, 87}, l \in {0, 1, 15, 16, 17, 31, 32, 33, 39, 47, 48, 50}}

MCCalls == Single \cup Inplace \cup Dot \cup Rejected \cup Multi
=============================================================================
