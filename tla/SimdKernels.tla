---------------------------- MODULE SimdKernels ----------------------------
(***************************************************************************)
(* How each SIMD kernel of rlnc-simdx (kernel/x86, kernel/arm,             *)
(* kernel/wasm) walks a slice. A kernel is a plan: the vector loops and    *)
(* single vector steps it makes, in order; what they leave is the tail,    *)
(* which every kernel hands to its scalar counterpart. The coefficients 0  *)
(* and 1, on which a kernel returns early after doing what the scalar      *)
(* kernel does on the whole slice, have the empty plan.                    *)
(*                                                                         *)
(* What the steps compute is in module Kernel, and that the nibble tables  *)
(* give products is checked in MCGf8.                                      *)
(***************************************************************************)
EXTENDS Field, Sequences

CONSTANT Lane  \* bytes of a 128-bit vector: 16

ASSUME LaneAssumption == Lane \in Nat \ {0}

Xmm == Lane
Ymm == 2 * Lane
Zmm == 4 * Lane

(* while i + unroll * vector <= len, and if i + vector <= len. aligned says  *)
(* that the loads and stores demand addresses that are multiples of vector. *)
Unrolled(unroll, vector, aligned) ==
  <<[unroll |-> unroll, vector |-> vector, aligned |-> aligned, loop |-> TRUE]>>
Loop(vector, aligned) == Unrolled(1, vector, aligned)
Once(vector) ==
  <<[unroll |-> 1, vector |-> vector, aligned |-> FALSE, loop |-> FALSE]>>

(* Mutant: only the source is asked. *)
SourceAligned(w, x, y) == x % w = 0

(* both_aligned64, both_aligned32 and both_aligned16. *)
BothAligned(w, x, y) == x % w = 0 /\ y % w = 0

-----------------------------------------------------------------------------
(* GFNI and AVX-512. *)
axpy_gfni_avx512_xor(x, y) ==
  Loop(Zmm, BothAligned(Zmm, x, y)) \o Once(Ymm) \o Once(Xmm)

axpy_gfni_avx512(c, x, y) ==
  IF c = One THEN axpy_gfni_avx512_xor(x, y)
  ELSE Unrolled(4, Zmm, BothAligned(Zmm, x, y)) \o Loop(Zmm, BothAligned(Zmm, x, y))
         \o Once(Ymm) \o Once(Xmm)

axpy_multi_gfni_avx512 == Loop(Zmm, FALSE) \o Once(Ymm) \o Once(Xmm)

dot_gfni_avx512 == Loop(Zmm, FALSE)

scale_gfni_avx512(x, y) ==
  Loop(Zmm, BothAligned(Zmm, x, y)) \o Once(Ymm) \o Once(Xmm)

scale_inplace_gfni_avx512(y) ==
  Loop(Zmm, BothAligned(Zmm, y, y)) \o Once(Ymm) \o Once(Xmm)

-----------------------------------------------------------------------------
(* GFNI and AVX2. *)
axpy_gfni_avx2(c, x, y) ==
  IF c = One THEN Loop(Ymm, FALSE) \o Once(Xmm)
  ELSE Unrolled(4, Ymm, BothAligned(Ymm, x, y)) \o Loop(Ymm, BothAligned(Ymm, x, y))
         \o Once(Xmm)

axpy_multi_gfni_avx2 == Loop(Ymm, FALSE) \o Once(Xmm)

dot_gfni_avx2 == Loop(Ymm, FALSE)

scale_gfni_avx2(x, y) == Loop(Ymm, BothAligned(Ymm, x, y)) \o Once(Xmm)

scale_inplace_gfni_avx2 == Loop(Ymm, FALSE) \o Once(Xmm)

-----------------------------------------------------------------------------
(* GFNI and SSE4.2. *)
axpy_gfni_sse(c, x, y) ==
  IF c = One THEN Loop(Xmm, FALSE)
  ELSE Unrolled(4, Xmm, BothAligned(Xmm, x, y)) \o Loop(Xmm, BothAligned(Xmm, x, y))

axpy_multi_gfni_sse == Loop(Xmm, FALSE)

dot_gfni_sse == Loop(Xmm, FALSE)

scale_gfni_sse(x, y) == Loop(Xmm, BothAligned(Xmm, x, y))

scale_inplace_gfni_sse == Loop(Xmm, FALSE)

-----------------------------------------------------------------------------
(* The nibble tables with AVX-512, AVX2 and SSSE3. *)
axpy_avx512_ssse3(c, x, y) ==
  Loop(Zmm, c # One /\ BothAligned(Zmm, x, y)) \o Once(Ymm) \o Once(Xmm)

scale_avx512_ssse3(x, y) ==
  Loop(Zmm, BothAligned(Zmm, x, y)) \o Once(Ymm) \o Once(Xmm)

scale_inplace_avx512_ssse3 == Loop(Zmm, FALSE) \o Once(Ymm) \o Once(Xmm)

axpy_avx2_ssse3(c, x, y) ==
  IF c = One THEN Loop(Ymm, FALSE) ELSE Loop(Ymm, BothAligned(Ymm, x, y)) \o Once(Xmm)

scale_avx2_ssse3(x, y) == Loop(Ymm, BothAligned(Ymm, x, y)) \o Once(Xmm)

scale_inplace_avx2_ssse3 == Loop(Ymm, FALSE) \o Once(Xmm)

axpy_ssse3(c, x, y) == Loop(Xmm, c # One /\ BothAligned(Xmm, x, y))

scale_ssse3(x, y) == Loop(Xmm, BothAligned(Xmm, x, y))

scale_inplace_ssse3 == Loop(Xmm, FALSE)

-----------------------------------------------------------------------------
(* NEON and WASM, whose loads and stores demand no alignment. *)
axpy_neon_xor == Unrolled(4, Xmm, FALSE) \o Loop(Xmm, FALSE)

axpy_neon(c) ==
  IF c = One THEN axpy_neon_xor ELSE Unrolled(4, Xmm, FALSE) \o Loop(Xmm, FALSE)

scale_neon == Loop(Xmm, FALSE)

scale_inplace_neon == Loop(Xmm, FALSE)

axpy_wasm == Loop(Xmm, FALSE)

scale_wasm == Loop(Xmm, FALSE)

scale_inplace_wasm == Loop(Xmm, FALSE)

-----------------------------------------------------------------------------
(* The kernels of a tier (KernelSet); those of the scalar tier are all tail. *)
AxpyKernel(tier, c, x, y) ==
  IF c = Zero THEN <<>> ELSE
  CASE tier = "gfni_avx512"  -> axpy_gfni_avx512(c, x, y)
    [] tier = "gfni_avx2"    -> axpy_gfni_avx2(c, x, y)
    [] tier = "gfni_sse"     -> axpy_gfni_sse(c, x, y)
    [] tier = "avx512_ssse3" -> axpy_avx512_ssse3(c, x, y)
    [] tier = "avx2_ssse3"   -> axpy_avx2_ssse3(c, x, y)
    [] tier = "ssse3"        -> axpy_ssse3(c, x, y)
    [] tier = "neon"         -> axpy_neon(c)
    [] tier = "wasm"         -> axpy_wasm
    [] OTHER                 -> <<>>

ScaleKernel(tier, c, x, y) ==
  IF c \in {Zero, One} THEN <<>> ELSE
  CASE tier = "gfni_avx512"  -> scale_gfni_avx512(x, y)
    [] tier = "gfni_avx2"    -> scale_gfni_avx2(x, y)
    [] tier = "gfni_sse"     -> scale_gfni_sse(x, y)
    [] tier = "avx512_ssse3" -> scale_avx512_ssse3(x, y)
    [] tier = "avx2_ssse3"   -> scale_avx2_ssse3(x, y)
    [] tier = "ssse3"        -> scale_ssse3(x, y)
    [] tier = "neon"         -> scale_neon
    [] tier = "wasm"         -> scale_wasm
    [] OTHER                 -> <<>>

ScaleInplaceKernel(tier, c, y) ==
  IF c \in {Zero, One} THEN <<>> ELSE
  CASE tier = "gfni_avx512"  -> scale_inplace_gfni_avx512(y)
    [] tier = "gfni_avx2"    -> scale_inplace_gfni_avx2
    [] tier = "gfni_sse"     -> scale_inplace_gfni_sse
    [] tier = "avx512_ssse3" -> scale_inplace_avx512_ssse3
    [] tier = "avx2_ssse3"   -> scale_inplace_avx2_ssse3
    [] tier = "ssse3"        -> scale_inplace_ssse3
    [] tier = "neon"         -> scale_inplace_neon
    [] tier = "wasm"         -> scale_inplace_wasm
    [] OTHER                 -> <<>>

FusedTiers == {"gfni_avx512", "gfni_avx2", "gfni_sse"}

AxpyMultiKernel(tier) ==
  CASE tier = "gfni_avx512" -> axpy_multi_gfni_avx512
    [] tier = "gfni_avx2"   -> axpy_multi_gfni_avx2
    [] tier = "gfni_sse"    -> axpy_multi_gfni_sse

(* scalar::dot for the tiers without a kernel of their own. *)
DotKernel(tier) ==
  CASE tier = "gfni_avx512" -> dot_gfni_avx512
    [] tier = "gfni_avx2"   -> dot_gfni_avx2
    [] tier = "gfni_sse"    -> dot_gfni_sse
    [] OTHER                 -> <<>>
=============================================================================
