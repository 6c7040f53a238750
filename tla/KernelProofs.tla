---------------------------- MODULE KernelProofs ----------------------------
(***************************************************************************)
(* Proofs about the kernel API, for every vector width, block size, tier,  *)
(* length and placement of the slices.                                     *)
(***************************************************************************)
EXTENDS Kernel, FiniteSetTheorems, WellFoundedInduction, TLAPS

(***************************************************************************)
(* Two slices overlap, in the arithmetic of ranges_overlap, exactly if     *)
(* they share a byte; an empty slice overlaps nothing.                     *)
(***************************************************************************)
LEMMA OverlapIsSharedByte ==
  ASSUME NEW a \in Slice, NEW b \in Slice
  PROVE  ranges_overlap(a, b) <=> Bytes(a) \cap Bytes(b) # {}
<1>0. a.ptr \in Nat /\ a.len \in Nat /\ b.ptr \in Nat /\ b.len \in Nat
  BY DEF Slice
<1>1. ASSUME ranges_overlap(a, b)
      PROVE  Bytes(a) \cap Bytes(b) # {}
  <2>1. CASE a.ptr <= b.ptr
    <3>1. b.ptr \in Bytes(a) /\ b.ptr \in Bytes(b)
      BY <1>0, <1>1, <2>1 DEF ranges_overlap, Bytes
    <3>2. QED
      BY <3>1
  <2>2. CASE b.ptr < a.ptr
    <3>1. a.ptr \in Bytes(a) /\ a.ptr \in Bytes(b)
      BY <1>0, <1>1, <2>2 DEF ranges_overlap, Bytes
    <3>2. QED
      BY <3>1
  <2>3. QED
    BY <1>0, <2>1, <2>2
<1>2. ASSUME NEW i \in Bytes(a) \cap Bytes(b)
      PROVE  ranges_overlap(a, b)
  BY <1>0, <1>2 DEF ranges_overlap, Bytes
<1>3. QED
  BY <1>1, <1>2

-----------------------------------------------------------------------------
(* What has been checked when a call has got to pc. *)
CheckInv ==
  /\ call \in Calls
  /\ pc \in {"lengths", "overlaps", "dispatch", "kernel", "fused", "dot", "blocks",
             "returned", "panicked"}
  /\ pc \in {"lengths", "overlaps", "dispatch", "panicked"} => mem = Memory
  /\ pc = "overlaps" => LengthsMatch /\ call.op # "dot"
  /\ pc \notin {"lengths", "overlaps", "panicked"} => Legal
  /\ pc = "panicked" => ~Legal

LEMMA ChecksAreExact ==
  ASSUME call \in Calls
  PROVE  /\ ~LengthsMatch => ~Legal
         /\ LengthsMatch /\ call.op = "dot" => Legal
         /\ LengthsMatch /\ call.op # "dot" => (Legal <=> ~SomeOverlap)
<1>1. /\ call.sources \in Seq(Slice)
      /\ Dst \in Slice
  BY KernelAssumption DEF Dst
<1>2. \A s \in DOMAIN call.sources : call.sources[s] \in Slice
  BY <1>1
<1>3. \A s \in DOMAIN call.sources :
        ranges_overlap(call.sources[s], Dst) <=> Bytes(call.sources[s]) \cap Bytes(Dst) # {}
  BY <1>1, <1>2, OverlapIsSharedByte
<1>4. QED
  BY <1>3 DEF Legal, LengthsMatch, SomeOverlap

LEMMA CheckInvStep == CheckInv /\ [Next]_kernelVars => CheckInv'
<1> SUFFICES ASSUME CheckInv, [Next]_kernelVars
             PROVE  CheckInv'
  OBVIOUS
<1> USE DEF CheckInv, Legal, LengthsMatch, Dst
<1>1. CASE LengthsDiffer
  BY <1>1, ChecksAreExact DEF LengthsDiffer, Goto
<1>2. CASE LengthsChecked
  BY <1>2, ChecksAreExact DEF LengthsChecked, Goto
<1>3. CASE Overlap
  BY <1>3, ChecksAreExact DEF Overlap, Goto
<1>4. CASE OverlapsChecked
  BY <1>4, ChecksAreExact DEF OverlapsChecked, Goto
<1>5. CASE CallSingle
  BY <1>5 DEF CallSingle, Enter
<1>6. CASE CallDot \/ CallFused \/ CallBlocked
  BY <1>6 DEF CallDot, CallFused, CallBlocked, Enter, Goto
<1>7. CASE NextSource \/ SkipSource \/ NextBlock \/ BlocksDone
  BY <1>7 DEF NextSource, SkipSource, NextBlock, BlocksDone, Enter, Goto
<1>8. CASE VectorStep \/ DotStep \/ StageDone
  BY <1>8 DEF VectorStep, DotStep, StageDone, Advance, Fits, Running
<1>9. CASE ScalarTail \/ DotTail
  BY <1>9 DEF ScalarTail, DotTail, Running
<1>10. CASE UNCHANGED kernelVars
  BY <1>10 DEF kernelVars
<1>11. QED
  BY <1>1, <1>2, <1>3, <1>4, <1>5, <1>6, <1>7, <1>8, <1>9, <1>10 DEF Next

LEMMA CheckInvariance == Spec => []CheckInv
<1>1. Init => CheckInv
  BY DEF Init, CheckInv
<1>2. QED
  BY <1>1, CheckInvStep, PTL DEF Spec

(***************************************************************************)
(* Whatever is wrong with the arguments of a call, it panics before it has *)
(* changed a byte, and it panics for no other reason.                      *)
(***************************************************************************)
THEOREM ChecksComeFirst == Spec => []ValidBeforeMutation
<1>1. CheckInv => ValidBeforeMutation
  BY DEF CheckInv, ValidBeforeMutation
<1>2. QED
  BY <1>1, CheckInvariance, PTL
-----------------------------------------------------------------------------
(* The plans of the kernels are sequences of steps. *)
Stage == [unroll : Nat \ {0}, vector : Nat \ {0}, aligned : BOOLEAN, loop : BOOLEAN]
Plan == Seq(Stage)

LEMMA Widths == Xmm \in Nat \ {0} /\ Ymm \in Nat \ {0} /\ Zmm \in Nat \ {0}
BY LaneAssumption DEF Xmm, Ymm, Zmm

LEMMA StagePlans ==
  ASSUME NEW u \in Nat \ {0}, NEW v \in Nat \ {0}, NEW al \in BOOLEAN
  PROVE  /\ Unrolled(u, v, al) \in Plan
         /\ Loop(v, al) \in Plan
         /\ Once(v) \in Plan
BY DEF Unrolled, Loop, Once, Stage, Plan

LEMMA Joined == \A p, q \in Plan : p \o q \in Plan
BY DEF Plan

LEMMA KernelPlans ==
  ASSUME NEW t, NEW c, NEW x \in Nat, NEW y \in Nat
  PROVE  /\ AxpyKernel(t, c, x, y) \in Plan
         /\ ScaleKernel(t, c, x, y) \in Plan
         /\ ScaleInplaceKernel(t, c, y) \in Plan
         /\ t \in FusedTiers => AxpyMultiKernel(t) \in Plan
         /\ DotKernel(t) \in Plan
<1>1. \A w \in Nat \ {0}, p, q \in Nat : BothAligned(w, p, q) \in BOOLEAN
  BY DEF BothAligned
<1>2. \A u, v \in Nat \ {0}, al \in BOOLEAN :
        Unrolled(u, v, al) \in Plan /\ Loop(v, al) \in Plan /\ Once(v) \in Plan
  BY StagePlans
<1>3. 4 \in Nat \ {0} /\ FALSE \in BOOLEAN /\ <<>> \in Plan
  BY DEF Plan
<1>4. AxpyKernel(t, c, x, y) \in Plan
  BY <1>1, <1>2, <1>3, Widths, Joined
  DEF AxpyKernel, axpy_gfni_avx512, axpy_gfni_avx512_xor, axpy_gfni_avx2, axpy_gfni_sse,
      axpy_avx512_ssse3, axpy_avx2_ssse3, axpy_ssse3, axpy_neon, axpy_neon_xor, axpy_wasm
<1>5. ScaleKernel(t, c, x, y) \in Plan
  BY <1>1, <1>2, <1>3, Widths, Joined
  DEF ScaleKernel, scale_gfni_avx512, scale_gfni_avx2, scale_gfni_sse,
      scale_avx512_ssse3, scale_avx2_ssse3, scale_ssse3, scale_neon, scale_wasm
<1>6. ScaleInplaceKernel(t, c, y) \in Plan
  BY <1>1, <1>2, <1>3, Widths, Joined
  DEF ScaleInplaceKernel, scale_inplace_gfni_avx512, scale_inplace_gfni_avx2,
      scale_inplace_gfni_sse, scale_inplace_avx512_ssse3, scale_inplace_avx2_ssse3,
      scale_inplace_ssse3, scale_inplace_neon, scale_inplace_wasm
<1>7. t \in FusedTiers => AxpyMultiKernel(t) \in Plan
  BY <1>1, <1>2, <1>3, Widths, Joined
  DEF FusedTiers, AxpyMultiKernel, axpy_multi_gfni_avx512, axpy_multi_gfni_avx2, axpy_multi_gfni_sse
<1>8. DotKernel(t) \in Plan
  BY <1>1, <1>2, <1>3, Widths, Joined
  DEF DotKernel, dot_gfni_avx512, dot_gfni_avx2, dot_gfni_sse
<1>9. QED
  BY <1>4, <1>5, <1>6, <1>7, <1>8
-----------------------------------------------------------------------------
(* Where a call is in its blocks, its sources and its slice. *)
BoundsInv ==
  /\ off \in Nat /\ k \in Nat \ {0} /\ pos \in Nat /\ plan \in Plan
  /\ pc \in {"fused", "blocks"} => call.op = "axpy_multi"
  /\ pc = "dot" <=> call.op = "dot" /\ pc \in {"kernel", "fused", "dot", "blocks"}
  /\ call.op # "axpy_multi" \/ pc \in {"lengths", "overlaps", "dispatch", "fused"} =>
       off = 0 /\ k = 1
  /\ pc = "kernel" /\ call.op = "axpy_multi" => off < Dst.len /\ k <= Len(call.coeffs)
  /\ Running => pos <= Extent

LEMMA CallTypes ==
  ASSUME call \in Calls
  PROVE  /\ Dst \in Slice /\ Dst.ptr \in Nat /\ Dst.len \in Nat
         /\ call.op \in Ops
         /\ \A s \in DOMAIN call.sources :
              /\ call.sources[s] \in Slice
              /\ call.sources[s].ptr \in Nat /\ call.sources[s].len \in Nat
         /\ call.op \in {"axpy", "scale", "dot"} => 1 \in DOMAIN call.sources
         /\ Legal /\ call.op = "axpy_multi" => DOMAIN call.coeffs = DOMAIN call.sources
         /\ Len(call.coeffs) \in Nat /\ DOMAIN call.coeffs = 1..Len(call.coeffs)
<1>1. /\ call.op \in Ops
      /\ Dst \in Slice
      /\ call.sources \in Seq(Slice) /\ call.coeffs \in Seq(Elem)
      /\ call.op # "axpy_multi" => Len(call.sources) = IF call.op = "scale_inplace" THEN 0 ELSE 1
  BY KernelAssumption DEF Dst
<1>2. \A s \in Slice : s.ptr \in Nat /\ s.len \in Nat
  BY DEF Slice
<1>3. \A s \in DOMAIN call.sources : call.sources[s] \in Slice
  BY <1>1
<1>4. DOMAIN call.sources = 1..Len(call.sources) /\ DOMAIN call.coeffs = 1..Len(call.coeffs)
  BY <1>1
<1>5. QED
  BY <1>1, <1>2, <1>3, <1>4 DEF Legal

LEMMA EndOfBlock ==
  ASSUME off \in Nat, Dst.len \in Nat, off < Dst.len
  PROVE  BlockEnd \in Nat /\ off < BlockEnd /\ BlockEnd <= Dst.len
BY KernelAssumption DEF BlockEnd, Smaller

LEMMA Heads ==
  ASSUME plan \in Plan, plan # <<>>
  PROVE  /\ Tail(plan) \in Plan
         /\ Head(plan).unroll \in Nat \ {0} /\ Head(plan).vector \in Nat \ {0}
         /\ Span(Head(plan)) \in Nat \ {0}
<1>1. Tail(plan) \in Plan /\ Head(plan) \in Stage
  BY DEF Plan
<1>2. \A m, n \in Nat \ {0} : m * n \in Nat \ {0}
  OBVIOUS
<1>3. QED
  BY <1>1, <1>2 DEF Stage, Span

LEMMA BoundsInvStep ==
  ASSUME CheckInv, CheckInv', BoundsInv, [Next]_kernelVars
  PROVE  BoundsInv'
<1> USE CallTypes DEF CheckInv, BoundsInv, Dst
<1>1. CASE LengthsDiffer \/ LengthsChecked \/ Overlap \/ OverlapsChecked
  BY <1>1 DEF LengthsDiffer, LengthsChecked, Overlap, OverlapsChecked, Goto, Running
<1>2. CASE CallSingle
  <2>1. /\ off = 0 /\ k = 1
        /\ call.op \in {"axpy", "scale", "scale_inplace"}
        /\ pc' = "kernel" /\ pos' = 0 /\ UNCHANGED <<call, off, k>>
    BY <1>2 DEF CallSingle, Enter
  <2>2. Dst.ptr \in Nat /\ Dst.len \in Nat
        /\ (call.op \in {"axpy", "scale"} => Src.ptr \in Nat)
    BY <2>1 DEF Src
  <2>3. \/ plan' = AxpyKernel(tier, Coeff, Src.ptr, Dst.ptr) /\ call.op = "axpy"
        \/ plan' = ScaleKernel(tier, Coeff, Src.ptr, Dst.ptr) /\ call.op = "scale"
        \/ plan' = ScaleInplaceKernel(tier, Coeff, Dst.ptr)
    BY <1>2 DEF CallSingle, Enter
  <2>4. plan' \in Plan
    <3>1. \A t, c : \A x, y \in Nat : /\ AxpyKernel(t, c, x, y) \in Plan
                                    /\ ScaleKernel(t, c, x, y) \in Plan
                                    /\ ScaleInplaceKernel(t, c, x) \in Plan
      BY KernelPlans
    <3>2. CASE plan' = AxpyKernel(tier, Coeff, Src.ptr, Dst.ptr) /\ call.op = "axpy"
      BY ONLY <2>2, <3>1, <3>2
    <3>3. CASE plan' = ScaleKernel(tier, Coeff, Src.ptr, Dst.ptr) /\ call.op = "scale"
      BY ONLY <2>2, <3>1, <3>3
    <3>4. CASE plan' = ScaleInplaceKernel(tier, Coeff, Dst.ptr)
      BY ONLY <2>2, <3>1, <3>4
    <3>5. QED
      BY ONLY <2>3, <3>2, <3>3, <3>4
  <2>5. QED
    BY <2>1, <2>2, <2>4 DEF Extent, Running
<1>3. CASE CallDot
  <2>1. /\ off = 0 /\ k = 1 /\ call.op = "dot" /\ Dst.len \in Nat
        /\ pc' = "dot" /\ pos' = 0 /\ plan' = DotKernel(tier) /\ UNCHANGED <<call, off, k>>
    BY <1>3 DEF CallDot, Enter
  <2>2. plan' \in Plan
    BY <2>1, KernelPlans, 0 \in Nat
  <2>3. QED
    BY <2>1, <2>2 DEF Extent, Running
<1>4. CASE CallFused
  <2>1. /\ off = 0 /\ k = 1 /\ call.op = "axpy_multi" /\ Dst.len \in Nat /\ tier \in FusedTiers
        /\ pc' = "fused" /\ pos' = 0 /\ plan' = AxpyMultiKernel(tier)
        /\ UNCHANGED <<call, off, k>>
    BY <1>4 DEF CallFused, Fuses, Enter
  <2>2. plan' \in Plan
    BY <2>1, KernelPlans, 0 \in Nat
  <2>3. QED
    BY <2>1, <2>2 DEF Extent, Running
<1>5. CASE CallBlocked \/ BlocksDone
  BY <1>5 DEF CallBlocked, BlocksDone, Goto, Running
<1>6. CASE NextSource
  <2>1. /\ call.op = "axpy_multi" /\ off < Dst.len /\ k <= Len(call.coeffs)
        /\ pc' = "kernel" /\ pos' = 0 /\ UNCHANGED <<call, off, k>>
    BY <1>6 DEF NextSource, Enter
  <2>2. Src.ptr \in Nat
    BY <1>6, <2>1 DEF Src, NextSource
  <2>3. plan' \in Plan
    BY <1>6, <2>2, KernelPlans DEF NextSource, Enter
  <2>4. BlockEnd - off \in Nat
    BY <2>1, EndOfBlock
  <2>5. QED
    BY <2>1, <2>3, <2>4 DEF Extent, Running, BlockEnd
<1>7. CASE SkipSource
  BY <1>7 DEF SkipSource, Running
<1>8. CASE NextBlock
  BY <1>8, EndOfBlock DEF NextBlock, Running
<1>9. CASE VectorStep \/ DotStep
  <2>1. /\ Running /\ plan # <<>> /\ pos + Span(Head(plan)) <= Extent
        /\ pos' = pos + Span(Head(plan)) /\ plan' \in {plan, Tail(plan)}
        /\ UNCHANGED <<pc, call, off, k>>
    BY <1>9 DEF VectorStep, DotStep, Fits, Advance
  <2>2. Span(Head(plan)) \in Nat /\ Tail(plan) \in Plan
    BY <2>1, Heads
  <2>3. pos' \in Nat /\ plan' \in Plan
    <3>1. pos \in Nat /\ plan \in Plan
      OBVIOUS
    <3>2. pos' \in Nat
      BY ONLY <2>1, <2>2, <3>1
    <3>3. plan' = plan \/ plan' = Tail(plan)
      BY ONLY <2>1
    <3>4. QED
      BY ONLY <2>2, <3>1, <3>2, <3>3
  <2>4. Extent' = Extent
    BY <2>1 DEF Extent, BlockEnd
  <2>5. QED
    BY <2>1, <2>3, <2>4 DEF Running
<1>10. CASE StageDone
  <2>1. plan # <<>> /\ plan' = Tail(plan) /\ UNCHANGED <<pc, call, off, k, pos>>
    BY <1>10 DEF StageDone
  <2>2. Extent' = Extent
    BY <2>1 DEF Extent, BlockEnd
  <2>3. QED
    BY <2>1, <2>2, Heads DEF Running
<1>11. CASE ScalarTail
  BY <1>11 DEF ScalarTail, Running
<1>12. CASE DotTail
  BY <1>12 DEF DotTail, Running
<1>13. CASE UNCHANGED kernelVars
  BY <1>13 DEF kernelVars, Running, Extent, BlockEnd
<1>14. QED
  BY <1>1, <1>2, <1>3, <1>4, <1>5, <1>6, <1>7, <1>8, <1>9, <1>10, <1>11, <1>12, <1>13
  DEF Next

LEMMA BoundsInvariance == Spec => [](CheckInv /\ BoundsInv)
<1>1. Init => BoundsInv
  BY DEF Init, BoundsInv, Plan, Running
<1>2. QED
  BY <1>1, CheckInvariance, BoundsInvStep, PTL DEF Spec

-----------------------------------------------------------------------------
(* A kernel with one source has computed y up to where it is, and nothing  *)
(* else; every byte it has still to read is as the caller left it.         *)
Single == call.op \in {"axpy", "scale", "scale_inplace"}

Upto(n) == [a \in Address |->
              IF a - Dst.ptr \in 0..(n - 1) THEN Reference(a - Dst.ptr) ELSE Memory[a]]

ValuesInv ==
  /\ Single /\ pc = "kernel" => mem = Upto(pos)
  /\ Single /\ pc = "returned" => mem = Upto(Dst.len)

LEMMA NewByteIsReference ==
  ASSUME CheckInv, BoundsInv, Single, pc = "kernel", mem = Upto(pos),
         NEW j \in pos..(Dst.len - 1)
  PROVE  NewByte(j) = Reference(j)
<1>1. /\ Dst.ptr \in Nat /\ Dst.len \in Nat /\ pos \in Nat /\ j \in Nat
      /\ off = 0 /\ k = 1 /\ Legal /\ call \in Calls
  BY CallTypes DEF CheckInv, BoundsInv, Single
<1>2. ASSUME NEW a \in Address, a - Dst.ptr \notin 0..(pos - 1)
      PROVE  mem[a] = Memory[a]
  BY <1>2 DEF Upto
<1>3. Bytes(Dst) \subseteq Address
  BY <1>1, KernelAssumption DEF Dst
<1>4. mem[Dst.ptr + j] = Memory[Dst.ptr + j]
  <2>1. Dst.ptr + j \in Bytes(Dst)
    BY <1>1 DEF Bytes
  <2>2. QED
    BY <1>1, <1>2, <1>3, <2>1
<1>5. CASE call.op \in {"axpy", "scale"}
  <2>1. /\ 1 \in DOMAIN call.sources
        /\ Src.ptr \in Nat /\ Src.len = Dst.len
        /\ Bytes(Src) \cap Bytes(Dst) = {}
    BY <1>1, <1>5, CallTypes DEF Src, Legal
  <2>2. Bytes(Src) \subseteq Address
    BY <1>1, <2>1, KernelAssumption DEF Src
  <2>3. Src.ptr + j \in Bytes(Src)
    BY <1>1, <2>1 DEF Bytes
  <2>4. (Src.ptr + j) - Dst.ptr \notin 0..(pos - 1)
    BY <1>1, <2>1, <2>3 DEF Bytes
  <2>5. mem[Src.ptr + j] = Memory[Src.ptr + j]
    BY <1>2, <2>2, <2>3, <2>4
  <2>6. QED
    BY <1>1, <1>4, <1>5, <2>5 DEF NewByte, Reference, Src, Coeff
<1>6. CASE call.op = "scale_inplace"
  BY <1>1, <1>4, <1>6 DEF NewByte, Reference, Coeff
<1>7. QED
  BY <1>5, <1>6 DEF Single

LEMMA WriteExtends ==
  ASSUME CheckInv, BoundsInv, Single, pc = "kernel", mem = Upto(pos), UNCHANGED call,
         NEW count \in Nat, pos + count <= Dst.len, Write(off + pos, count)
  PROVE  mem' = Upto(pos + count)
<1>1. /\ Dst.ptr \in Nat /\ Dst.len \in Nat /\ pos \in Nat /\ off = 0
      /\ Address \subseteq Nat
  BY CallTypes, KernelAssumption DEF CheckInv, BoundsInv, Single
<1>2. mem' = [a \in Address |-> IF a - Dst.ptr \in pos..(pos + count - 1)
                                THEN NewByte(a - Dst.ptr) ELSE mem[a]]
  BY <1>1 DEF Write
<1>3. ASSUME NEW a \in Address
      PROVE  mem'[a] = IF a - Dst.ptr \in 0..(pos + count - 1)
                       THEN Reference(a - Dst.ptr) ELSE Memory[a]
  <2>1. CASE a - Dst.ptr \in pos..(pos + count - 1)
    <3>1. mem'[a] = NewByte(a - Dst.ptr)
      BY <1>2, <2>1
    <3>2. a - Dst.ptr \in pos..(Dst.len - 1)
      BY <1>1, <2>1
    <3>3. a - Dst.ptr \in 0..(pos + count - 1)
      BY <1>1, <2>1
    <3>4. QED
      BY <3>1, <3>2, <3>3, NewByteIsReference
  <2>2. CASE a - Dst.ptr \notin pos..(pos + count - 1)
    <3>1. mem'[a] = IF a - Dst.ptr \in 0..(pos - 1) THEN Reference(a - Dst.ptr) ELSE Memory[a]
      BY <1>2, <2>2 DEF Upto
    <3>2. a - Dst.ptr \in 0..(pos - 1) <=> a - Dst.ptr \in 0..(pos + count - 1)
      BY <1>1, <2>2
    <3>3. QED
      BY <3>1, <3>2
  <2>3. QED
    BY <2>1, <2>2
<1>4. \A a \in Address : mem'[a] = Upto(pos + count)[a]
  BY <1>1, <1>3 DEF Upto
<1>5. mem' = [a \in Address |-> mem'[a]]
  BY ONLY <1>2
<1>6. Upto(pos + count) = [a \in Address |-> Upto(pos + count)[a]]
  BY DEF Upto
<1>7. QED
  BY ONLY <1>4, <1>5, <1>6

LEMMA ValuesInvStep ==
  ASSUME CheckInv, BoundsInv, BoundsInv', ValuesInv, [Next]_kernelVars
  PROVE  ValuesInv'
<1>1. SUFFICES ASSUME Single'
               PROVE  /\ pc' = "kernel" => mem' = Upto(pos)'
                      /\ pc' = "returned" => mem' = Upto(Dst.len)'
  BY DEF ValuesInv
<1>2. /\ Single /\ UNCHANGED call
      /\ Dst.ptr \in Nat /\ Dst.len \in Nat /\ pos \in Nat
      /\ pc \notin {"dot", "fused", "blocks"} /\ off = 0 /\ k = 1
  <2>1. UNCHANGED call
    BY DEF Next, kernelVars, LengthsDiffer, LengthsChecked, Overlap, OverlapsChecked, CallSingle,
           CallDot, CallFused, CallBlocked, NextSource, SkipSource, NextBlock, BlocksDone,
           VectorStep, DotStep, StageDone, ScalarTail, DotTail, Goto, Enter, Advance
  <2>2. QED
    BY <1>1, <2>1, CallTypes DEF Single, CheckInv, BoundsInv
<1>3. CASE LengthsDiffer \/ LengthsChecked \/ Overlap \/ OverlapsChecked
  BY <1>2, <1>3 DEF LengthsDiffer, LengthsChecked, Overlap, OverlapsChecked, Goto
<1>4. CASE CallSingle
  <2>1. pc' = "kernel" /\ pos' = 0 /\ mem' = Memory
    BY <1>4 DEF CallSingle, Enter, CheckInv
  <2>2. Memory = [a \in Address |-> Memory[a]]
    BY KernelAssumption
  <2>3. \A a \in Address : a - Dst.ptr \notin 0..(0 - 1)
    BY <1>2
  <2>4. mem' = Upto(pos)'
    BY <1>2, <2>1, <2>2, <2>3 DEF Upto, Dst
  <2>5. QED
    BY <2>1, <2>4
<1>5. CASE CallDot \/ CallFused \/ CallBlocked
  BY <1>2, <1>5 DEF Single, CallDot, CallFused, CallBlocked
<1>6. CASE NextSource \/ SkipSource \/ NextBlock \/ BlocksDone \/ DotStep \/ DotTail
  BY <1>2, <1>6 DEF NextSource, SkipSource, NextBlock, BlocksDone, DotStep, DotTail, Fits
<1>7. CASE VectorStep
  <2>1. /\ pc = "kernel" /\ plan # <<>> /\ pc' = "kernel"
        /\ pos + Span(Head(plan)) <= Extent /\ pos' = pos + Span(Head(plan))
        /\ Write(off + pos, Span(Head(plan)))
    BY <1>2, <1>7 DEF VectorStep, Fits, Running, Advance
  <2>2. Extent = Dst.len /\ Span(Head(plan)) \in Nat
    BY <1>2, <2>1, Heads DEF Extent, Single, BoundsInv
  <2>3. mem = Upto(pos)
    BY <1>2, <2>1 DEF ValuesInv
  <2>4. mem' = Upto(pos + Span(Head(plan)))
    BY <1>2, <2>1, <2>2, <2>3, WriteExtends
  <2>5. Upto(pos)' = Upto(pos + Span(Head(plan)))
    BY <1>2, <2>1 DEF Upto, Dst, Reference
  <2>6. QED
    BY <2>1, <2>4, <2>5
<1>8. CASE StageDone
  BY <1>2, <1>8 DEF StageDone, Upto, Dst, Reference, ValuesInv
<1>9. CASE ScalarTail
  <2>1. /\ pc = "kernel" /\ pc' = "returned" /\ Extent = Dst.len /\ pos <= Extent
        /\ Write(off + pos, Extent - pos)
    BY <1>2, <1>9 DEF ScalarTail, Running, Extent, Single, BoundsInv
  <2>2. Dst.len - pos \in Nat /\ pos + (Dst.len - pos) = Dst.len
    BY <1>2, <2>1
  <2>3. mem = Upto(pos)
    BY <1>2, <2>1 DEF ValuesInv
  <2>4. mem' = Upto(pos + (Dst.len - pos))
    BY <1>2, <2>1, <2>2, <2>3, WriteExtends
  <2>5. Upto(Dst.len)' = Upto(Dst.len)
    BY <1>2 DEF Upto, Dst, Reference
  <2>6. QED
    BY <2>1, <2>2, <2>4, <2>5
<1>10. CASE UNCHANGED kernelVars
  BY <1>2, <1>10 DEF kernelVars, Upto, Dst, Reference, ValuesInv
<1>11. QED
  BY <1>3, <1>4, <1>5, <1>6, <1>7, <1>8, <1>9, <1>10 DEF Next

(***************************************************************************)
(* axpy, scale and scale_inplace: whatever the tier, the vector widths,    *)
(* the length and where the slices lie, the loops and the tail of the      *)
(* kernel compute every byte of y exactly once, from the bytes the caller  *)
(* passed, and leave every other byte of memory alone.                     *)
(***************************************************************************)
THEOREM SingleKernelsAreReference == Spec => []SingleIsReference
<1>1. CheckInv /\ BoundsInv /\ ValuesInv => SingleIsReference
  <2> SUFFICES ASSUME CheckInv, BoundsInv, ValuesInv, Single, pc = "returned"
               PROVE  mem = [a \in Address |-> IF a \in Bytes(Dst)
                                               THEN Reference(a - Dst.ptr) ELSE Memory[a]]
    BY DEF SingleIsReference, Single
  <2>1. mem = Upto(Dst.len) /\ Dst.ptr \in Nat /\ Dst.len \in Nat /\ Address \subseteq Nat
    BY CallTypes, KernelAssumption DEF ValuesInv, CheckInv
  <2>2. \A a \in Address : a \in Bytes(Dst) <=> a - Dst.ptr \in 0..(Dst.len - 1)
    BY <2>1 DEF Bytes
  <2>3. QED
    BY <2>1, <2>2 DEF Upto
<1>2. Init => ValuesInv
  BY DEF Init, ValuesInv
<1>3. QED
  BY <1>1, <1>2, BoundsInvariance, ValuesInvStep, PTL DEF Spec

-----------------------------------------------------------------------------
(* Multiples of a vector.                                                  *)
LEMMA MultiplePlusVectors ==
  ASSUME NEW v \in Nat \ {0}, NEW x \in Nat, NEW u \in Nat, x % v = 0
  PROVE  (x + u * v) % v = 0
<1>1. x = v * (x \div v) /\ x \div v \in Nat
  OBVIOUS
<1>2. PICK q \in Nat : x = v * q
  BY <1>1
<1>3. \A m \in Nat : (v * m) % v = 0
  OBVIOUS
<1>4. \A m, n \in Nat : v * m + n * v = v * (m + n)
  OBVIOUS
<1>5. QED
  BY <1>2, <1>3, <1>4

(* All steps of p that demand aligned addresses are of w bytes, as are the *)
(* steps before them, and x and y are aligned for them.                    *)
AlignedBy(p, w, x, y) ==
  \A i \in DOMAIN p : p[i].aligned =>
    /\ x % w = 0 /\ y % w = 0
    /\ \A j \in 1..i : p[j].vector = w

Never(p) == \A i \in DOMAIN p : ~p[i].aligned

LEMMA NeverAligned ==
  /\ Never(<<>>)
  /\ \A v \in Nat \ {0} : Never(Loop(v, FALSE)) /\ Never(Once(v))
  /\ \A u, v \in Nat \ {0} : Never(Unrolled(u, v, FALSE))
  /\ \A p, q \in Plan : Never(p) /\ Never(q) => Never(p \o q)
  /\ \A p, w, x, y : Never(p) => AlignedBy(p, w, x, y)
BY DEF Never, Loop, Once, Unrolled, Plan, AlignedBy

LEMMA AlignedLoops ==
  ASSUME NEW w \in Nat \ {0}, NEW x \in Nat, NEW y \in Nat,
         NEW al \in BOOLEAN, al => BothAligned(w, x, y)
  PROVE  /\ AlignedBy(Loop(w, al), w, x, y)
         /\ AlignedBy(Unrolled(4, w, al) \o Loop(w, al), w, x, y)
<1>1. AlignedBy(Loop(w, al), w, x, y)
  <2> DEFINE b == [unroll |-> 1, vector |-> w, aligned |-> al, loop |-> TRUE]
  <2>1. Loop(w, al) = <<b>> /\ b.vector = w /\ b.aligned = al
    BY DEF Loop, Unrolled
  <2> HIDE DEF b
  <2>2. AlignedBy(<<b>>, w, x, y)
    BY <2>1 DEF AlignedBy, BothAligned
  <2>3. QED
    BY <2>1, <2>2
<1>2. ASSUME NEW a \in Stage, NEW b \in Stage
      PROVE  LET s == <<a>> \o <<b>>
             IN  DOMAIN s = 1..2 /\ s[1] = a /\ s[2] = b
  OBVIOUS
<1>3. AlignedBy(Unrolled(4, w, al) \o Loop(w, al), w, x, y)
  <2> DEFINE a == [unroll |-> 4, vector |-> w, aligned |-> al, loop |-> TRUE]
             b == [unroll |-> 1, vector |-> w, aligned |-> al, loop |-> TRUE]
  <2>1. Unrolled(4, w, al) \o Loop(w, al) = <<a>> \o <<b>>
    BY DEF Loop, Unrolled
  <2>2. /\ a \in Stage /\ a.vector = w /\ a.aligned = al
        /\ b \in Stage /\ b.vector = w /\ b.aligned = al
    BY DEF Stage
  <2> HIDE DEF a, b
  <2> DEFINE s == <<a>> \o <<b>>
  <2>3. DOMAIN s = 1..2 /\ s[1] = a /\ s[2] = b
    BY <1>2, <2>2
  <2> HIDE DEF s
  <2>4. AlignedBy(s, w, x, y)
    <3>1. SUFFICES ASSUME al
                   PROVE  \A j \in 1..2 : s[j].vector = w
      BY <2>2, <2>3 DEF AlignedBy, BothAligned
    <3>2. QED
      BY <2>2, <2>3
  <2>5. QED
    BY <2>1, <2>4 DEF s
<1>4. QED
  BY <1>1, <1>3

LEMMA AlignedThenNot ==
  ASSUME NEW p \in Plan, NEW q \in Plan, NEW w, NEW x, NEW y, AlignedBy(p, w, x, y), Never(q)
  PROVE  AlignedBy(p \o q, w, x, y)
<1> SUFFICES ASSUME NEW i \in DOMAIN (p \o q), (p \o q)[i].aligned
             PROVE  x % w = 0 /\ y % w = 0 /\ \A j \in 1..i : (p \o q)[j].vector = w
  BY DEF AlignedBy
<1>1. /\ DOMAIN p = 1..Len(p) /\ DOMAIN q = 1..Len(q) /\ Len(p) \in Nat /\ Len(q) \in Nat
      /\ DOMAIN (p \o q) = 1..(Len(p) + Len(q))
      /\ \A j \in 1..(Len(p) + Len(q)) : (p \o q)[j] = IF j <= Len(p) THEN p[j] ELSE q[j - Len(p)]
  BY DEF Plan
<1>2. i <= Len(p)
  BY <1>1 DEF Never
<1>3. QED
  BY <1>1, <1>2 DEF AlignedBy

(* Every kernel takes the aligned path only when both slices allow it, and *)
(* never after a step that could lose the alignment.                       *)
LEMMA AlignedKernels ==
  ASSUME NEW t, NEW c, NEW x \in Nat, NEW y \in Nat
  PROVE  /\ \E w \in Nat \ {0} : AlignedBy(AxpyKernel(t, c, x, y), w, x, y)
         /\ \E w \in Nat \ {0} : AlignedBy(ScaleKernel(t, c, x, y), w, x, y)
         /\ \E w \in Nat \ {0} : AlignedBy(ScaleInplaceKernel(t, c, y), w, y, y)
         /\ t \in FusedTiers => Never(AxpyMultiKernel(t))
         /\ Never(DotKernel(t))
<1>1. \A w \in Nat \ {0}, p, q \in Nat : BothAligned(w, p, q) \in BOOLEAN
  BY DEF BothAligned
<1>2. \A u, v \in Nat \ {0}, al \in BOOLEAN :
        Unrolled(u, v, al) \in Plan /\ Loop(v, al) \in Plan /\ Once(v) \in Plan
  BY StagePlans
<1>3. 4 \in Nat \ {0} /\ FALSE \in BOOLEAN /\ <<>> \in Plan
  BY DEF Plan
<1>4. \A w \in Nat \ {0}, p, q \in Nat :
        /\ \A b \in BOOLEAN : AlignedBy(Loop(w, b /\ BothAligned(w, p, q)), w, p, q)
        /\ AlignedBy(Loop(w, BothAligned(w, p, q)), w, p, q)
        /\ AlignedBy(Unrolled(4, w, BothAligned(w, p, q)) \o Loop(w, BothAligned(w, p, q)), w, p, q)
  BY <1>1, AlignedLoops
<1>5. Never(AxpyMultiKernel(t)) \/ t \notin FusedTiers
  BY <1>2, <1>3, Widths, Joined, NeverAligned
  DEF FusedTiers, AxpyMultiKernel, axpy_multi_gfni_avx512, axpy_multi_gfni_avx2, axpy_multi_gfni_sse
<1>6. Never(DotKernel(t))
  BY <1>2, <1>3, Widths, Joined, NeverAligned
  DEF DotKernel, dot_gfni_avx512, dot_gfni_avx2, dot_gfni_sse
<1>7. \A p, q \in Plan : \A w, xx, yy : AlignedBy(p, w, xx, yy) /\ Never(q) => AlignedBy(p \o q, w, xx, yy)
  BY AlignedThenNot
<1>8. \E w \in Nat \ {0} : AlignedBy(ScaleKernel(t, c, x, y), w, x, y)
  BY <1>1, <1>2, <1>3, <1>4, <1>7, Widths, Joined, NeverAligned
  DEF ScaleKernel, scale_gfni_avx512, scale_gfni_avx2, scale_gfni_sse,
      scale_avx512_ssse3, scale_avx2_ssse3, scale_ssse3, scale_neon, scale_wasm
<1>9. \E w \in Nat \ {0} : AlignedBy(ScaleInplaceKernel(t, c, y), w, y, y)
  BY <1>1, <1>2, <1>3, <1>4, <1>7, Widths, Joined, NeverAligned
  DEF ScaleInplaceKernel, scale_inplace_gfni_avx512, scale_inplace_gfni_avx2,
      scale_inplace_gfni_sse, scale_inplace_avx512_ssse3, scale_inplace_avx2_ssse3,
      scale_inplace_ssse3, scale_inplace_neon, scale_inplace_wasm
<1>10. \E w \in Nat \ {0} : AlignedBy(AxpyKernel(t, c, x, y), w, x, y)
  BY <1>1, <1>2, <1>3, <1>4, <1>7, Widths, Joined, NeverAligned
  DEF AxpyKernel, axpy_gfni_avx512, axpy_gfni_avx512_xor, axpy_gfni_avx2, axpy_gfni_sse,
      axpy_avx512_ssse3, axpy_avx2_ssse3, axpy_ssse3, axpy_neon, axpy_neon_xor, axpy_wasm
<1>11. QED
  BY <1>5, <1>6, <1>8, <1>9, <1>10

LEMMA AlignedTail ==
  ASSUME NEW p \in Plan, p # <<>>, NEW w, NEW x, NEW y, AlignedBy(p, w, x, y)
  PROVE  AlignedBy(Tail(p), w, x, y)
<1>1. /\ Len(p) \in Nat \ {0} /\ DOMAIN Tail(p) = 1..(Len(p) - 1)
      /\ DOMAIN p = 1..Len(p)
      /\ \A i \in 1..(Len(p) - 1) : Tail(p)[i] = p[i + 1]
  BY DEF Plan
<1> SUFFICES ASSUME NEW i \in 1..(Len(p) - 1), p[i + 1].aligned
             PROVE  x % w = 0 /\ y % w = 0 /\ \A j \in 1..i : Tail(p)[j].vector = w
  BY <1>1 DEF AlignedBy
<1>2. x % w = 0 /\ y % w = 0 /\ \A j \in 1..(i + 1) : p[j].vector = w
  BY <1>1 DEF AlignedBy
<1>3. QED
  BY <1>1, <1>2

LEMMA NeverTail ==
  ASSUME NEW p \in Plan, p # <<>>, Never(p)
  PROVE  Never(Tail(p))
<1>1. /\ Len(p) \in Nat \ {0} /\ DOMAIN Tail(p) = 1..(Len(p) - 1)
      /\ DOMAIN p = 1..Len(p)
      /\ \A i \in 1..(Len(p) - 1) : Tail(p)[i] = p[i + 1]
  BY DEF Plan
<1>2. QED
  BY <1>1 DEF Never

LEMMA AlignedAfterStep ==
  ASSUME NEW p \in Plan, p # <<>>, NEW w \in Nat \ {0}, NEW x \in Nat, NEW y \in Nat,
         AlignedBy(p, w, x, y)
  PROVE  AlignedBy(p, w, x + Span(Head(p)), y + Span(Head(p)))
<1> SUFFICES ASSUME NEW i \in DOMAIN p, p[i].aligned
             PROVE  /\ (x + Span(Head(p))) % w = 0 /\ (y + Span(Head(p))) % w = 0
                    /\ \A j \in 1..i : p[j].vector = w
  BY DEF AlignedBy
<1>1. x % w = 0 /\ y % w = 0 /\ \A j \in 1..i : p[j].vector = w
  BY DEF AlignedBy
<1>2. Head(p) = p[1] /\ 1 \in 1..i /\ Head(p) \in Stage
  BY DEF Plan
<1>3. Span(Head(p)) = Head(p).unroll * w /\ Head(p).unroll \in Nat
  BY <1>1, <1>2 DEF Span, Stage
<1>4. \A z \in Nat : z % w = 0 => (z + Head(p).unroll * w) % w = 0
  BY <1>3, MultiplePlusVectors
<1>5. QED
  BY <1>1, <1>3, <1>4

(* The running kernel is aligned for the steps it has left.                *)
First == IF call.op = "scale_inplace" THEN Dst ELSE Src

AlignInv ==
  /\ pc \in {"fused", "dot"} => Never(plan)
  /\ pc = "kernel" => \E w \in Nat \ {0} :
       AlignedBy(plan, w, First.ptr + off + pos, Dst.ptr + off + pos)

LEMMA FirstType ==
  ASSUME CheckInv, BoundsInv, pc = "kernel"
  PROVE  /\ First.ptr \in Nat /\ Dst.ptr \in Nat /\ off \in Nat /\ pos \in Nat
         /\ call.op # "scale_inplace" => k \in DOMAIN call.sources
<1>1. call \in Calls /\ Legal /\ k \in Nat \ {0}
  BY DEF CheckInv, BoundsInv
<1>2. call.op \in Ops /\ call.op # "dot"
  BY <1>1, CallTypes DEF BoundsInv
<1>3. CASE call.op = "scale_inplace"
  BY <1>1, <1>3, CallTypes DEF First, BoundsInv
<1>4. CASE call.op = "axpy_multi"
  BY <1>1, <1>4, CallTypes DEF First, Src, BoundsInv
<1>5. CASE call.op \in {"axpy", "scale"}
  BY <1>1, <1>5, CallTypes DEF First, Src, BoundsInv
<1>6. QED
  BY <1>2, <1>3, <1>4, <1>5 DEF Ops

LEMMA AlignInvStep ==
  ASSUME CheckInv, BoundsInv, BoundsInv', AlignInv, [Next]_kernelVars
  PROVE  AlignInv'
<1>1. CASE LengthsDiffer \/ LengthsChecked \/ Overlap \/ OverlapsChecked
  BY <1>1 DEF LengthsDiffer, LengthsChecked, Overlap, OverlapsChecked, Goto, AlignInv
<1>2. CASE CallSingle
  <2>1. /\ call \in Calls /\ off = 0 /\ k = 1 /\ Dst.ptr \in Nat
        /\ pc' = "kernel" /\ pos' = 0 /\ UNCHANGED <<call, off, k>>
        /\ call.op \in {"axpy", "scale", "scale_inplace"}
    BY <1>2, CallTypes DEF CallSingle, Enter, CheckInv, BoundsInv
  <2>2. First.ptr \in Nat /\ First' = First /\ Dst' = Dst
    BY <2>1, CallTypes DEF First, Src, Dst
  <2>3. First.ptr + off + pos' = First.ptr /\ Dst.ptr + off + pos' = Dst.ptr
    BY <2>1, <2>2
  <2>4. \E w \in Nat \ {0} : AlignedBy(plan', w, First.ptr, Dst.ptr)
    <3>1. CASE call.op = "axpy"
      <4>1. plan' = AxpyKernel(tier, Coeff, First.ptr, Dst.ptr)
        BY <1>2, <3>1 DEF CallSingle, Enter, First
      <4>2. QED
        BY <2>1, <2>2, <4>1, AlignedKernels
    <3>2. CASE call.op = "scale"
      <4>1. plan' = ScaleKernel(tier, Coeff, First.ptr, Dst.ptr)
        BY <1>2, <3>2 DEF CallSingle, Enter, First
      <4>2. QED
        BY <2>1, <2>2, <4>1, AlignedKernels
    <3>3. CASE call.op = "scale_inplace"
      <4>1. plan' = ScaleInplaceKernel(tier, Coeff, Dst.ptr) /\ First = Dst
        BY <1>2, <3>3 DEF CallSingle, Enter, First
      <4>2. QED
        BY <2>1, <4>1, AlignedKernels
    <3>4. QED
      BY <2>1, <3>1, <3>2, <3>3
  <2>5. QED
    BY <2>1, <2>2, <2>3, <2>4 DEF AlignInv
<1>3. CASE CallDot \/ CallFused \/ CallBlocked
  <2>1. \A t : (t \in FusedTiers => Never(AxpyMultiKernel(t))) /\ Never(DotKernel(t))
    BY AlignedKernels, 0 \in Nat
  <2>2. QED
    BY <1>3, <2>1 DEF CallDot, CallFused, CallBlocked, Fuses, Enter, Goto, AlignInv
<1>4. CASE NextSource
  <2>1. /\ call \in Calls /\ Legal /\ off \in Nat /\ k \in Nat \ {0} /\ call.op = "axpy_multi"
        /\ k <= Len(call.coeffs)
        /\ pc' = "kernel" /\ pos' = 0 /\ UNCHANGED <<call, off, k>>
        /\ plan' = AxpyKernel(tier, Coeff, Src.ptr + off, Dst.ptr + off)
    BY <1>4 DEF NextSource, Enter, CheckInv, BoundsInv
  <2>2. Src.ptr \in Nat /\ Dst.ptr \in Nat
    BY <2>1, CallTypes DEF Src
  <2>3. First = Src /\ First' = First /\ Dst' = Dst
    BY <2>1 DEF First, Src, Dst
  <2>4. First.ptr + off + pos' = First.ptr + off /\ Dst.ptr + off + pos' = Dst.ptr + off
    BY <2>1, <2>2, <2>3
  <2>5. \E w \in Nat \ {0} : AlignedBy(plan', w, First.ptr + off, Dst.ptr + off)
    BY <2>1, <2>2, <2>3, AlignedKernels
  <2>6. QED
    BY <2>1, <2>3, <2>4, <2>5 DEF AlignInv
<1>5. CASE SkipSource \/ NextBlock \/ BlocksDone
  BY <1>5 DEF SkipSource, NextBlock, BlocksDone, Goto, AlignInv
<1>6. CASE VectorStep \/ DotStep \/ StageDone
  <2>1. /\ plan # <<>> /\ UNCHANGED <<pc, call, off, k>>
        /\ \/ plan' \in {plan, Tail(plan)} /\ pos' = pos + Span(Head(plan))
           \/ plan' = Tail(plan) /\ pos' = pos
    BY <1>6 DEF VectorStep, DotStep, StageDone, Advance, Fits
  <2>2. plan \in Plan /\ First' = First /\ Dst' = Dst
    BY <2>1 DEF BoundsInv, First, Src, Dst
  <2>3. ASSUME pc \in {"fused", "dot"}
        PROVE  Never(plan')
    BY <2>1, <2>2, <2>3, NeverTail DEF AlignInv
  <2>4. ASSUME pc = "kernel"
        PROVE  \E w \in Nat \ {0} :
                 AlignedBy(plan', w, First.ptr + off + pos', Dst.ptr + off + pos')
    <3>1. First.ptr \in Nat /\ Dst.ptr \in Nat /\ off \in Nat /\ pos \in Nat
      BY <2>4, FirstType
    <3>2. Span(Head(plan)) \in Nat
      BY <2>1, <2>2, Heads
    <3>3. PICK w \in Nat \ {0} : AlignedBy(plan, w, First.ptr + off + pos, Dst.ptr + off + pos)
      BY <2>4 DEF AlignInv
    <3> DEFINE x == First.ptr + off + pos
               y == Dst.ptr + off + pos
    <3>4. /\ First.ptr + off + (pos + Span(Head(plan))) = x + Span(Head(plan))
          /\ Dst.ptr + off + (pos + Span(Head(plan))) = y + Span(Head(plan))
      BY <3>1, <3>2
    <3>5. /\ x \in Nat /\ y \in Nat /\ AlignedBy(plan, w, x, y)
          /\ First.ptr + off + pos = x /\ Dst.ptr + off + pos = y
      BY <3>1, <3>3
    <3> HIDE DEF x, y
    <3>6. AlignedBy(plan, w, x + Span(Head(plan)), y + Span(Head(plan)))
      BY <2>1, <2>2, <3>5, AlignedAfterStep
    <3>7. /\ AlignedBy(Tail(plan), w, x, y)
          /\ AlignedBy(Tail(plan), w, x + Span(Head(plan)), y + Span(Head(plan)))
      BY <2>1, <2>2, <3>5, <3>6, AlignedTail
    <3>8. CASE plan' = Tail(plan) /\ pos' = pos
      BY <3>7, <3>8, <3>5
    <3>9. CASE plan' \in {plan, Tail(plan)} /\ pos' = pos + Span(Head(plan))
      <4>1. AlignedBy(plan', w, x + Span(Head(plan)), y + Span(Head(plan)))
        BY <3>6, <3>7, <3>9
      <4>2. QED
        BY <3>4, <3>9, <4>1
    <3>10. QED
      BY <2>1, <3>8, <3>9
  <2>5. QED
    BY <2>1, <2>2, <2>3, <2>4 DEF AlignInv
<1>7. CASE ScalarTail \/ DotTail
  BY <1>7 DEF ScalarTail, DotTail, AlignInv
<1>8. CASE UNCHANGED kernelVars
  BY <1>8 DEF kernelVars, AlignInv, First, Src, Dst
<1>9. QED
  BY <1>1, <1>2, <1>3, <1>4, <1>5, <1>6, <1>7, <1>8 DEF Next

(***************************************************************************)
(* The contract of the unsafe kernels, for every tier, vector width,       *)
(* length and placement: no vector step reads or writes past the end of a  *)
(* slice, in a block of axpy_multi neither, and no instruction that        *)
(* demands an aligned address meets another one.                           *)
(***************************************************************************)
THEOREM KernelsStayInBounds == Spec => []AccessIsSound
<1>1. CheckInv /\ BoundsInv /\ AlignInv => AccessIsSound
  <2> SUFFICES ASSUME CheckInv, BoundsInv, AlignInv, Fits
               PROVE  LET stage == Head(plan)
                          Sound(s) ==
                            /\ off + pos + Span(stage) <= s.len
                            /\ stage.aligned => (s.ptr + off + pos) % stage.vector = 0
                      IN  /\ Sound(Dst)
                          /\ pc = "fused" => \A s \in DOMAIN call.coeffs : Sound(call.sources[s])
                          /\ pc = "dot" \/ (pc = "kernel" /\ call.op # "scale_inplace") => Sound(Src)
    BY DEF AccessIsSound
  <2>1. /\ call \in Calls /\ Legal /\ Running /\ plan \in Plan /\ plan # <<>>
        /\ off \in Nat /\ pos \in Nat
        /\ pos + Span(Head(plan)) <= Extent
    BY DEF Fits, CheckInv, BoundsInv, Running
  <2>2. Span(Head(plan)) \in Nat /\ Dst.len \in Nat
    BY <2>1, Heads, CallTypes
  <2>3. off + pos + Span(Head(plan)) <= Dst.len
    <3>1. CASE pc = "kernel" /\ call.op = "axpy_multi"
      <4>1. BlockEnd \in Nat /\ BlockEnd <= Dst.len /\ pos + Span(Head(plan)) <= BlockEnd - off
        BY <2>1, <2>2, <3>1, EndOfBlock DEF Extent, BoundsInv
      <4>2. QED
        BY <2>1, <2>2, <4>1
    <3>2. CASE ~(pc = "kernel" /\ call.op = "axpy_multi")
      <4>1. off = 0 /\ Extent = Dst.len
        BY <2>1, <3>2 DEF Extent, BoundsInv, Running
      <4>2. QED
        BY <2>1, <2>2, <4>1
    <3>3. QED
      BY <3>1, <3>2
  <2>4. \A s \in DOMAIN call.sources : call.sources[s].len = Dst.len
    BY <2>1 DEF Legal
  <2>5. /\ pc \in {"fused", "dot"} => ~Head(plan).aligned
        /\ pc = "kernel" /\ Head(plan).aligned =>
             /\ (Dst.ptr + off + pos) % Head(plan).vector = 0
             /\ (First.ptr + off + pos) % Head(plan).vector = 0
    <3>1. 1 \in DOMAIN plan /\ Head(plan) = plan[1]
      BY <2>1 DEF Plan
    <3>2. QED
      BY <3>1 DEF AlignInv, Never, AlignedBy
  <2>6. /\ pc = "fused" => DOMAIN call.coeffs = DOMAIN call.sources
        /\ pc = "dot" \/ (pc = "kernel" /\ call.op # "scale_inplace") => k \in DOMAIN call.sources
    BY <2>1, CallTypes, FirstType DEF BoundsInv
  <2>7. QED
    BY <2>1, <2>3, <2>4, <2>5, <2>6 DEF Running, Src, First
<1>2. Init => AlignInv
  BY DEF Init, AlignInv
<1>3. QED
  BY <1>1, <1>2, BoundsInvariance, AlignInvStep, PTL DEF Spec

-----------------------------------------------------------------------------
(***************************************************************************)
(* A nonempty set of naturals has a least element.                         *)
(***************************************************************************)
LEMMA LeastElement ==
  ASSUME NEW S, S \subseteq Nat, S # {}
  PROVE  \E m \in S : \A n \in S : m <= n
<1> DEFINE R == OpToRel(<, Nat)
<1>1. IsWellFoundedOn(R, Nat)
  BY NatLessThanWellFounded
<1>2. \A m, n \in Nat : <<n, m>> \in R <=> n < m
  BY DEF OpToRel
<1> HIDE DEF R
<1>3. PICK x \in S : \A y \in S : <<y, x>> \notin R
  BY <1>1, WFMin
<1>4. \A y \in S : ~(y < x)
  BY <1>2, <1>3
<1>5. QED
  BY <1>4

(***************************************************************************)
(* Induction, on a set instead of a predicate: the least number outside it *)
(* would have a predecessor inside.                                        *)
(***************************************************************************)
LEMMA SetInduction ==
  ASSUME NEW S, 0 \in S, \A n \in Nat : n \in S => n + 1 \in S
  PROVE  Nat \subseteq S
<1> SUFFICES ASSUME Nat \ S # {}
             PROVE  FALSE
  OBVIOUS
<1>1. PICK m \in Nat \ S : \A n \in Nat \ S : m <= n
  BY LeastElement
<1>2. m - 1 \in Nat /\ m - 1 \in S
  BY <1>1
<1>3. QED
  BY <1>1, <1>2

-----------------------------------------------------------------------------
(* Sum as a recursion on the set.                                          *)
Chosen(s) == CHOOSE t \in s : TRUE
NextSum(f, g, s) == IF s = {} THEN Zero ELSE Plus(f[Chosen(s)], g[s \ {Chosen(s)}])
IsSum(f, g, S) == g = [s \in SUBSET S |-> NextSum(f, g, s)]

LEMMA ChosenIn ==
  ASSUME NEW s, IsFiniteSet(s), s # {}
  PROVE  /\ Chosen(s) \in s
         /\ IsFiniteSet(s \ {Chosen(s)})
         /\ Cardinality(s) \in Nat
         /\ Cardinality(s \ {Chosen(s)}) = Cardinality(s) - 1
<1>1. Chosen(s) \in s
  BY DEF Chosen
<1>2. QED
  BY <1>1, FS_RemoveElement, FS_CardinalityType

LEMMA SumExists ==
  ASSUME NEW f, NEW S, IsFiniteSet(S)
  PROVE  \E g : IsSum(f, g, S)
<1> DEFINE Sums(g, n) ==
             /\ g = [s \in SUBSET S |-> g[s]]
             /\ \A s \in SUBSET S : Cardinality(s) <= n => g[s] = NextSum(f, g, s)
           N == {n \in Nat : \E g : Sums(g, n)}
<1>1. \A s \in SUBSET S : IsFiniteSet(s) /\ Cardinality(s) \in Nat
  BY FS_Subset, FS_CardinalityType
<1>2. 0 \in N
  <2> DEFINE g == [s \in SUBSET S |-> Zero]
  <2>1. \A s \in SUBSET S : Cardinality(s) <= 0 => s = {}
    BY <1>1, FS_EmptySet
  <2>2. Sums(g, 0)
    BY <2>1 DEF NextSum
  <2>3. QED
    BY <2>2
<1>3. ASSUME NEW n \in Nat, n \in N
      PROVE  n + 1 \in N
  <2>1. PICK g : Sums(g, n)
    BY <1>3
  <2> DEFINE h == [s \in SUBSET S |-> NextSum(f, g, s)]
  <2>2. ASSUME NEW s \in SUBSET S, Cardinality(s) <= n + 1
        PROVE  h[s] = NextSum(f, h, s)
    <3>1. CASE s = {}
      BY <3>1 DEF NextSum
    <3>2. CASE s # {}
      <4>1. PICK r \in SUBSET S : r = s \ {Chosen(s)} /\ Cardinality(r) <= n
        <5>1. IsFiniteSet(s) /\ s \ {Chosen(s)} \in SUBSET S
          BY <1>1
        <5>2. /\ Cardinality(s) \in Nat
              /\ Cardinality(s \ {Chosen(s)}) = Cardinality(s) - 1
          BY <3>2, <5>1, ChosenIn
        <5>3. QED
          BY <2>2, <5>1, <5>2
      <4>2. h[r] = g[r]
        BY <2>1, <4>1
      <4>3. QED
        BY <3>2, <4>1, <4>2 DEF NextSum
    <3>3. QED
      BY <3>1, <3>2
  <2>3. h = [s \in SUBSET S |-> h[s]]
    OBVIOUS
  <2> HIDE DEF h
  <2>4. Sums(h, n + 1)
    BY <2>2, <2>3
  <2>5. QED
    <3> HIDE DEF Sums
    <3>1. QED
      BY <2>4
<1>4. Nat \subseteq N
  <2> HIDE DEF N
  <2>1. QED
    BY <1>2, <1>3, SetInduction
<1>5. PICK n \in Nat : n = Cardinality(S)
  BY <1>1
<1>6. PICK g : Sums(g, n)
  BY <1>4
<1>7. \A s \in SUBSET S : g[s] = NextSum(f, g, s)
  <2>1. \A s \in SUBSET S : Cardinality(s) <= n
    BY <1>5, FS_Subset
  <2>2. QED
    BY <1>6, <2>1
<1>8. g = [s \in SUBSET S |-> NextSum(f, g, s)]
  BY <1>6, <1>7
<1>9. QED
  BY <1>8 DEF IsSum

LEMMA SumsAgree ==
  ASSUME NEW f, NEW S, IsFiniteSet(S), NEW R \in SUBSET S,
         NEW g, IsSum(f, g, S), NEW h, IsSum(f, h, R)
  PROVE  h[R] = g[R]
<1> DEFINE N == {n \in Nat : \A s \in SUBSET R : Cardinality(s) = n => h[s] = g[s]}
<1>1. \A s \in SUBSET R : /\ s \in SUBSET S
                          /\ IsFiniteSet(s) /\ Cardinality(s) \in Nat
                          /\ g[s] = NextSum(f, g, s) /\ h[s] = NextSum(f, h, s)
  BY FS_Subset, FS_CardinalityType DEF IsSum
<1>2. 0 \in N
  <2>1. \A s \in SUBSET R : Cardinality(s) = 0 => s = {}
    BY <1>1, FS_EmptySet
  <2>2. QED
    BY <1>1, <2>1 DEF NextSum
<1>3. ASSUME NEW n \in Nat, n \in N
      PROVE  n + 1 \in N
  <2>1. SUFFICES ASSUME NEW s \in SUBSET R, Cardinality(s) = n + 1
                 PROVE  h[s] = g[s]
    OBVIOUS
  <2>2. CASE s # {}
    <3>1. PICK r : r = s \ {Chosen(s)}
      OBVIOUS
    <3>2. r \in SUBSET R /\ Cardinality(r) = n
      BY <1>1, <2>1, <2>2, <3>1, ChosenIn
    <3>3. h[r] = g[r]
      BY <1>3, <3>2
    <3>4. QED
      BY <1>1, <2>2, <3>1, <3>3 DEF NextSum
  <2>3. QED
    BY <1>1, <2>2 DEF NextSum
<1>4. Nat \subseteq N
  <2> HIDE DEF N
  <2>1. QED
    BY <1>2, <1>3, SetInduction
<1>5. QED
  BY <1>1, <1>4

(* Sum unfolded once.                                                      *)
LEMMA SumStep ==
  ASSUME NEW f, NEW S, IsFiniteSet(S)
  PROVE  /\ Sum(f, {}) = Zero
         /\ S # {} => Sum(f, S) = Plus(f[Chosen(S)], Sum(f, S \ {Chosen(S)}))
<1>1. ASSUME NEW R, IsFiniteSet(R)
      PROVE  \E h : IsSum(f, h, R) /\ Sum(f, R) = h[R]
  <2> DEFINE h == CHOOSE g : g = [s \in SUBSET R |-> NextSum(f, g, s)]
  <2>1. h = [s \in SUBSET R |-> NextSum(f, h, s)]
    BY <1>1, SumExists DEF IsSum
  <2>2. Sum(f, R) = h[R]
    BY DEF Sum, MapThenFoldSet, NextSum, Chosen
  <2> HIDE DEF h
  <2>3. QED
    BY <2>1, <2>2 DEF IsSum
<1>2. Sum(f, {}) = Zero
  <2>1. PICK h : IsSum(f, h, {}) /\ Sum(f, {}) = h[{}]
    BY <1>1, FS_EmptySet
  <2>2. QED
    BY <2>1 DEF IsSum, NextSum
<1>3. ASSUME S # {}
      PROVE  Sum(f, S) = Plus(f[Chosen(S)], Sum(f, S \ {Chosen(S)}))
  <2>1. PICK g : IsSum(f, g, S) /\ Sum(f, S) = g[S]
    BY <1>1
  <2>2. PICK R \in SUBSET S : R = S \ {Chosen(S)} /\ IsFiniteSet(R)
    BY <1>3, ChosenIn
  <2>3. PICK h : IsSum(f, h, R) /\ Sum(f, R) = h[R]
    BY <1>1, <2>2
  <2>4. h[R] = g[R]
    BY <2>1, <2>2, <2>3, SumsAgree
  <2>5. g[S] = NextSum(f, g, S)
    BY <2>1 DEF IsSum
  <2>6. QED
    BY <1>3, <2>1, <2>2, <2>3, <2>4, <2>5 DEF NextSum
<1>4. QED
  BY <1>2, <1>3

LEMMA SumType ==
  ASSUME NEW f, NEW S, IsFiniteSet(S), \A s \in S : f[s] \in Elem
  PROVE  Sum(f, S) \in Elem
<1> DEFINE N == {n \in Nat : \A s \in SUBSET S : Cardinality(s) = n => Sum(f, s) \in Elem}
<1>1. \A s \in SUBSET S : IsFiniteSet(s) /\ Cardinality(s) \in Nat
  BY FS_Subset, FS_CardinalityType
<1>2. 0 \in N
  <2>1. \A s \in SUBSET S : Cardinality(s) = 0 => s = {}
    BY <1>1, FS_EmptySet
  <2>2. Sum(f, {}) = Zero /\ Zero \in Elem
    BY SumStep, FieldAssumption
  <2>3. QED
    BY <2>1, <2>2
<1>3. ASSUME NEW n \in Nat, n \in N
      PROVE  n + 1 \in N
  <2>1. SUFFICES ASSUME NEW s \in SUBSET S, Cardinality(s) = n + 1
                 PROVE  Sum(f, s) \in Elem
    OBVIOUS
  <2>2. s # {}
    <3>1. SUFFICES ASSUME s = {} PROVE FALSE
      OBVIOUS
    <3>2. Cardinality(s) = 0
      BY <3>1, FS_EmptySet
    <3>3. QED
      BY <2>1, <3>2
  <2>3. PICK x, r : x = Chosen(s) /\ r = s \ {x}
    OBVIOUS
  <2>4. x \in s /\ r \in SUBSET S /\ Cardinality(r) = n
    BY <1>1, <2>1, <2>2, <2>3, ChosenIn
  <2>5. Sum(f, r) \in Elem /\ f[x] \in Elem
    BY <1>3, <2>4
  <2>6. Sum(f, s) = Plus(f[x], Sum(f, r))
    BY <1>1, <2>2, <2>3, SumStep
  <2>7. \A a, b \in Elem : Plus(a, b) \in Elem
    BY FieldAssumption
  <2>8. QED
    BY <2>5, <2>6, <2>7
<1>4. Nat \subseteq N
  <2> HIDE DEF N
  <2>1. QED
    BY <1>2, <1>3, SetInduction
<1>5. QED
  BY <1>1, <1>4

(* The sum does not depend on the order: any member may be added last.     *)
LEMMA SumRemove ==
  ASSUME NEW f, NEW S, IsFiniteSet(S), \A s \in S : f[s] \in Elem, NEW y \in S
  PROVE  Sum(f, S) = Plus(Sum(f, S \ {y}), f[y])
<1> DEFINE Good(s) == \A x \in s : Sum(f, s) = Plus(Sum(f, s \ {x}), f[x])
           N == {n \in Nat : \A s \in SUBSET S : Cardinality(s) = n => Good(s)}
<1>1. \A s \in SUBSET S : IsFiniteSet(s) /\ Cardinality(s) \in Nat /\ Sum(f, s) \in Elem
  BY FS_Subset, FS_CardinalityType, SumType
<1>2. 0 \in N
  <2>1. \A s \in SUBSET S : Cardinality(s) = 0 => s = {}
    BY <1>1, FS_EmptySet
  <2>2. QED
    BY <2>1
<1>3. ASSUME NEW n \in Nat, n \in N
      PROVE  n + 1 \in N
  <2>1. SUFFICES ASSUME NEW s \in SUBSET S, Cardinality(s) = n + 1, NEW x \in s
                 PROVE  Sum(f, s) = Plus(Sum(f, s \ {x}), f[x])
    OBVIOUS
  <2>2. PICK c, r : c = Chosen(s) /\ r = s \ {c}
    OBVIOUS
  <2>3. c \in s /\ r \in SUBSET S /\ Cardinality(r) = n
    BY <1>1, <2>1, <2>2, ChosenIn
  <2>4. Sum(f, s) = Plus(f[c], Sum(f, r))
    BY <1>1, <2>1, <2>2, SumStep
  <2>5. f[c] \in Elem /\ f[x] \in Elem /\ Sum(f, r) \in Elem
    BY <1>1, <2>1, <2>3
  <2>6. CASE x = c
    BY <2>2, <2>4, <2>5, <2>6, FieldAssumption
  <2>7. CASE x # c
    <3>1. PICK q, rest : q = s \ {x} /\ rest = r \ {x}
      OBVIOUS
    <3>2. q \in SUBSET S /\ Cardinality(q) = n /\ c \in q /\ q \ {c} = rest
      <4>1. Cardinality(s \ {x}) = Cardinality(s) - 1
        BY <1>1, <2>1, FS_RemoveElement
      <4>2. QED
        BY <2>1, <2>2, <2>3, <2>7, <3>1, <4>1
    <3>3. Sum(f, r) = Plus(Sum(f, rest), f[x])
      <4>1. Good(r)
        BY <1>3, <2>3
      <4>2. x \in r
        BY <2>1, <2>2, <2>7
      <4>3. QED
        BY <3>1, <4>1, <4>2
    <3>4. Sum(f, q) = Plus(Sum(f, rest), f[c])
      <4>1. Good(q)
        BY <1>3, <3>2
      <4>2. QED
        BY <3>2, <4>1
    <3>5. PICK t \in Elem : t = Sum(f, rest)
      <4>1. rest \in SUBSET S
        BY <2>3, <3>1
      <4>2. QED
        BY <1>1, <4>1
    <3>6. PICK a \in Elem, b \in Elem : a = f[c] /\ b = f[x]
      BY <2>5
    <3>7. Plus(a, Plus(t, b)) = Plus(Plus(t, a), b)
      <4>1. Plus(a, Plus(t, b)) = Plus(Plus(a, t), b)
        BY FieldAssumption
      <4>2. Plus(a, t) = Plus(t, a)
        BY FieldAssumption
      <4>3. QED
        BY <4>1, <4>2
    <3>8. QED
      BY <2>4, <3>1, <3>3, <3>4, <3>5, <3>6, <3>7
  <2>8. QED
    BY <2>6, <2>7
<1>4. Nat \subseteq N
  <2> HIDE DEF N
  <2>1. QED
    BY <1>2, <1>3, SetInduction
<1>5. Good(S)
  BY <1>1, <1>4
<1>6. QED
  BY <1>5

LEMMA SumAdd ==
  ASSUME NEW f, NEW S, IsFiniteSet(S), NEW y, y \notin S, NEW T, T = S \union {y},
         \A s \in T : f[s] \in Elem
  PROVE  Sum(f, T) = Plus(Sum(f, S), f[y])
<1>1. IsFiniteSet(T)
  BY FS_AddElement
<1>2. y \in T /\ T \ {y} = S
  OBVIOUS
<1>3. Sum(f, T) = Plus(Sum(f, T \ {y}), f[y])
  BY <1>1, <1>2, SumRemove
<1>4. QED
  BY <1>2, <1>3

(* The sum of two stretches one after the other.                           *)
LEMMA SumSplit ==
  ASSUME NEW f, NEW m \in Nat, NEW count \in Nat,
         \A i \in 0..(m + count - 1) : f[i] \in Elem
  PROVE  Sum(f, 0..(m + count - 1)) = Plus(Sum(f, 0..(m - 1)), Sum(f, m..(m + count - 1)))
<1> DEFINE Low == 0..(m - 1)
           Mid(n) == m..(m + n - 1)
           All(n) == 0..(m + n - 1)
           N == {n \in Nat : n <= count => Sum(f, All(n)) = Plus(Sum(f, Low), Sum(f, Mid(n)))}
<1>1. \A n \in Nat : IsFiniteSet(All(n)) /\ IsFiniteSet(Mid(n)) /\ IsFiniteSet(Low)
  BY FS_Interval
<1>2. \A n \in Nat : n <= count =>
        /\ \A i \in All(n) : f[i] \in Elem
        /\ \A i \in Mid(n) : f[i] \in Elem
        /\ \A i \in Low : f[i] \in Elem
  OBVIOUS
<1>3. 0 \in N
  <2>1. All(0) = Low /\ Mid(0) = {}
    OBVIOUS
  <2>2. Sum(f, Low) \in Elem
    <3>1. IsFiniteSet(Low) /\ \A i \in Low : f[i] \in Elem
      BY <1>1, <1>2
    <3> HIDE DEF Low
    <3>2. QED
      BY <3>1, SumType
  <2>3. Sum(f, {}) = Zero
    BY FS_EmptySet, SumStep
  <2>4. Sum(f, All(0)) = Plus(Sum(f, Low), Sum(f, Mid(0)))
    BY <2>1, <2>2, <2>3, FieldAssumption
  <2>5. QED
    BY <2>4
<1>4. ASSUME NEW n \in Nat, n \in N
      PROVE  n + 1 \in N
  <2>1. SUFFICES ASSUME n + 1 <= count
                 PROVE  Sum(f, All(n + 1)) = Plus(Sum(f, Low), Sum(f, Mid(n + 1)))
    OBVIOUS
  <2>2. /\ All(n + 1) = All(n) \union {m + n} /\ m + n \notin All(n)
        /\ Mid(n + 1) = Mid(n) \union {m + n} /\ m + n \notin Mid(n)
    OBVIOUS
  <2>3. Sum(f, All(n)) = Plus(Sum(f, Low), Sum(f, Mid(n)))
    BY <1>4, <2>1
  <2>4. /\ IsFiniteSet(All(n)) /\ IsFiniteSet(Mid(n)) /\ IsFiniteSet(Low)
        /\ \A i \in All(n + 1) : f[i] \in Elem
        /\ \A i \in Mid(n + 1) : f[i] \in Elem
        /\ \A i \in Low : f[i] \in Elem
    <3>1. n + 1 \in Nat
      OBVIOUS
    <3> HIDE DEF Low, Mid, All
    <3>2. QED
      BY <1>1, <1>2, <2>1, <3>1
  <2> HIDE DEF Low, Mid, All
  <2>5. Sum(f, All(n + 1)) = Plus(Sum(f, All(n)), f[m + n])
    BY <2>2, <2>4, SumAdd
  <2>6. Sum(f, Mid(n + 1)) = Plus(Sum(f, Mid(n)), f[m + n])
    BY <2>2, <2>4, SumAdd
  <2>7. PICK a \in Elem, b \in Elem, c \in Elem :
          a = Sum(f, Low) /\ b = Sum(f, Mid(n)) /\ c = f[m + n]
    <3>1. \A i \in Mid(n) : f[i] \in Elem
      BY <2>2, <2>4
    <3>2. Sum(f, Low) \in Elem /\ Sum(f, Mid(n)) \in Elem
      BY <2>4, <3>1, SumType
    <3>3. f[m + n] \in Elem
      BY <2>2, <2>4
    <3>4. QED
      BY <3>2, <3>3
  <2>8. Plus(Plus(a, b), c) = Plus(a, Plus(b, c))
    BY FieldAssumption
  <2>9. QED
    BY <2>3, <2>5, <2>6, <2>7, <2>8
<1>5. Nat \subseteq N
  <2> HIDE DEF N
  <2>1. QED
    BY <1>3, <1>4, SetInduction
<1>6. QED
  BY <1>5

-----------------------------------------------------------------------------
(* The sources that byte j of y has received, of those of axpy_multi.      *)
Added ==
  [j \in 0..(Dst.len - 1) |->
     IF pc = "returned" \/ (pc = "fused" /\ j < pos) \/ (pc \in {"kernel", "blocks"} /\ j < off)
     THEN DOMAIN call.coeffs
     ELSE IF pc = "kernel" /\ j < off + pos THEN 1..k
     ELSE IF pc \in {"kernel", "blocks"} /\ j < BlockEnd THEN 1..(k - 1)
     ELSE {}]

(* m is the memory after the sources A[j] have been added to byte j of y.  *)
MemSums(m, A) ==
  /\ m = [a \in Address |-> m[a]]
  /\ \A a \in Address : a \notin Bytes(Dst) => m[a] = Memory[a]
  /\ \A j \in 0..(Dst.len - 1) :
       m[Dst.ptr + j] = Plus(Memory[Dst.ptr + j], Sum(Terms(Memory, j), A[j]))

MultiInv ==
  /\ call.op = "axpy_multi" => MemSums(mem, Added)
  /\ pc = "blocks" => k <= Len(call.coeffs) + 1
  /\ call.op = "dot" /\ pc = "dot" =>
       mem = Memory /\ acc = Sum(Products(Memory), 0..(pos - 1))
  /\ call.op = "dot" /\ pc = "returned" =>
       mem = Memory /\ acc = Sum(Products(Memory), 0..(Dst.len - 1))
  /\ pc \notin {"dot", "returned"} => acc = Zero

(* The bytes of y and of the sources, and what a source contributes.       *)
LEMMA MultiTypes ==
  ASSUME CheckInv, call.op = "axpy_multi"
  PROVE  /\ Dst.ptr \in Nat /\ Dst.len \in Nat /\ Len(call.coeffs) \in Nat
         /\ DOMAIN call.coeffs = 1..Len(call.coeffs)
         /\ Address \subseteq Nat
         /\ \A j \in 0..(Dst.len - 1) : /\ Dst.ptr + j \in Bytes(Dst) /\ Dst.ptr + j \in Address
                                        /\ Memory[Dst.ptr + j] \in Elem
         /\ \A a \in Address : a \in Bytes(Dst) <=> a - Dst.ptr \in 0..(Dst.len - 1)
<1>1. /\ call \in Calls /\ Dst.ptr \in Nat /\ Dst.len \in Nat /\ Len(call.coeffs) \in Nat
      /\ DOMAIN call.coeffs = 1..Len(call.coeffs)
  BY CallTypes DEF CheckInv
<1>2. /\ Address \subseteq Nat /\ Bytes(Dst) \subseteq Address
      /\ \A a \in Address : Memory[a] \in Elem
  BY <1>1, KernelAssumption DEF Dst
<1>3. \A j \in 0..(Dst.len - 1) : Dst.ptr + j \in Bytes(Dst)
  BY <1>1 DEF Bytes
<1>4. \A a \in Address : a \in Bytes(Dst) <=> a - Dst.ptr \in 0..(Dst.len - 1)
  BY <1>1, <1>2 DEF Bytes
<1>5. QED
  BY <1>1, <1>2, <1>3, <1>4

LEMMA SourceBytes ==
  ASSUME CheckInv, Legal, call.op = "axpy_multi", NEW j \in 0..(Dst.len - 1),
         NEW s \in DOMAIN call.coeffs
  PROVE  /\ call.coeffs[s] \in Elem
         /\ call.sources[s].ptr + j \in Address
         /\ call.sources[s].ptr + j \notin Bytes(Dst)
         /\ Memory[call.sources[s].ptr + j] \in Elem
<1>1. /\ call \in Calls /\ Dst.len \in Nat
      /\ s \in DOMAIN call.sources
      /\ call.sources[s].ptr \in Nat /\ call.sources[s].len = Dst.len
      /\ Bytes(call.sources[s]) \cap Bytes(Dst) = {}
  BY CallTypes DEF CheckInv, Legal
<1>2. /\ Bytes(call.sources[s]) \subseteq Address /\ call.coeffs \in Seq(Elem)
      /\ \A a \in Address : Memory[a] \in Elem
  BY <1>1, KernelAssumption
<1>3. call.sources[s].ptr + j \in Bytes(call.sources[s])
  BY <1>1 DEF Bytes
<1>4. call.coeffs[s] \in Elem
  BY <1>2
<1>5. QED
  BY <1>1, <1>2, <1>3, <1>4

LEMMA TermsTypes ==
  ASSUME CheckInv, Legal, call.op = "axpy_multi", NEW j \in 0..(Dst.len - 1)
  PROVE  \A s \in DOMAIN call.coeffs : Terms(Memory, j)[s] \in Elem
<1>1. \A s \in DOMAIN call.coeffs :
        Times(call.coeffs[s], Memory[call.sources[s].ptr + j]) \in Elem
  BY SourceBytes, FieldAssumption
<1>2. QED
  BY <1>1 DEF Terms

LEMMA SourcesUntouched ==
  ASSUME CheckInv, Legal, call.op = "axpy_multi", NEW A, MemSums(mem, A),
         NEW j \in 0..(Dst.len - 1)
  PROVE  Terms(mem, j) = Terms(Memory, j)
<1>1. \A s \in DOMAIN call.coeffs :
        mem[call.sources[s].ptr + j] = Memory[call.sources[s].ptr + j]
  BY SourceBytes DEF MemSums
<1>2. QED
  BY <1>1 DEF Terms

(* One more source, and no sources at all.                                 *)
LEMMA SumNext ==
  ASSUME NEW f, NEW n \in Nat \ {0}, \A s \in 1..n : f[s] \in Elem
  PROVE  /\ Sum(f, 1..n) = Plus(Sum(f, 1..(n - 1)), f[n])
         /\ Sum(f, 1..(n - 1)) \in Elem
<1>1. IsFiniteSet(1..(n - 1))
  BY FS_Interval
<1>2. PICK S, T : S = 1..(n - 1) /\ T = 1..n
  OBVIOUS
<1>3. T = S \union {n} /\ n \notin S /\ IsFiniteSet(S) /\ \A s \in T : f[s] \in Elem
  BY <1>1, <1>2
<1>4. Sum(f, T) = Plus(Sum(f, S), f[n]) /\ Sum(f, S) \in Elem
  BY <1>3, SumAdd, SumType
<1>5. QED
  BY <1>2, <1>4

LEMMA NoSources ==
  ASSUME CheckInv, call.op = "axpy_multi", NEW A, \A j \in 0..(Dst.len - 1) : A[j] = {}
  PROVE  MemSums(Memory, A)
<1>1. \A f : Sum(f, {}) = Zero
  BY SumStep, FS_EmptySet
<1>2. \A j \in 0..(Dst.len - 1) :
        Memory[Dst.ptr + j] = Plus(Memory[Dst.ptr + j], Sum(Terms(Memory, j), {}))
  BY <1>1, MultiTypes, FieldAssumption
<1>3. Memory = [a \in Address |-> Memory[a]]
  BY KernelAssumption
<1>4. QED
  BY <1>2, <1>3 DEF MemSums

(* The bytes that a write covers gain the source of the kernel, or all     *)
(* sources, and the others gain none.                                      *)
Gain(A, B, from, count) ==
  \A j \in 0..(Dst.len - 1) :
    /\ j \in from..(from + count - 1) =>
         /\ pc = "kernel" => A[j] = 1..(k - 1) /\ B[j] = 1..k
         /\ pc = "fused" => A[j] = {} /\ B[j] = DOMAIN call.coeffs
    /\ j \notin from..(from + count - 1) => B[j] = A[j]

(* A write of a kernel of axpy_multi adds its source, or all sources, to   *)
(* the bytes it covers and leaves the others alone.                        *)
LEMMA NewByteAdds ==
  ASSUME CheckInv, BoundsInv, call.op = "axpy_multi", pc \in {"kernel", "fused"},
         NEW A, MemSums(mem, A), NEW j \in 0..(Dst.len - 1), NEW B,
         pc = "kernel" => A[j] = 1..(k - 1) /\ B = 1..k,
         pc = "fused" => A[j] = {} /\ B = DOMAIN call.coeffs
  PROVE  NewByte(j) = Plus(Memory[Dst.ptr + j], Sum(Terms(Memory, j), B))
<1>1. Legal /\ k \in Nat \ {0}
  BY DEF CheckInv, BoundsInv
<1>2. /\ mem[Dst.ptr + j] = Plus(Memory[Dst.ptr + j], Sum(Terms(Memory, j), A[j]))
      /\ Memory[Dst.ptr + j] \in Elem
  BY MultiTypes DEF MemSums
<1>3. Terms(mem, j) = Terms(Memory, j)
  BY <1>1, SourcesUntouched
<1>4. CASE pc = "fused"
  <2>1. NewByte(j) = Plus(mem[Dst.ptr + j], Sum(Terms(Memory, j), B))
    BY <1>3, <1>4 DEF NewByte
  <2>2. Sum(Terms(Memory, j), {}) = Zero
    BY SumStep, FS_EmptySet
  <2>3. mem[Dst.ptr + j] = Memory[Dst.ptr + j]
    BY <1>2, <1>4, <2>2, FieldAssumption
  <2>4. QED
    BY <2>1, <2>3
<1>5. CASE pc = "kernel"
  <2>1. k \in DOMAIN call.coeffs /\ \A s \in 1..k : s \in DOMAIN call.coeffs
    BY <1>1, <1>5, MultiTypes DEF BoundsInv
  <2>2. NewByte(j) = Plus(mem[Dst.ptr + j], Times(Coeff, mem[Src.ptr + j]))
    BY <1>5 DEF NewByte
  <2>3. Times(Coeff, mem[Src.ptr + j]) = Terms(mem, j)[k]
    BY <2>1 DEF Terms, Coeff, Src
  <2>4. \A s \in 1..k : Terms(Memory, j)[s] \in Elem
    BY <1>1, <2>1, TermsTypes
  <2>5. /\ Sum(Terms(Memory, j), 1..k)
             = Plus(Sum(Terms(Memory, j), 1..(k - 1)), Terms(Memory, j)[k])
        /\ Sum(Terms(Memory, j), 1..(k - 1)) \in Elem
    BY <1>1, <2>4, SumNext
  <2>6. PICK a \in Elem, b \in Elem, c \in Elem :
          /\ a = Memory[Dst.ptr + j] /\ b = Sum(Terms(Memory, j), 1..(k - 1))
          /\ c = Terms(Memory, j)[k]
    BY <1>1, <1>2, <2>4, <2>5
  <2>7. Plus(Plus(a, b), c) = Plus(a, Plus(b, c))
    BY FieldAssumption
  <2>8. NewByte(j) = Plus(Plus(a, b), c)
    BY <1>2, <1>3, <1>5, <2>2, <2>3, <2>6
  <2>9. QED
    BY <1>5, <2>5, <2>6, <2>7, <2>8
<1>6. QED
  BY <1>4, <1>5

LEMMA WriteAdds ==
  ASSUME CheckInv, BoundsInv, call.op = "axpy_multi", pc \in {"kernel", "fused"},
         NEW A, MemSums(mem, A), NEW B, NEW from \in Nat, NEW count \in Nat,
         from + count <= Dst.len, Write(from, count),
         Gain(A, B, from, count)
  PROVE  MemSums(mem', B)
<1>1. mem' = [a \in Address |-> IF a - Dst.ptr \in from..(from + count - 1)
                                THEN NewByte(a - Dst.ptr) ELSE mem[a]]
  BY DEF Write
<1>2. \A a \in Address : a \notin Bytes(Dst) => mem'[a] = Memory[a]
  <2>1. SUFFICES ASSUME NEW a \in Address, a \notin Bytes(Dst)
                 PROVE  mem'[a] = Memory[a]
    OBVIOUS
  <2>2. a - Dst.ptr \notin from..(from + count - 1)
    <3>1. a - Dst.ptr \notin 0..(Dst.len - 1) /\ a \in Nat /\ Dst.ptr \in Nat /\ Dst.len \in Nat
      BY <2>1, MultiTypes
    <3>2. QED
      BY <3>1
  <2>3. QED
    BY <1>1, <2>1, <2>2 DEF MemSums
<1>3. ASSUME NEW j \in 0..(Dst.len - 1)
      PROVE  mem'[Dst.ptr + j] = Plus(Memory[Dst.ptr + j], Sum(Terms(Memory, j), B[j]))
  <2>1. PICK a \in Address : a = Dst.ptr + j /\ a - Dst.ptr = j
    BY MultiTypes
  <2>2. CASE j \in from..(from + count - 1)
    <3>1. mem'[a] = NewByte(j)
      BY <1>1, <2>1, <2>2
    <3>2. /\ pc = "kernel" => A[j] = 1..(k - 1) /\ B[j] = 1..k
          /\ pc = "fused" => A[j] = {} /\ B[j] = DOMAIN call.coeffs
      BY <2>2 DEF Gain
    <3>3. QED
      BY <2>1, <3>1, <3>2, NewByteAdds
  <2>3. CASE j \notin from..(from + count - 1)
    <3>1. mem'[a] = mem[a] /\ B[j] = A[j]
      BY <1>1, <2>1, <2>3 DEF Gain
    <3>2. QED
      BY <2>1, <3>1 DEF MemSums
  <2>4. QED
    BY <2>2, <2>3
<1>4. mem' = [a \in Address |-> mem'[a]]
  BY <1>1
<1>5. QED
  BY <1>2, <1>3, <1>4 DEF MemSums

LEMMA CallKept == [Next]_kernelVars => UNCHANGED call
BY DEF Next, kernelVars, LengthsDiffer, LengthsChecked, Overlap, OverlapsChecked, CallSingle,
       CallDot, CallFused, CallBlocked, NextSource, SkipSource, NextBlock, BlocksDone,
       VectorStep, DotStep, StageDone, ScalarTail, DotTail, Goto, Enter, Advance

LEMMA MemSumsPrimed ==
  ASSUME UNCHANGED call, MemSums(mem', Added')
  PROVE  MemSums(mem, Added)'
BY DEF MemSums, Terms, Dst, Bytes

(* The steps of axpy_multi that write no byte.                             *)
LEMMA AddedKept ==
  ASSUME CheckInv, BoundsInv, MultiInv, [Next]_kernelVars, call.op = "axpy_multi",
         UNCHANGED mem, ~SkipSource, ~ScalarTail, ~VectorStep
  PROVE  Added' = Added
<1>1. /\ Dst.len \in Nat /\ DOMAIN call.coeffs = 1..Len(call.coeffs)
      /\ Len(call.coeffs) \in Nat /\ UNCHANGED call /\ UNCHANGED Dst
  BY MultiTypes, CallKept DEF Dst
<1>2. \A j \in 0..(Dst.len - 1) : 
        /\ pc \notin {"returned", "fused", "kernel", "blocks"} => Added[j] = {}
        /\ pc \in {"kernel", "blocks"} /\ j < off => Added[j] = DOMAIN call.coeffs
        /\ pc = "blocks" /\ ~(j < off) /\ j < BlockEnd => Added[j] = 1..(k - 1)
        /\ pc = "blocks" /\ ~(j < off) /\ ~(j < BlockEnd) => Added[j] = {}
  BY DEF Added
<1>3. CASE LengthsDiffer \/ LengthsChecked \/ Overlap \/ OverlapsChecked
  BY <1>1, <1>3 DEF LengthsDiffer, LengthsChecked, Overlap, OverlapsChecked, Goto, Added
<1>4. CASE CallFused
  BY <1>1, <1>4 DEF CallFused, Enter, Added
<1>5. CASE CallBlocked
  <2>1. off = 0 /\ k = 1 /\ UNCHANGED <<off, k>> /\ pc = "dispatch" /\ pc' = "blocks"
    BY <1>5 DEF CallBlocked, Goto, BoundsInv
  <2>2. 1..(1 - 1) = {} /\ \A j \in 0..(Dst.len - 1) : ~(j < 0)
    BY <1>1
  <2>3. QED
    BY <1>1, <2>1, <2>2 DEF Added
<1>6. CASE NextSource
  <2>1. /\ off \in Nat /\ pos' = 0 /\ pc = "blocks" /\ pc' = "kernel" /\ UNCHANGED <<off, k>>
    BY <1>6 DEF NextSource, Enter, BoundsInv
  <2>2. off + 0 = off /\ UNCHANGED BlockEnd
    BY <1>1, <2>1 DEF BlockEnd
  <2>3. QED
    BY <1>1, <2>1, <2>2 DEF Added
<1>7. CASE NextBlock
  <2>1. /\ off \in Nat /\ off < Dst.len /\ k' = 1 /\ off' = BlockEnd
        /\ pc = "blocks" /\ pc' = "blocks" /\ k = Len(call.coeffs) + 1
    BY <1>1, <1>7 DEF NextBlock, BoundsInv, MultiInv
  <2>2. BlockEnd \in Nat /\ off < BlockEnd /\ BlockEnd <= Dst.len
    BY <1>1, <2>1, EndOfBlock
  <2>3. 1..(k - 1) = DOMAIN call.coeffs /\ 1..(1 - 1) = {}
    BY <1>1, <2>1
  <2>4. ASSUME NEW j \in 0..(Dst.len - 1)
        PROVE  Added'[j] = Added[j]
    <3>1. j \in 0..(Dst.len' - 1)
      BY <1>1
    <3>2. Added'[j] = IF j < BlockEnd THEN DOMAIN call.coeffs ELSE {}
      BY <1>1, <2>1, <2>3, <3>1 DEF Added
    <3>3. CASE j < off
      <4>1. j < BlockEnd
        BY <2>1, <2>2, <3>3
      <4>2. QED
        BY <1>2, <2>1, <3>2, <3>3, <4>1
    <3>4. CASE ~(j < off)
      BY <1>2, <2>1, <2>3, <3>2, <3>4
    <3>5. QED
      BY <3>3, <3>4
  <2>5. QED
    BY <1>1, <2>4 DEF Added
<1>8. CASE BlocksDone
  <2>1. off \in Nat /\ off >= Dst.len /\ pc = "blocks" /\ pc' = "returned"
    BY <1>8 DEF BlocksDone, Goto, BoundsInv
  <2>2. \A j \in 0..(Dst.len - 1) : j < off
    BY <1>1, <2>1
  <2>3. QED
    BY <1>1, <2>1, <2>2 DEF Added
<1>9. CASE StageDone \/ UNCHANGED kernelVars
  BY <1>1, <1>9 DEF StageDone, kernelVars, Added, BlockEnd
<1>10. CASE CallSingle \/ CallDot \/ DotStep \/ DotTail
  BY <1>10 DEF CallSingle, CallDot, DotStep, DotTail, BoundsInv
<1>11. QED
  BY <1>3, <1>4, <1>5, <1>6, <1>7, <1>8, <1>9, <1>10 DEF Next

(* A source whose coefficient is zero is as good as added.                 *)
LEMMA SkipAdds ==
  ASSUME CheckInv, BoundsInv, MultiInv, SkipSource
  PROVE  MemSums(mem', Added')
<1>1. /\ call.op = "axpy_multi" /\ pc = "blocks" /\ Legal
      /\ k <= Len(call.coeffs) /\ Coeff = Zero /\ k' = k + 1
      /\ UNCHANGED <<call, pc, mem, off>> /\ off < Dst.len /\ off \in Nat /\ k \in Nat \ {0}
  BY DEF SkipSource, BoundsInv, CheckInv
<1>2. /\ Dst.len \in Nat /\ DOMAIN call.coeffs = 1..Len(call.coeffs)
      /\ Len(call.coeffs) \in Nat /\ UNCHANGED Dst /\ UNCHANGED BlockEnd
  BY <1>1, MultiTypes DEF Dst, BlockEnd
<1>3. MemSums(mem, Added)
  BY <1>1 DEF MultiInv
<1>4. ASSUME NEW j \in 0..(Dst.len - 1)
      PROVE  Sum(Terms(Memory, j), Added'[j]) = Sum(Terms(Memory, j), Added[j])
  <2>1. (k + 1) - 1 = k
    BY <1>1
  <2>2. \/ Added'[j] = Added[j]
        \/ Added[j] = 1..(k - 1) /\ Added'[j] = 1..k
    BY <1>1, <1>2, <2>1 DEF Added
  <2>3. Sum(Terms(Memory, j), 1..k) = Sum(Terms(Memory, j), 1..(k - 1))
    <3>1. k \in DOMAIN call.coeffs /\ \A s \in 1..k : s \in DOMAIN call.coeffs
      BY <1>1, <1>2
    <3>2. Memory[call.sources[k].ptr + j] \in Elem
      BY <1>1, <3>1, SourceBytes
    <3>3. Terms(Memory, j)[k] = Zero
      <4>1. Terms(Memory, j)[k] = Times(Zero, Memory[call.sources[k].ptr + j])
        BY <1>1, <3>1 DEF Terms, Coeff
      <4>2. \A e \in Elem : Times(Zero, e) = Zero
        BY FieldAssumption
      <4>3. QED
        BY <3>2, <4>1, <4>2
    <3>4. \A s \in 1..k : Terms(Memory, j)[s] \in Elem
      BY <1>1, <3>1, TermsTypes
    <3>5. /\ Sum(Terms(Memory, j), 1..k)
               = Plus(Sum(Terms(Memory, j), 1..(k - 1)), Terms(Memory, j)[k])
          /\ Sum(Terms(Memory, j), 1..(k - 1)) \in Elem
      BY <1>1, <3>4, SumNext
    <3>6. QED
      BY <3>3, <3>5, FieldAssumption
  <2>4. QED
    BY <2>2, <2>3
<1>5. QED
  BY <1>1, <1>3, <1>4 DEF MemSums

LEMMA VectorAdds ==
  ASSUME CheckInv, BoundsInv, MultiInv, VectorStep, call.op = "axpy_multi"
  PROVE  MemSums(mem', Added')
<1>1. /\ pc \in {"kernel", "fused"} /\ UNCHANGED <<call, pc, off, k>>
      /\ plan # <<>> /\ pos + Span(Head(plan)) <= Extent
      /\ pos' = pos + Span(Head(plan))
      /\ Write(off + pos, Span(Head(plan)))
      /\ off \in Nat /\ pos \in Nat /\ k \in Nat \ {0}
  BY DEF VectorStep, Fits, Running, Advance, BoundsInv
<1>2. PICK count \in Nat : count = Span(Head(plan))
  BY <1>1, Heads DEF BoundsInv
<1>3. /\ Dst.len \in Nat /\ DOMAIN call.coeffs = 1..Len(call.coeffs)
      /\ UNCHANGED Dst /\ UNCHANGED BlockEnd
  BY <1>1, MultiTypes DEF Dst, BlockEnd
<1>4. /\ pc = "kernel" => /\ BlockEnd \in Nat /\ BlockEnd <= Dst.len /\ off < BlockEnd
                          /\ off + pos + count <= BlockEnd
      /\ pc = "fused" => off = 0 /\ pos + count <= Dst.len
  <2>1. CASE pc = "kernel"
    <3>1. off < Dst.len /\ Extent = BlockEnd - off
      BY <2>1 DEF BoundsInv, Extent
    <3>2. BlockEnd \in Nat /\ BlockEnd <= Dst.len /\ off < BlockEnd
      BY <1>1, <1>3, <3>1, EndOfBlock
    <3>3. QED
      BY <1>1, <1>2, <2>1, <3>1, <3>2
  <2>2. CASE pc = "fused"
    BY <1>1, <1>2, <2>2 DEF BoundsInv, Extent
  <2>3. QED
    BY <1>1, <2>1, <2>2
<1>5. PICK from \in Nat : from = off + pos /\ from + count <= Dst.len
  BY <1>1, <1>3, <1>4
<1>6. ASSUME NEW j \in 0..(Dst.len - 1)
      PROVE  /\ j \in from..(from + count - 1) =>
                  /\ pc = "kernel" => Added[j] = 1..(k - 1) /\ Added'[j] = 1..k
                  /\ pc = "fused" => Added[j] = {} /\ Added'[j] = DOMAIN call.coeffs
             /\ j \notin from..(from + count - 1) => Added'[j] = Added[j]
  <2>1. off + pos' = from + count
    BY <1>1, <1>2, <1>5
  <2>2. /\ j \in from..(from + count - 1) <=> ~(j < from) /\ j < from + count
        /\ j < off => j < from
        /\ j < from => j < from + count
    BY <1>1, <1>2, <1>5
  <2>3. CASE pc = "kernel"
    <3>1. j < from + count => j < BlockEnd
      BY <1>1, <1>2, <1>4, <1>5, <2>3
    <3>2. Added[j] = IF j < off THEN DOMAIN call.coeffs
                     ELSE IF j < from THEN 1..k
                     ELSE IF j < BlockEnd THEN 1..(k - 1) ELSE {}
      BY <1>5, <2>3 DEF Added
    <3>3. Added'[j] = IF j < off THEN DOMAIN call.coeffs
                      ELSE IF j < from + count THEN 1..k
                      ELSE IF j < BlockEnd THEN 1..(k - 1) ELSE {}
      BY <1>1, <1>3, <2>1, <2>3 DEF Added
    <3>4. QED
      BY <2>2, <2>3, <3>1, <3>2, <3>3
  <2>4. CASE pc = "fused"
    <3>1. from = pos /\ pos' = from + count
      BY <1>1, <1>2, <1>4, <1>5, <2>4
    <3>2. Added[j] = IF j < from THEN DOMAIN call.coeffs ELSE {}
      BY <2>4, <3>1 DEF Added
    <3>3. Added'[j] = IF j < from + count THEN DOMAIN call.coeffs ELSE {}
      BY <1>1, <1>3, <2>4, <3>1 DEF Added
    <3>4. QED
      BY <2>2, <2>4, <3>2, <3>3
  <2>5. QED
    BY <1>1, <2>3, <2>4
<1>7. MemSums(mem, Added)
  BY DEF MultiInv
<1>8. Write(from, count)
  BY <1>1, <1>2, <1>5
<1>9. PICK A, B : A = Added /\ B = Added'
  OBVIOUS
<1>10. Gain(A, B, from, count)
  BY <1>6, <1>9 DEF Gain
<1>11. MemSums(mem, A) /\ from + count <= Dst.len /\ pc \in {"kernel", "fused"}
  BY <1>1, <1>5, <1>7, <1>9
<1>12. MemSums(mem', B)
  BY <1>8, <1>10, <1>11, WriteAdds
<1>13. QED
  BY <1>9, <1>12

LEMMA TailAdds ==
  ASSUME CheckInv, BoundsInv, MultiInv, ScalarTail, call.op = "axpy_multi"
  PROVE  MemSums(mem', Added')
<1>1. /\ pc \in {"kernel", "fused"} /\ UNCHANGED <<call, off, pos>>
      /\ Write(off + pos, Extent - pos) /\ pos <= Extent
      /\ pc = "kernel" => pc' = "blocks" /\ k' = k + 1
      /\ pc = "fused" => pc' = "returned"
      /\ off \in Nat /\ pos \in Nat /\ k \in Nat \ {0}
  BY DEF ScalarTail, Running, BoundsInv
<1>2. /\ Dst.len \in Nat /\ DOMAIN call.coeffs = 1..Len(call.coeffs)
      /\ UNCHANGED Dst /\ UNCHANGED BlockEnd
  BY <1>1, MultiTypes DEF Dst, BlockEnd
<1>3. /\ pc = "kernel" => /\ BlockEnd \in Nat /\ BlockEnd <= Dst.len /\ off < BlockEnd
                          /\ Extent = BlockEnd - off
      /\ pc = "fused" => off = 0 /\ Extent = Dst.len
  <2>1. CASE pc = "kernel"
    <3>1. off < Dst.len /\ Extent = BlockEnd - off
      BY <2>1 DEF BoundsInv, Extent
    <3>2. QED
      BY <1>1, <1>2, <2>1, <3>1, EndOfBlock
  <2>2. CASE pc = "fused"
    BY <1>1, <2>2 DEF BoundsInv, Extent
  <2>3. QED
    BY <1>1, <2>1, <2>2
<1>4. PICK from \in Nat, count \in Nat :
        /\ from = off + pos /\ count = Extent - pos /\ from + count <= Dst.len
        /\ pc = "kernel" => from + count = BlockEnd
        /\ pc = "fused" => from = pos /\ from + count = Dst.len
  <2>1. Extent \in Nat
    <3>1. pc = "kernel" => Extent \in Nat
      BY <1>1, <1>3
    <3>2. pc = "fused" => Extent \in Nat
      BY <1>2, <1>3
    <3>3. QED
      BY <1>1, <3>1, <3>2
  <2>2. PICK from \in Nat, count \in Nat : from = off + pos /\ count = Extent - pos
    BY <1>1, <2>1
  <2>3. from + count = off + Extent
    BY <1>1, <2>1, <2>2
  <2>4. pc = "kernel" => off + Extent = BlockEnd /\ BlockEnd <= Dst.len
    BY <1>1, <1>3
  <2>5. pc = "fused" => off + Extent = Dst.len /\ off + pos = pos
    BY <1>1, <1>2, <1>3
  <2>6. from + count <= Dst.len
    BY <1>1, <1>2, <2>3, <2>4, <2>5
  <2>7. QED
    BY <2>2, <2>3, <2>4, <2>5, <2>6
<1>5. ASSUME NEW j \in 0..(Dst.len - 1)
      PROVE  /\ j \in from..(from + count - 1) =>
                  /\ pc = "kernel" => Added[j] = 1..(k - 1) /\ Added'[j] = 1..k
                  /\ pc = "fused" => Added[j] = {} /\ Added'[j] = DOMAIN call.coeffs
             /\ j \notin from..(from + count - 1) => Added'[j] = Added[j]
  <2>1. /\ j \in from..(from + count - 1) <=> ~(j < from) /\ j < from + count
        /\ j < off => j < from
        /\ j < from => j < from + count
    BY <1>1, <1>4
  <2>2. CASE pc = "kernel"
    <3>1. Added[j] = IF j < off THEN DOMAIN call.coeffs
                     ELSE IF j < from THEN 1..k
                     ELSE IF j < from + count THEN 1..(k - 1) ELSE {}
      BY <1>4, <2>2 DEF Added
    <3>2. Added'[j] = IF j < off THEN DOMAIN call.coeffs
                      ELSE IF j < from + count THEN 1..k ELSE {}
      <4>1. (k + 1) - 1 = k
        BY <1>1
      <4>2. QED
        BY <1>1, <1>2, <1>4, <2>2, <4>1 DEF Added
    <3>3. QED
      BY <2>1, <2>2, <3>1, <3>2
  <2>3. CASE pc = "fused"
    <3>1. Added[j] = IF j < from THEN DOMAIN call.coeffs ELSE {}
      BY <1>4, <2>3 DEF Added
    <3>2. Added'[j] = DOMAIN call.coeffs
      BY <1>1, <1>2, <2>3 DEF Added
    <3>3. j < from + count
      BY <1>2, <1>4, <2>3
    <3>4. QED
      BY <2>1, <2>3, <3>1, <3>2, <3>3
  <2>4. QED
    BY <1>1, <2>2, <2>3
<1>6. MemSums(mem, Added)
  BY DEF MultiInv
<1>7. Write(from, count)
  BY <1>1, <1>4
<1>8. PICK A, B : A = Added /\ B = Added'
  OBVIOUS
<1>9. Gain(A, B, from, count)
  BY <1>5, <1>8 DEF Gain
<1>10. MemSums(mem, A) /\ from + count <= Dst.len /\ pc \in {"kernel", "fused"}
  BY <1>1, <1>4, <1>6, <1>8
<1>11. MemSums(mem', B)
  BY <1>7, <1>9, <1>10, WriteAdds
<1>12. QED
  BY <1>8, <1>11

(* dot adds a stretch of products to the products before it.               *)
LEMMA DotAdds ==
  ASSUME CheckInv, BoundsInv, MultiInv, call.op = "dot", pc = "dot",
         NEW count \in Nat, pos + count <= Dst.len, Accumulate(pos, count)
  PROVE  acc' = Sum(Products(Memory), 0..(pos + count - 1))
<1>1. /\ call \in Calls /\ Legal /\ k = 1 /\ pos \in Nat
      /\ Dst.ptr \in Nat /\ Dst.len \in Nat
      /\ 1 \in DOMAIN call.sources /\ Src.ptr \in Nat /\ Src.len = Dst.len
  BY CallTypes DEF CheckInv, BoundsInv, Legal, Src
<1>2. /\ Bytes(Dst) \subseteq Address /\ Bytes(Src) \subseteq Address
      /\ \A a \in Address : Memory[a] \in Elem
  BY <1>1, KernelAssumption DEF Dst, Src
<1>3. \A j \in 0..(Dst.len - 1) : Products(Memory)[j] \in Elem
  <2>1. SUFFICES ASSUME NEW j \in 0..(Dst.len - 1)
                 PROVE  Products(Memory)[j] \in Elem
    OBVIOUS
  <2>2. Dst.ptr + j \in Bytes(Dst) /\ Src.ptr + j \in Bytes(Src)
    BY <1>1 DEF Bytes
  <2>3. Memory[Dst.ptr + j] \in Elem /\ Memory[Src.ptr + j] \in Elem
    BY <1>2, <2>2
  <2>4. QED
    BY <2>3, FieldAssumption DEF Products
<1>4. \A i \in 0..(pos + count - 1) : Products(Memory)[i] \in Elem
  BY <1>1, <1>3
<1>5. Sum(Products(Memory), 0..(pos + count - 1))
        = Plus(Sum(Products(Memory), 0..(pos - 1)), Sum(Products(Memory), pos..(pos + count - 1)))
  <2>1. PICK f : f = Products(Memory)
    OBVIOUS
  <2>2. PICK m \in Nat : m = pos
    BY <1>1
  <2>3. \A i \in 0..(m + count - 1) : f[i] \in Elem
    BY <1>4, <2>1, <2>2
  <2>4. Sum(f, 0..(m + count - 1)) = Plus(Sum(f, 0..(m - 1)), Sum(f, m..(m + count - 1)))
    BY <2>3, SumSplit
  <2>5. QED
    BY <2>1, <2>2, <2>4
<1>6. /\ mem = Memory
      /\ acc = Sum(Products(Memory), 0..(pos - 1))
  BY DEF MultiInv
<1>7. acc' = Plus(acc, Sum(Products(Memory), pos..(pos + count - 1)))
  BY <1>6 DEF Accumulate
<1>8. QED
  BY <1>5, <1>6, <1>7

LEMMA DotInvStep ==
  ASSUME CheckInv, BoundsInv, MultiInv, [Next]_kernelVars, call.op = "dot"
  PROVE  /\ pc' = "dot" => mem' = Memory /\ acc' = Sum(Products(Memory), 0..(pos' - 1))
         /\ pc' = "returned" => mem' = Memory /\ acc' = Sum(Products(Memory), 0..(Dst.len - 1))
<1>1. pc \notin {"kernel", "fused", "blocks"} /\ pos \in Nat /\ Dst.len \in Nat
  BY CallTypes DEF BoundsInv, CheckInv
<1>2. CASE LengthsDiffer \/ LengthsChecked \/ Overlap \/ OverlapsChecked
  BY <1>1, <1>2 DEF LengthsDiffer, LengthsChecked, Overlap, OverlapsChecked, Goto
<1>3. CASE CallDot
  <2>1. pc' = "dot" /\ pos' = 0 /\ mem' = Memory /\ acc' = Zero
    BY <1>3 DEF CallDot, Enter, CheckInv, MultiInv
  <2>2. 0..(0 - 1) = {} /\ Sum(Products(Memory), {}) = Zero
    BY SumStep, FS_EmptySet
  <2>3. QED
    BY <2>1, <2>2
<1>4. CASE DotStep
  <2>1. /\ pc = "dot" /\ pc' = "dot" /\ plan # <<>>
        /\ pos + Span(Head(plan)) <= Extent /\ pos' = pos + Span(Head(plan))
        /\ Accumulate(pos, Span(Head(plan))) /\ mem' = mem
    BY <1>4 DEF DotStep, Fits, Advance
  <2>2. PICK count \in Nat : count = Span(Head(plan))
    BY <2>1, Heads DEF BoundsInv
  <2>3. pos + count <= Dst.len
    BY <2>1, <2>2 DEF Extent
  <2>4. Accumulate(pos, count)
    BY <2>1, <2>2
  <2>5. acc' = Sum(Products(Memory), 0..(pos + count - 1))
    BY <2>1, <2>3, <2>4, DotAdds
  <2>6. mem = Memory /\ pos' = pos + count
    BY <2>1, <2>2 DEF MultiInv
  <2>7. 0..(pos' - 1) = 0..(pos + count - 1)
    BY <1>1, <2>6
  <2>8. acc' = Sum(Products(Memory), 0..(pos' - 1))
    BY <2>5, <2>7
  <2>9. QED
    BY <2>1, <2>6, <2>8
<1>5. CASE DotTail
  <2>1. /\ pc = "dot" /\ pc' = "returned" /\ mem' = mem
        /\ Accumulate(pos, Extent - pos) /\ pos <= Extent /\ Extent = Dst.len
    BY <1>5 DEF DotTail, BoundsInv, Running, Extent
  <2>2. PICK count \in Nat : count = Extent - pos /\ pos + count = Dst.len
    BY <1>1, <2>1
  <2>3. pos + count <= Dst.len /\ Accumulate(pos, count)
    BY <1>1, <2>1, <2>2
  <2>4. acc' = Sum(Products(Memory), 0..(pos + count - 1))
    BY <2>1, <2>3, DotAdds
  <2>5. mem = Memory
    BY <2>1 DEF MultiInv
  <2>6. 0..(Dst.len - 1) = 0..(pos + count - 1)
    BY <1>1, <2>2
  <2>7. acc' = Sum(Products(Memory), 0..(Dst.len - 1))
    BY <2>4, <2>6
  <2>8. QED
    BY <2>1, <2>5, <2>7
<1>6. CASE StageDone \/ UNCHANGED kernelVars
  BY <1>1, <1>6 DEF StageDone, kernelVars, MultiInv, Running
<1>7. CASE VectorStep \/ ScalarTail
  BY <1>1, <1>7 DEF VectorStep, ScalarTail, Fits, Running
<1>8. CASE NextSource \/ SkipSource \/ NextBlock \/ BlocksDone
  BY <1>1, <1>8 DEF NextSource, SkipSource, NextBlock, BlocksDone
<1>9. CASE CallSingle \/ CallFused \/ CallBlocked
  BY <1>9 DEF CallSingle, CallFused, CallBlocked
<1>10. QED
  BY <1>2, <1>3, <1>4, <1>5, <1>6, <1>7, <1>8, <1>9 DEF Next

LEMMA MultiInvStep ==
  ASSUME CheckInv, BoundsInv, BoundsInv', MultiInv, [Next]_kernelVars
  PROVE  MultiInv'
<1>1. UNCHANGED call /\ UNCHANGED Dst
  BY CallKept DEF Dst
<1>2. ASSUME call.op = "axpy_multi"
      PROVE  MemSums(mem, Added)'
  <2>1. MemSums(mem, Added)
    BY <1>2 DEF MultiInv
  <2>2. MemSums(mem', Added')
    <3>1. CASE VectorStep
      BY <1>2, <3>1, VectorAdds
    <3>2. CASE ScalarTail
      BY <1>2, <3>2, TailAdds
    <3>3. CASE SkipSource
      BY <3>3, SkipAdds
    <3>4. CASE ~VectorStep /\ ~ScalarTail /\ ~SkipSource
      <4>1. mem' = mem
        BY <3>4 DEF Next, kernelVars, LengthsDiffer, LengthsChecked, Overlap, OverlapsChecked,
          CallSingle, CallDot, CallFused, CallBlocked, NextSource, NextBlock, BlocksDone, DotStep,
          StageDone, DotTail, Goto, Enter
      <4>2. Added' = Added
        BY <1>2, <3>4, <4>1, AddedKept
      <4>3. QED
        BY <2>1, <4>1, <4>2
    <3>5. QED
      BY <3>1, <3>2, <3>3, <3>4
  <2>3. QED
    BY <1>1, <2>2, MemSumsPrimed
<1>3. pc' = "blocks" => k' <= Len(call.coeffs) + 1
  <2>1. SUFFICES ASSUME pc' = "blocks"
                 PROVE  k' <= Len(call.coeffs) + 1
    OBVIOUS
  <2>2. Len(call.coeffs) \in Nat /\ k \in Nat
    BY CallTypes DEF CheckInv, BoundsInv
  <2>3. CASE CallBlocked
    BY <2>2, <2>3 DEF CallBlocked, Goto, BoundsInv
  <2>4. CASE SkipSource \/ NextBlock \/ UNCHANGED kernelVars
    BY <2>1, <2>2, <2>4 DEF SkipSource, NextBlock, kernelVars, MultiInv
  <2>5. CASE ScalarTail
    BY <2>1, <2>2, <2>5 DEF ScalarTail, BoundsInv
  <2>6. CASE LengthsDiffer \/ LengthsChecked \/ Overlap \/ OverlapsChecked \/ CallSingle
             \/ CallDot \/ CallFused \/ NextSource \/ BlocksDone
    BY <2>1, <2>6 DEF LengthsDiffer, LengthsChecked, Overlap, OverlapsChecked, CallSingle, CallDot,
         CallFused, NextSource, BlocksDone, Goto, Enter
  <2>7. CASE VectorStep \/ DotStep \/ StageDone \/ DotTail
    BY <2>1, <2>7 DEF VectorStep, DotStep, StageDone, DotTail, Advance, Fits, Running
  <2>8. QED
    BY <2>3, <2>4, <2>5, <2>6, <2>7 DEF Next
<1>4. ASSUME call.op = "dot"
      PROVE  /\ pc' = "dot" => (mem = Memory /\ acc = Sum(Products(Memory), 0..(pos - 1)))'
             /\ pc' = "returned" =>
                  (mem = Memory /\ acc = Sum(Products(Memory), 0..(Dst.len - 1)))'
  <2>1. k = 1 /\ k' = 1
    BY <1>1, <1>4 DEF BoundsInv
  <2>2. Products(Memory)' = Products(Memory)
    BY <1>1, <2>1 DEF Products, Src
  <2>3. /\ pc' = "dot" => mem' = Memory /\ acc' = Sum(Products(Memory), 0..(pos' - 1))
        /\ pc' = "returned" => mem' = Memory /\ acc' = Sum(Products(Memory), 0..(Dst.len - 1))
    BY <1>4, DotInvStep
  <2>4. QED
    BY <1>1, <2>2, <2>3
<1>5. pc' \notin {"dot", "returned"} => acc' = Zero
  BY DEF MultiInv, Next, kernelVars, LengthsDiffer, LengthsChecked, Overlap, OverlapsChecked,
    CallSingle, CallDot, CallFused, CallBlocked, NextSource, SkipSource, NextBlock, BlocksDone,
    VectorStep, DotStep, StageDone, ScalarTail, DotTail, Goto, Enter, Advance, Fits, Running
<1>6. QED
  BY <1>1, <1>2, <1>3, <1>4, <1>5 DEF MultiInv

(***************************************************************************)
(* axpy_multi and dot: whatever the tier, the block size, the threshold of *)
(* the fused kernels, the number of sources and their alignment, every     *)
(* source is added to every byte of y exactly once, by the blocked loop as *)
(* by the fused kernels, no other byte changes, and dot returns the inner  *)
(* product without writing.                                                *)
(***************************************************************************)
THEOREM MultiKernelsAreReference == Spec => []MultiIsReference
<1>1. Init /\ CheckInv /\ BoundsInv => MultiInv
  <2> SUFFICES ASSUME Init, CheckInv, BoundsInv
               PROVE  MultiInv
    OBVIOUS
  <2>1. pc = "lengths" /\ mem = Memory /\ acc = Zero
    BY DEF Init
  <2>2. ASSUME call.op = "axpy_multi"
        PROVE  MemSums(mem, Added)
    <3>1. \A j \in 0..(Dst.len - 1) : Added[j] = {}
      BY <2>1 DEF Added
    <3>2. QED
      BY <2>1, <2>2, <3>1, NoSources
  <2>3. QED
    BY <2>1, <2>2 DEF MultiInv
<1>2. ASSUME CheckInv, BoundsInv, MultiInv
      PROVE  MultiIsReference
  <2>1. ASSUME pc = "returned", call.op = "axpy_multi"
        PROVE  mem = [a \in Address |->
                        IF a \in Bytes(Dst)
                        THEN Plus(Memory[a], Sum(Terms(Memory, a - Dst.ptr), DOMAIN call.coeffs))
                        ELSE Memory[a]]
    <3>1. MemSums(mem, Added)
      BY <1>2, <2>1 DEF MultiInv
    <3>2. ASSUME NEW a \in Address, a \in Bytes(Dst)
          PROVE  mem[a] = Plus(Memory[a], Sum(Terms(Memory, a - Dst.ptr), DOMAIN call.coeffs))
      <4>1. PICK j \in 0..(Dst.len - 1) : j = a - Dst.ptr
        BY <1>2, <2>1, <3>2, MultiTypes
      <4>2. Dst.ptr + j = a
        BY <1>2, <2>1, <3>2, <4>1, MultiTypes
      <4>3. Added[j] = DOMAIN call.coeffs
        BY <2>1 DEF Added
      <4>4. QED
        BY <3>1, <4>1, <4>2, <4>3 DEF MemSums
    <3>3. mem = [a \in Address |-> mem[a]]
      BY <3>1 DEF MemSums
    <3>4. \A a \in Address : a \notin Bytes(Dst) => mem[a] = Memory[a]
      BY <3>1 DEF MemSums
    <3>5. QED
      BY <3>2, <3>3, <3>4
  <2>2. ASSUME pc = "returned", call.op = "dot"
        PROVE  mem = Memory /\ acc = Sum(Products(Memory), 0..(Dst.len - 1))
    BY <1>2, <2>2 DEF MultiInv
  <2>3. call.op = "dot" => k = 1
    BY <1>2 DEF BoundsInv
  <2>4. QED
    BY <2>1, <2>2, <2>3 DEF MultiIsReference, Terms, Products, Src
<1>3. QED
  BY <1>1, <1>2, BoundsInvariance, MultiInvStep, PTL DEF Spec
-----------------------------------------------------------------------------
(* No loop counter runs past its bound.                                    *)
LoopsInv == off <= Dst.len /\ k <= Len(call.coeffs) + 1

LEMMA LoopsInvStep ==
  ASSUME CheckInv, BoundsInv, LoopsInv, [Next]_kernelVars
  PROVE  LoopsInv'
<1> USE CallTypes DEF CheckInv, BoundsInv, LoopsInv
<1>0. /\ Dst.len \in Nat /\ Len(call.coeffs) \in Nat
      /\ off \in Nat /\ k \in Nat /\ UNCHANGED call
  BY CallKept
<1>1. CASE NextBlock
  <2>1. off < Dst.len /\ off' = BlockEnd /\ k' = 1
    BY <1>1 DEF NextBlock
  <2>2. QED
    BY <1>0, <2>1, EndOfBlock DEF Dst
<1>2. CASE SkipSource
  BY <1>0, <1>2 DEF SkipSource, Dst
<1>3. CASE ScalarTail
  BY <1>0, <1>3 DEF ScalarTail, Dst
<1>4. CASE UNCHANGED <<call, off, k>>
  BY <1>4 DEF Dst
<1>5. QED
  BY <1>1, <1>2, <1>3, <1>4
  DEF Next, kernelVars, LengthsDiffer, LengthsChecked, Overlap, OverlapsChecked, CallSingle,
      CallDot, CallFused, CallBlocked, NextSource, BlocksDone, VectorStep, DotStep, StageDone,
      DotTail, Goto, Enter, Advance

LEMMA LoopsInvariance == Spec => [](CheckInv /\ BoundsInv /\ LoopsInv)
<1>1. Init /\ CheckInv => LoopsInv
  BY CallTypes DEF Init, LoopsInv, CheckInv
<1>2. QED
  BY <1>1, BoundsInvariance, LoopsInvStep, PTL DEF Spec

LEMMA NearerSextuple ==
  ASSUME NEW m \in Countdowns(6), NEW n \in Countdowns(6),
         \/ m[1] < n[1]
         \/ m[1] = n[1] /\ m[2] < n[2]
         \/ m[1] = n[1] /\ m[2] = n[2] /\ m[3] < n[3]
         \/ m[1] = n[1] /\ m[2] = n[2] /\ m[3] = n[3] /\ m[4] < n[4]
         \/ m[1] = n[1] /\ m[2] = n[2] /\ m[3] = n[3] /\ m[4] = n[4] /\ m[5] < n[5]
         \/ m[1] = n[1] /\ m[2] = n[2] /\ m[3] = n[3] /\ m[4] = n[4] /\ m[5] = n[5] /\ m[6] < n[6]
  PROVE  Nearer(6, m, n)
<1>1. \E j \in 1..6 : /\ \A i \in 1..(j - 1) : m[i] = n[i]
                      /\ <<m[j], n[j]>> \in OpToRel(<, Nat)
  BY DEF OpToRel, Countdowns
<1>2. QED
  BY <1>1 DEF Nearer, Descent, LexProductOrdering, Countdowns

LEMMA ExtentType ==
  ASSUME CheckInv, BoundsInv, Running
  PROVE  Extent \in Nat /\ Extent - pos \in Nat
<1>1. Extent \in Nat
  BY CallTypes, EndOfBlock DEF Extent, CheckInv, BoundsInv
<1>2. QED
  BY <1>1 DEF BoundsInv

LEMMA KernelStepsLeftType ==
  CheckInv /\ BoundsInv /\ LoopsInv => KernelStepsLeft \in Countdowns(6)
<1> SUFFICES ASSUME CheckInv, BoundsInv, LoopsInv
             PROVE  KernelStepsLeft \in Countdowns(6)
  OBVIOUS
<1>1. /\ Dst.len - off \in Nat /\ Len(call.coeffs) + 1 - k \in Nat
      /\ Len(plan) \in Nat /\ pos \in Nat
  BY CallTypes DEF CheckInv, BoundsInv, LoopsInv, Plan
<1>2. \A a, b, c, d, e, f \in Nat : <<a, b, c, d, e, f>> \in Countdowns(6)
  BY DEF Countdowns
<1>3. CASE Running
  BY <1>1, <1>2, <1>3, ExtentType DEF KernelStepsLeft, Running
<1>4. CASE pc = "blocks"
  BY <1>1, <1>2, <1>4 DEF KernelStepsLeft, Running
<1>5. CASE pc \in {"lengths", "overlaps", "dispatch", "returned", "panicked"}
  BY <1>2, <1>5 DEF KernelStepsLeft, Running
<1>6. QED
  BY <1>3, <1>4, <1>5 DEF CheckInv, Running

(* Each step of a call is nearer to the end of the call.                   *)
LEMMA KernelStepDescends ==
  ASSUME CheckInv, BoundsInv, LoopsInv,
         KernelStepsLeft \in Countdowns(6), KernelStepsLeft' \in Countdowns(6), Next
  PROVE  Nearer(6, KernelStepsLeft', KernelStepsLeft)
<1> DEFINE m == KernelStepsLeft'
           n == KernelStepsLeft
<1> SUFFICES
      \/ m[1] < n[1]
      \/ m[1] = n[1] /\ m[2] < n[2]
      \/ m[1] = n[1] /\ m[2] = n[2] /\ m[3] < n[3]
      \/ m[1] = n[1] /\ m[2] = n[2] /\ m[3] = n[3] /\ m[4] < n[4]
      \/ m[1] = n[1] /\ m[2] = n[2] /\ m[3] = n[3] /\ m[4] = n[4] /\ m[5] < n[5]
      \/ m[1] = n[1] /\ m[2] = n[2] /\ m[3] = n[3] /\ m[4] = n[4] /\ m[5] = n[5] /\ m[6] < n[6]
  BY NearerSextuple
<1>0. /\ Dst.len \in Nat /\ Len(call.coeffs) \in Nat
      /\ off \in Nat /\ k \in Nat /\ pos \in Nat /\ plan \in Plan
  BY CallTypes DEF CheckInv, BoundsInv
<1>a. \A x, z \in Nat : x + 1 - (z + 1) < x + 1 - z
  OBVIOUS
<1>1. CASE LengthsDiffer
  <2>1. /\ KernelStepsLeft = <<4, 0, 0, 0, 0, 0>>
        /\ KernelStepsLeft' = <<0, 0, 0, 0, 0, 0>>
    BY <1>1 DEF KernelStepsLeft, Running, LengthsDiffer, Goto
  <2>2. QED
    BY <1>0, <2>1
<1>2. CASE LengthsChecked
  <2>1. /\ KernelStepsLeft = <<4, 0, 0, 0, 0, 0>>
        /\ KernelStepsLeft' \in {<<3, 0, 0, 0, 0, 0>>, <<2, 0, 0, 0, 0, 0>>}
    BY <1>2 DEF KernelStepsLeft, Running, LengthsChecked, Goto
  <2>2. QED
    BY <1>0, <2>1
<1>3. CASE Overlap
  <2>1. /\ KernelStepsLeft = <<3, 0, 0, 0, 0, 0>>
        /\ KernelStepsLeft' = <<0, 0, 0, 0, 0, 0>>
    BY <1>3 DEF KernelStepsLeft, Running, Overlap, Goto
  <2>2. QED
    BY <1>0, <2>1
<1>4. CASE OverlapsChecked
  <2>1. /\ KernelStepsLeft = <<3, 0, 0, 0, 0, 0>>
        /\ KernelStepsLeft' = <<2, 0, 0, 0, 0, 0>>
    BY <1>4 DEF KernelStepsLeft, Running, OverlapsChecked, Goto
  <2>2. QED
    BY <1>0, <2>1
<1>5. CASE CallSingle \/ CallDot \/ CallFused
  <2>1. pc = "dispatch" /\ Running'
    BY <1>5 DEF CallSingle, CallDot, CallFused, Enter, Running
  <2>2. KernelStepsLeft = <<2, 0, 0, 0, 0, 0>>
    BY <2>1 DEF KernelStepsLeft, Running
  <2>3. KernelStepsLeft'[1] = 1
    BY <2>1 DEF KernelStepsLeft, Running
  <2>4. QED
    BY <2>2, <2>3
<1>6. CASE CallBlocked
  <2>1. pc = "dispatch" /\ pc' = "blocks"
    BY <1>6 DEF CallBlocked, Goto
  <2>2. KernelStepsLeft[1] = 2 /\ KernelStepsLeft'[1] = 1
    BY <2>1 DEF KernelStepsLeft, Running
  <2>3. QED
    BY <2>2
<1>7. CASE NextSource
  <2>1. pc = "blocks" /\ pc' = "kernel" /\ UNCHANGED <<call, off, k>>
    BY <1>7 DEF NextSource, Enter
  <2>2. /\ KernelStepsLeft = <<1, Dst.len - off, Len(call.coeffs) + 1 - k, 1, 0, 0>>
        /\ KernelStepsLeft' = <<1, Dst.len - off, Len(call.coeffs) + 1 - k, 0, (Extent - pos)', Len(plan)'>>
    BY <2>1 DEF KernelStepsLeft, Running, Dst
  <2>3. QED
    BY <2>2
<1>8. CASE SkipSource
  <2>1. /\ KernelStepsLeft = <<1, Dst.len - off, Len(call.coeffs) + 1 - k, 1, 0, 0>>
        /\ KernelStepsLeft' = <<1, Dst.len - off, Len(call.coeffs) + 1 - (k + 1), 1, 0, 0>>
    BY <1>8 DEF KernelStepsLeft, Running, SkipSource, Dst
  <2>2. Len(call.coeffs) + 1 - (k + 1) < Len(call.coeffs) + 1 - k
    BY ONLY <1>0, <1>a
  <2>3. QED
    BY <2>1, <2>2
<1>9. CASE NextBlock
  <2>1. off < Dst.len
    BY <1>9 DEF NextBlock
  <2>2. /\ KernelStepsLeft = <<1, Dst.len - off, Len(call.coeffs) + 1 - k, 1, 0, 0>>
        /\ KernelStepsLeft' = <<1, Dst.len - BlockEnd, Len(call.coeffs) + 1 - 1, 1, 0, 0>>
    BY <1>9 DEF KernelStepsLeft, Running, NextBlock, Dst
  <2>3. Dst.len - BlockEnd < Dst.len - off
    BY <1>0, <2>1, EndOfBlock
  <2>4. QED
    BY <2>2, <2>3
<1>10. CASE BlocksDone
  <2>1. pc = "blocks" /\ pc' = "returned"
    BY <1>10 DEF BlocksDone, Goto
  <2>2. KernelStepsLeft[1] = 1 /\ KernelStepsLeft'[1] = 0
    BY <2>1 DEF KernelStepsLeft, Running
  <2>3. QED
    BY <2>2
<1>11. CASE VectorStep \/ DotStep
  <2>1. /\ Running /\ plan # <<>>
        /\ pos' = pos + Span(Head(plan))
        /\ UNCHANGED <<pc, call, off, k>>
    BY <1>11 DEF VectorStep, DotStep, Fits, Advance
  <2>2. Extent' = Extent
    BY <2>1 DEF Extent, BlockEnd, Dst
  <2>3. /\ KernelStepsLeft = <<1, Dst.len - off, Len(call.coeffs) + 1 - k, 0, Extent - pos, Len(plan)>>
        /\ KernelStepsLeft' =
             <<1, Dst.len - off, Len(call.coeffs) + 1 - k, 0, Extent - (pos + Span(Head(plan))), Len(plan)'>>
    BY <2>1, <2>2 DEF KernelStepsLeft, Running, Dst
  <2>4. Extent - (pos + Span(Head(plan))) < Extent - pos
    BY <1>0, <2>1, Heads, ExtentType
  <2>5. QED
    BY <2>3, <2>4
<1>12. CASE StageDone
  <2>1. Running /\ plan # <<>> /\ plan' = Tail(plan) /\ UNCHANGED <<pc, call, off, k, pos>>
    BY <1>12 DEF StageDone
  <2>2. Extent' = Extent
    BY <2>1 DEF Extent, BlockEnd, Dst
  <2>3. /\ KernelStepsLeft = <<1, Dst.len - off, Len(call.coeffs) + 1 - k, 0, Extent - pos, Len(plan)>>
        /\ KernelStepsLeft' =
             <<1, Dst.len - off, Len(call.coeffs) + 1 - k, 0, Extent - pos, Len(Tail(plan))>>
    BY <2>1, <2>2 DEF KernelStepsLeft, Running, Dst
  <2>4. Len(Tail(plan)) < Len(plan)
    BY <1>0, <2>1 DEF Plan
  <2>5. QED
    BY <2>3, <2>4
<1>13. CASE ScalarTail
  <2>1. Running /\ UNCHANGED <<call, off>>
    BY <1>13 DEF ScalarTail
  <2>2. KernelStepsLeft = <<1, Dst.len - off, Len(call.coeffs) + 1 - k, 0, Extent - pos, Len(plan)>>
    BY <2>1 DEF KernelStepsLeft, Running
  <2>3. CASE pc = "kernel" /\ call.op = "axpy_multi"
    <3>1. pc' = "blocks" /\ k' = k + 1
      BY <1>13, <2>3 DEF ScalarTail
    <3>2. KernelStepsLeft' = <<1, Dst.len - off, Len(call.coeffs) + 1 - (k + 1), 1, 0, 0>>
      BY <2>1, <3>1 DEF KernelStepsLeft, Running, Dst
    <3>3. Len(call.coeffs) + 1 - (k + 1) < Len(call.coeffs) + 1 - k
      BY ONLY <1>0, <1>a
    <3>4. QED
      BY <2>2, <3>2, <3>3
  <2>4. CASE ~(pc = "kernel" /\ call.op = "axpy_multi")
    <3>1. pc' = "returned"
      BY <1>13, <2>4 DEF ScalarTail
    <3>2. KernelStepsLeft' = <<0, 0, 0, 0, 0, 0>>
      BY <3>1 DEF KernelStepsLeft, Running
    <3>3. QED
      BY <2>2, <3>2
  <2>5. QED
    BY <2>3, <2>4
<1>14. CASE DotTail
  <2>1. KernelStepsLeft[1] = 1 /\ KernelStepsLeft'[1] = 0
    BY <1>14 DEF KernelStepsLeft, Running, DotTail
  <2>2. QED
    BY <2>1
<1>15. QED
  BY <1>1, <1>2, <1>3, <1>4, <1>5, <1>6, <1>7, <1>8, <1>9, <1>10, <1>11, <1>12, <1>13, <1>14
  DEF Next

(***************************************************************************)
(* No call goes round in circles, whatever its slices, its coefficients,   *)
(* the block size and the plans of the tier: every step descends in an     *)
(* order in which nothing descends for ever. For axpy_multi that is the    *)
(* nesting of the blocks, the sources and the vector loops.                *)
(***************************************************************************)
THEOREM KernelCallsCountDown == Spec => KernelCountsDown
<1> DEFINE Typed == KernelStepsLeft \in Countdowns(6)
           KInv == CheckInv /\ BoundsInv /\ LoopsInv
<1>1. KInv /\ Typed /\ Typed' /\ [Next]_kernelVars
        => [Nearer(6, KernelStepsLeft', KernelStepsLeft)]_kernelVars
  BY KernelStepDescends
<1>2. KInv => Typed
  BY KernelStepsLeftType
<1>3. Spec => []KInv
  BY LoopsInvariance
<1> HIDE DEF Typed, KInv
<1>4. QED
  BY <1>1, <1>2, <1>3, PTL DEF Spec, KernelCountsDown
=============================================================================
