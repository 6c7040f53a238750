------------------------------- MODULE Kernel -------------------------------
(***************************************************************************)
(* The kernel API of rlnc-simdx (kernel/mod.rs): axpy, scale,              *)
(* scale_inplace, axpy_multi and dot on slices of one memory. A call       *)
(* validates its slices or panics, then runs kernels of the tier that      *)
(* dispatch selected, block by block for axpy_multi, and each kernel runs  *)
(* its plan (SimdKernels) one vector step at a time.                       *)
(*                                                                         *)
(* Calls share nothing but memory, and a slice being written is borrowed   *)
(* exclusively, so a behaviour is one call.                                *)
(***************************************************************************)
EXTENDS SimdKernels, Folds, Countdown

CONSTANTS
  Tiers,       \* the tiers dispatch may select, named after their source file
  Memory,      \* the bytes before the call, a function of their addresses
  Calls,       \* the calls: [op, coeffs, sources, y]; a slice is [ptr, len]
  Block,       \* BLOCK, 4096
  FusedLen,    \* the length from which axpy_multi uses a fused kernel, 32 KiB
  FusedCount   \* and the number of sources, 8

Address == DOMAIN Memory

Ops == {"axpy", "scale", "scale_inplace", "axpy_multi", "dot"}

(* A slice lies inside an allocation, so its end is an address too. *)
Slice == [ptr : Nat, len : Nat]
Bytes(s) == s.ptr..(s.ptr + s.len - 1)

ASSUME KernelAssumption ==
  /\ Block \in Nat \ {0}
  /\ FusedLen \in Nat /\ FusedCount \in Nat
  /\ Address \subseteq Nat /\ Memory \in [Address -> Elem]
  /\ \A c \in Calls :
       /\ c.op \in Ops
       /\ c.y \in Slice /\ Bytes(c.y) \subseteq Address
       /\ c.sources \in Seq(Slice) /\ c.coeffs \in Seq(Elem)
       /\ \A s \in DOMAIN c.sources : Bytes(c.sources[s]) \subseteq Address
       /\ c.op # "axpy_multi" => Len(c.sources) = IF c.op = "scale_inplace" THEN 0 ELSE 1
       /\ c.op \notin {"axpy_multi", "dot"} => Len(c.coeffs) = 1

VARIABLES
  tier,    \* the tier runtime::get or the static chain selected
  call,    \* the arguments
  pc,      \* where the call is
  mem,     \* every byte
  off,     \* the block loop of axpy_multi
  k,       \* its loop over the sources
  plan,    \* the steps the running kernel has left
  pos,     \* its position in its slice
  acc      \* dot's accumulator: the xor of its lanes

kernelVars == <<tier, call, pc, mem, off, k, plan, pos, acc>>

Dst   == call.y
Coeff == call.coeffs[k]
Src   == call.sources[k]

Init ==
  /\ tier \in Tiers
  /\ call \in Calls
  /\ pc = "lengths"
  /\ mem = Memory
  /\ off = 0 /\ k = 1
  /\ plan = <<>> /\ pos = 0
  /\ acc = Zero

-----------------------------------------------------------------------------
(* The assertions of the safe functions. *)
ranges_overlap(a, b) ==
  /\ a.len # 0 /\ b.len # 0
  /\ a.ptr < b.ptr + b.len
  /\ b.ptr < a.ptr + a.len

LengthsMatch ==
  /\ call.op = "axpy_multi" => Len(call.coeffs) = Len(call.sources)
  /\ \A s \in DOMAIN call.sources : call.sources[s].len = Dst.len

(* Mutant: a source that is not added is not checked. *)
SomeOverlapAdded ==
  \E s \in DOMAIN call.sources :
    call.coeffs[s] # Zero /\ ranges_overlap(call.sources[s], Dst)
SomeOverlap == \E s \in DOMAIN call.sources : ranges_overlap(call.sources[s], Dst)

Goto(p) == pc' = p /\ UNCHANGED <<tier, call, mem, off, k, plan, pos, acc>>

LengthsDiffer == pc = "lengths" /\ ~LengthsMatch /\ Goto("panicked")

(* dot only reads: it has no overlap to check. *)
LengthsChecked ==
  /\ pc = "lengths" /\ LengthsMatch
  /\ Goto(IF call.op = "dot" THEN "dispatch" ELSE "overlaps")

Overlap == pc = "overlaps" /\ SomeOverlap /\ Goto("panicked")

OverlapsChecked == pc = "overlaps" /\ ~SomeOverlap /\ Goto("dispatch")

-----------------------------------------------------------------------------
(* Entering a kernel of the tier with the plan p. *)
Enter(p, kernel) ==
  /\ pc' = kernel
  /\ plan' = p
  /\ pos' = 0
  /\ UNCHANGED <<tier, call, mem, off, k, acc>>

CallSingle ==
  /\ pc = "dispatch"
  /\ \/ /\ call.op = "axpy"
        /\ Enter(AxpyKernel(tier, Coeff, Src.ptr, Dst.ptr), "kernel")
     \/ /\ call.op = "scale"
        /\ Enter(ScaleKernel(tier, Coeff, Src.ptr, Dst.ptr), "kernel")
     \/ /\ call.op = "scale_inplace"
        /\ Enter(ScaleInplaceKernel(tier, Coeff, Dst.ptr), "kernel")

CallDot == pc = "dispatch" /\ call.op = "dot" /\ Enter(DotKernel(tier), "dot")

Fuses ==
  /\ Dst.len >= FusedLen
  /\ Len(call.coeffs) >= FusedCount
  /\ tier \in FusedTiers

CallFused ==
  /\ pc = "dispatch" /\ call.op = "axpy_multi" /\ Fuses
  /\ Enter(AxpyMultiKernel(tier), "fused")

CallBlocked ==
  pc = "dispatch" /\ call.op = "axpy_multi" /\ ~Fuses /\ Goto("blocks")

-----------------------------------------------------------------------------
(* The blocks of axpy_multi and, in each, the sources. *)
Smaller(a, b) == IF a < b THEN a ELSE b

BlockEnd == Smaller(off + Block, Dst.len)

NextSource ==
  /\ pc = "blocks" /\ off < Dst.len /\ k <= Len(call.coeffs)
  /\ Coeff # Zero
  /\ Enter(AxpyKernel(tier, Coeff, Src.ptr + off, Dst.ptr + off), "kernel")

SkipSource ==
  /\ pc = "blocks" /\ off < Dst.len /\ k <= Len(call.coeffs)
  /\ Coeff = Zero
  /\ k' = k + 1
  /\ UNCHANGED <<tier, call, pc, mem, off, plan, pos, acc>>

(* Mutants: the loop over the sources is not restarted; off = end is lost. *)
NextBlockResuming ==
  /\ pc = "blocks" /\ off < Dst.len /\ k > Len(call.coeffs)
  /\ off' = BlockEnd
  /\ UNCHANGED <<tier, call, pc, mem, k, plan, pos, acc>>

NextBlockAgain ==
  /\ pc = "blocks" /\ off < Dst.len /\ k > Len(call.coeffs)
  /\ k' = 1
  /\ UNCHANGED <<tier, call, pc, mem, off, plan, pos, acc>>

NextBlock ==
  /\ pc = "blocks" /\ off < Dst.len /\ k > Len(call.coeffs)
  /\ off' = BlockEnd
  /\ k' = 1
  /\ UNCHANGED <<tier, call, pc, mem, plan, pos, acc>>

BlocksDone == pc = "blocks" /\ off >= Dst.len /\ Goto("returned")

-----------------------------------------------------------------------------
(* A kernel works on n bytes from offset off of y and of its sources. *)
Extent == IF pc = "kernel" /\ call.op = "axpy_multi" THEN BlockEnd - off ELSE Dst.len

(* xor of the values that f has on a finite set, in any order. *)
Sum(f, S) ==
  MapThenFoldSet(Plus, Zero, LAMBDA s : f[s], LAMBDA T : CHOOSE t \in T : TRUE, S)

(* What the sources contribute to byte j of y, and what dot adds up, when m  *)
(* is the memory.                                                            *)
Terms(m, j) == [s \in DOMAIN call.coeffs |-> Times(call.coeffs[s], m[call.sources[s].ptr + j])]
Products(m) == [j \in 0..(Dst.len - 1) |-> Times(m[Src.ptr + j], m[Dst.ptr + j])]

(* What the kernel makes of byte j of y. *)
NewByte(j) ==
  CASE pc = "fused" ->
         Plus(mem[Dst.ptr + j], Sum(Terms(mem, j), DOMAIN call.coeffs))
    [] pc = "kernel" /\ call.op \in {"axpy", "axpy_multi"} ->
         Plus(mem[Dst.ptr + j], Times(Coeff, mem[Src.ptr + j]))
    [] pc = "kernel" /\ call.op = "scale" -> Times(Coeff, mem[Src.ptr + j])
    [] pc = "kernel" /\ call.op = "scale_inplace" -> Times(Coeff, mem[Dst.ptr + j])

(* All loads of a step come before its stores. *)
Write(from, count) ==
  mem' = [a \in Address |->
            IF a - Dst.ptr \in from..(from + count - 1) THEN NewByte(a - Dst.ptr) ELSE mem[a]]

Accumulate(from, count) ==
  acc' = Plus(acc, Sum(Products(mem), from..(from + count - 1)))

Span(stage) == stage.unroll * stage.vector

Running == pc \in {"kernel", "fused", "dot"}

(* The condition of the loop or of the tail holds. *)
Fits == Running /\ plan # <<>> /\ pos + Span(Head(plan)) <= Extent

(* Mutant: an unrolled loop advances by one vector. *)
AdvanceByVector ==
  /\ pos' = pos + Head(plan).vector
  /\ plan' = IF Head(plan).loop THEN plan ELSE Tail(plan)
  /\ UNCHANGED <<tier, call, pc, off, k>>
Advance ==
  /\ pos' = pos + Span(Head(plan))
  /\ plan' = IF Head(plan).loop THEN plan ELSE Tail(plan)
  /\ UNCHANGED <<tier, call, pc, off, k>>

VectorStep ==
  /\ Fits /\ pc # "dot"
  /\ Write(off + pos, Span(Head(plan)))
  /\ Advance
  /\ UNCHANGED acc

DotStep ==
  /\ Fits /\ pc = "dot"
  /\ Accumulate(pos, Span(Head(plan)))
  /\ Advance
  /\ UNCHANGED mem

StageDone ==
  /\ Running /\ plan # <<>> /\ ~Fits
  /\ plan' = Tail(plan)
  /\ UNCHANGED <<tier, call, pc, mem, off, k, pos, acc>>

(* The scalar kernel on what is left, after which the kernel returns. The   *)
(* fused kernels take the sources of the tail one after the other, which    *)
(* nobody can see.                                                          *)
ScalarTail ==
  /\ Running /\ pc # "dot" /\ plan = <<>>
  /\ Write(off + pos, Extent - pos)
  /\ IF pc = "kernel" /\ call.op = "axpy_multi"
     THEN pc' = "blocks" /\ k' = k + 1
     ELSE pc' = "returned" /\ k' = k
  /\ UNCHANGED <<tier, call, off, plan, pos, acc>>

DotTail ==
  /\ pc = "dot" /\ plan = <<>>
  /\ Accumulate(pos, Extent - pos)
  /\ pc' = "returned"
  /\ UNCHANGED <<tier, call, mem, off, k, plan, pos>>

-----------------------------------------------------------------------------
Next ==
  \/ LengthsDiffer \/ LengthsChecked \/ Overlap \/ OverlapsChecked
  \/ CallSingle \/ CallDot \/ CallFused \/ CallBlocked
  \/ NextSource \/ SkipSource \/ NextBlock \/ BlocksDone
  \/ VectorStep \/ DotStep \/ StageDone \/ ScalarTail \/ DotTail

Spec == Init /\ [][Next]_kernelVars /\ WF_kernelVars(Next)

-----------------------------------------------------------------------------
(* What a caller may pass, without the arithmetic of ranges_overlap. *)
Legal ==
  /\ call.op = "axpy_multi" => Len(call.coeffs) = Len(call.sources)
  /\ \A s \in DOMAIN call.sources :
       /\ call.sources[s].len = Dst.len
       /\ call.op # "dot" => Bytes(call.sources[s]) \cap Bytes(Dst) = {}

(***************************************************************************)
(* A call that panics has not touched a byte, whichever source was bad,    *)
(* and it panics exactly when some lengths differ or some source shares a  *)
(* byte with the destination.                                              *)
(***************************************************************************)
ValidBeforeMutation ==
  /\ mem # Memory => Legal
  /\ pc = "panicked" => mem = Memory /\ ~Legal
  /\ pc = "returned" => Legal

(* Byte j of y by the definition of the operation. *)
Reference(j) ==
  CASE call.op = "axpy"  -> Plus(Memory[Dst.ptr + j], Times(call.coeffs[1], Memory[call.sources[1].ptr + j]))
    [] call.op = "scale" -> Times(call.coeffs[1], Memory[call.sources[1].ptr + j])
    [] call.op = "scale_inplace" -> Times(call.coeffs[1], Memory[Dst.ptr + j])

(***************************************************************************)
(* Whatever the tier, the length and the alignment: axpy, scale and        *)
(* scale_inplace compute every byte of y once and touch no other byte.     *)
(***************************************************************************)
SingleIsReference ==
  pc = "returned" /\ call.op \in {"axpy", "scale", "scale_inplace"} =>
    mem = [a \in Address |-> IF a \in Bytes(Dst) THEN Reference(a - Dst.ptr) ELSE Memory[a]]

(***************************************************************************)
(* axpy_multi, blocked or fused, adds every source to every byte of y      *)
(* exactly once and touches no other byte; dot touches none and returns    *)
(* the inner product.                                                      *)
(***************************************************************************)
MultiIsReference ==
  /\ pc = "returned" /\ call.op = "axpy_multi" =>
       mem = [a \in Address |->
                IF a \in Bytes(Dst)
                THEN LET j == a - Dst.ptr
                     IN  Plus(Memory[a],
                              Sum([s \in DOMAIN call.coeffs |->
                                     Times(call.coeffs[s], Memory[call.sources[s].ptr + j])],
                                  DOMAIN call.coeffs))
                ELSE Memory[a]]
  /\ pc = "returned" /\ call.op = "dot" =>
       /\ mem = Memory
       /\ acc = Sum([j \in 0..(Dst.len - 1) |->
                       Times(Memory[call.sources[1].ptr + j], Memory[Dst.ptr + j])],
                    0..(Dst.len - 1))

(***************************************************************************)
(* The unsafe code of a kernel keeps its contract: every vector step lies  *)
(* inside y and inside each source it reads, and an intrinsic that demands *)
(* an aligned address gets one.                                            *)
(***************************************************************************)
AccessIsSound ==
  Fits =>
    LET stage == Head(plan)
        Sound(s) ==
          /\ off + pos + Span(stage) <= s.len
          /\ stage.aligned => (s.ptr + off + pos) % stage.vector = 0
    IN  /\ Sound(Dst)
        /\ pc = "fused" => \A s \in DOMAIN call.coeffs : Sound(call.sources[s])
        /\ pc = "dot" \/ (pc = "kernel" /\ call.op # "scale_inplace") => Sound(Src)

(***************************************************************************)
(* Every call ends, at the latest after its last block.                    *)
(***************************************************************************)
CallEnds == <>(pc \in {"returned", "panicked"})

(* How far a call is from its end: its checks, the bytes that the blocks    *)
(* still cover, the sources of the block, and in a kernel the bytes and the *)
(* steps of its plan.                                                       *)
KernelStepsLeft ==
  CASE pc = "lengths"  -> <<4, 0, 0, 0, 0, 0>>
    [] pc = "overlaps" -> <<3, 0, 0, 0, 0, 0>>
    [] pc = "dispatch" -> <<2, 0, 0, 0, 0, 0>>
    [] pc = "blocks"   -> <<1, Dst.len - off, Len(call.coeffs) + 1 - k, 1, 0, 0>>
    [] Running -> <<1, Dst.len - off, Len(call.coeffs) + 1 - k, 0, Extent - pos, Len(plan)>>
    [] pc \in {"returned", "panicked"} -> <<0, 0, 0, 0, 0, 0>>

(***************************************************************************)
(* The block loop, its loop over the sources and the loops of the kernels  *)
(* inside one another make progress: every step brings the call nearer to  *)
(* its end.                                                                *)
(***************************************************************************)
KernelCountsDown == [][Nearer(6, KernelStepsLeft', KernelStepsLeft)]_kernelVars
=============================================================================
