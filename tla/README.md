# A verification project for rlnc-simdx

rlnc-simdx is a Rust library for random linear network coding: an encoder turns
the K source symbols of a *generation* into coded packets (random linear
combinations over GF(2^8)), relays recode the packets they hold, and a decoder
recovers the symbols from any K independent packets by Gaussian elimination.
The byte arithmetic is done by one of several SIMD kernels chosen at run time.

This directory holds TLA+ modules translated from the source under
`src/rlnc-simdx/src/` (paths below are relative to it) and from the
multithreaded benchmark in `src/rlnc-simdx-mt-bench/src/`, TLC configurations that
check them on small instances, and TLAPS proofs for every size and field.
`PROJECT.json` maps each definition to its source lines, and lists the runs,
the hazards they are aimed at, a mutation of the code for every property, and
the theorems.

1. [Inventory](#1-inventory)
2. [Modules](#2-modules)
3. [How the code is represented](#3-how-the-code-is-represented)
4. [Runs and bounds](#4-runs-and-bounds)
5. [Fairness](#5-fairness)
6. [Proofs](#6-proofs)
7. [What is only model-checked, and what is not modelled](#7-what-is-only-model-checked-and-what-is-not-modelled)
8. [Plan](#8-plan)

## 1. Inventory

| Component | State | Operations | What makes it correct |
|---|---|---|---|
| GF(2^8) arithmetic (`field/`) | constant tables EXP (512 entries, doubled), LOG, INV; nibble tables | add, mul, inv, pow, div of `Gf8` | table arithmetic is polynomial arithmetic, for zero too, although LOG has no entry for it; EXP[255], EXP[510] and EXP[511], written by hand, continue the others (only the first is ever looked up) |
| Decoder (`decoder.rs`) | coefficient and payload rows, `pivot_col`, `elimination_factors`, `rank`, `decoded` | `new`, `receive`, `decode`, `rank`, `is_complete` | innovative means outside the span; rows stay in echelon form; payloads follow coefficients; decode returns the source |
| Encoder (`encoder.rs`) | generation and symbol size | `encode_random`, `encode_systematic` | payload is the code of the coefficients; never a zero packet; returns whatever is drawn |
| SimpleRng (`encoder.rs`) | one 64-bit word | `new`, `next_u8`, `fill` | never in state 0; no long runs of zero bytes |
| Recoder (`recoder.rs`) | none between calls | `recode` | both summing passes agree; returns whatever is drawn |
| GfMatrix (`matrix.rs`) | padded rows in one aligned buffer | row axpy, scale, swap; `gaussian_elimination`; `is_full_rank` | row space kept, reduced form reached, rank right, padding zero; `is_full_rank` never wrong when it says no |
| AlignedBuffer (`aligned.rs`) | pointer, length, capacity over the allocator's heap | `zeroed`, `from_slice`, `clone`, writes, `to_vec`, `into_vec`, drop | capacity does not wrap; freed with the layout it was allocated with; buffers are independent sequences of bytes |
| Kernel API (`kernel/mod.rs`) | none between calls; the caller's slices | `axpy`, `scale`, `scale_inplace`, `axpy_multi`, `dot` | equal to the scalar definition for every length and alignment; all assertions come before the first write; calls end |
| Dispatch (`kernel/mod.rs`) | a `OnceLock` with the chosen kernels | `detect`, `runtime::get`, the static chains of `no_std` builds, the benchmarks' list of tiers | a kernel runs only where its instructions exist; all threads see one table; run-time and compile-time choice agree |
| SIMD kernels (`kernel/x86`, `kernel/arm`, `kernel/wasm`) | none | one axpy, scale, ... for each tier | every byte once, for every length; no access outside the slice or its alignment |
| Multithreaded benchmark (`rlnc-simdx-mt-bench`) | decode rows per worker; candidates and observations of the autotuner | `DecodeState.decode`, `autotune`, `measure_candidate`, `calibrate_generations`, `run_parallel` | decodes exactly the independent generations, also in used rows; each generation once; the best measured count wins; the loops end |
| Errors, criterion benchmarks, property tests | – | – | not modelled |

**How they interact.** Encoder, Recoder and Decoder live on different hosts and
share nothing but packets (`CodedPacket`: a coefficient vector and a payload).
Encoder and Recoder are passed a `SimpleRng` by the caller, seeded as the caller likes,
and call `kernel::axpy_multi`; Decoder and GfMatrix call
`kernel::axpy_unchecked` and `kernel::scale_inplace` on slices of rows and read the
EXP/LOG tables to invert pivots. All kernel calls go through the dispatch table. GfMatrix
stores its rows in an AlignedBuffer. There are no callbacks, no persistence and
no network code in the repository; `&mut self` gives each object one caller at
a time. Threads meet only at the `OnceLock`, at the allocator and in the benchmark,
whose workers keep decode rows of their own and share a count of generations.

**Which behaviours are hard.**

* `receive` reduces the coefficients first and the payload later, from factors
  kept in a buffer that outlives the call. Any disagreement between the two
  loops produces a wrong symbol long after, and no error.
* Three vectors (`coefficient_rows`, `payload_rows`, `pivot_col`) are permuted
  together; pivots may arrive in any order.
* Back-substitution is done in place and at most once, guarded by a flag that
  `receive` resets.
* Every elimination step works on a suffix only (from the pivot's column in the
  decoder, from the column rounded down to the alignment in GfMatrix), which is
  right only as long as what is left out is zero.
* Packets are lost, repeated, reordered and recoded any number of times.
* Two retry loops are bounded only by a counter, which the generator should never let run out.
* A kernel is a cascade of vector loops, single vectors and a scalar tail, different
  in each of nine tiers; `axpy_multi` wraps them in blocks or replaces them by a fused kernel.
* Aligned loads are chosen by the addresses at the start of a slice and used at
  positions that depend on its length.
* Three encodings of the same preference among tiers (detection, `cfg` chains,
  benchmark list), and first calls that race for the one detection.
* Allocation, copying and freeing are separate steps over memory that is handed out again.
* The benchmark decodes again and again in the same rows, and calibrates until a
  clock is satisfied.
* Number edges: LOG[0], pow with exponents beyond the group order, the seed that
  wraps to 0, capacities near the end of `usize`, slices that touch.

`PROJECT.json` lists the hazards line by line with the properties that watch
them; every hazard listed has one. The line `KERNEL.get_or_init(detect)` is all there is of threads
in the library itself; how they wait for each other there is the business of std's `OnceLock`.

## 2. Modules

| Module | Extends | What it models |
|---|---|---|
| `Gf8` | – | table generators, operators and nibble tables on bytes written as sets of bits |
| `Field` | – | a field of characteristic two as constants with `FieldAssumption`; axpy and scale |
| `LinearAlgebra` | `Field` | coefficient vectors, payloads, and `Code`, the linear map from one to the other |
| `Decoder` | `LinearAlgebra` | `receive` and `decode`, one step per loop iteration |
| `Countdown` | – | the lexicographic order on tuples of naturals in which calls come nearer to their ends |
| `DecoderInvariant` | `Decoder`, `Countdown` | its properties and inductive invariant |
| `DecoderSpec` | `LinearAlgebra` | the abstract decoder: a span and what the calls answer |
| `DecoderRefinement` | `DecoderInvariant` | history variable `span`; `DecoderSpec` as a property |
| `Encoder`, `Recoder` | `LinearAlgebra`, `Countdown` | the senders, their properties and invariants |
| `SimpleRng` | – | xorshift on words written as sets of bits |
| `ZeroRuns` | `SimpleRng` | the search for runs of zero bytes: elimination over all states at once, with one generator running along |
| `Pipeline` | `DecoderInvariant`, `Encoder`, `Recoder` | the three components and a network |
| `PipelinePromise` | `Pipeline`, `DecoderRefinement` | history variables `sent` and `span`, and what the pipeline promises from end to end |
| `Matrix` | `Field`, `Countdown` | `GfMatrix` on its flat, padded buffer |
| `SimdKernels` | `Field` | the plan of each SIMD kernel: vector loops, single vectors, alignment |
| `Kernel` | `SimdKernels`, `Countdown` | the public kernel functions on slices of one memory, running those plans |
| `Dispatch` | `Countdown` | `detect`, the `OnceLock`, the `cfg` chains, the list of tiers |
| `ByteBuffers` | – | the abstract buffers: a sequence of bytes per variable |
| `AlignedBuffer` | – | buffers over an allocator; `INSTANCE ByteBuffers WITH value <- Value, outcome <- Answer` |
| `BatchDecoder` | `LinearAlgebra`, `Countdown` | the benchmark's decoder of whole generations |
| `MtBench` | `Countdown` | the benchmark's autotuner and its fork-join runs |
| `MCField`, `MCSymbols` | `Field`, `LinearAlgebra` | values for the constants: subfields of GF(2^8) taken from `Gf8`, and a fixed linear code |
| `MCGf8`, `MCDecoder`, `MCSenders`, `MCPipeline`, `MCSimpleRng`, `MCMatrix`, `MCKernel`, `MCDispatch`, `MCAlignedBuffer`, `MCMtBench` | | instances for TLC |
| `LinearAlgebraProofs` | `LinearAlgebra` | lemmas on vectors, induction, sizes of spaces |
| `DecoderProofs`, `RefinementProofs` | `DecoderInvariant`, `DecoderRefinement` | theorems about the decoder, and about its specification |
| `PipelineProofs` | `PipelinePromise`, `ZeroRuns`, `RefinementProofs` | theorems about senders, network and generator |
| `EliminationProofs` | `Matrix`, `BatchDecoder` | theorems about the two other eliminations |
| `KernelProofs`, `BufferProofs` | `Kernel`, `AlignedBuffer` | theorems about kernels and buffers |
| `ThreadProofs` | `Dispatch`, `MtBench` | theorems about the programs with threads |

The kernels appear at two levels. `Kernel` shows that a public kernel
function, whatever tier it runs on, computes the scalar definition; the components
above it (`Decoder`, `Encoder`, `Recoder`, `Matrix`, `BatchDecoder`) use that definition
(`AxpyFrom`, `ScaleFrom` of `Field`) as one step. In the same way `AlignedBuffer` shows that
buffers are sequences of bytes, and `Matrix` uses one.

## 3. How the code is represented

*Bytes.* `Gf8` computes with real bytes. Everything above it takes the field as
a parameter, constrained by `FieldAssumption`; run `gf8` checks the corresponding
laws on all 256 bytes, so GF(2^8) is one of the fields the proofs speak of. TLC
is given the subfield {0x00, 0x01, 0xBC, 0xBD} (or {0x00, 0x01}) *with the library's own
table arithmetic on it*: `MCField` reads `Gf8!Mul` and `Gf8!PivotInverse`.
A subfield is closed under everything the components do, and with four elements
a pivot may differ from one, so normalisation matters.

*Payloads.* A payload is what a linear map `Code` makes of the coefficients. That
is what a correct sender computes (`Encoder` and `Recoder` are shown to) and it
lets a property say that a payload belongs to its coefficients. A packet with a
payload that does not match its coefficients is outside the model: the library
has no way to notice one.

*Calls.* `pc`, `enc_pc`, `rec_pc`, `mat_pc`, `dec_pc` say where a call is. A call is one
action to begin, one for each iteration of its loops, and one for each return; a check that
returns early is an action with that check as its guard. In `Decoder`:

| Code | Action |
|---|---|
| size checks (93-104) | `ReceiveMismatch` |
| complete already (106-108) | `ReceiveWhenComplete` |
| coefficient loop, factor recorded (117-135) | `Reduce` |
| all zero: `Ok(false)` (137-140) | `Dependent` |
| payload loop over recorded factors (142-155) | `ReducePayload` |
| division by the pivot (157-162) | `Normalise` |
| push, swaps, pivot, rank, flag (164-187) | `Insert`, all in one action |
| `decode` returns `None` / cached symbols | `DecodeIncomplete` / `DecodeAgain` |
| back-substitution (210-233) | `BackSubstitute`, `NextPivot`, `FinishDecode` |

Locals that have gone out of scope are reset to a fixed value, which keeps the
state space small and hides nothing: no later step reads them.
`elimination_factors` is *not* reset, as in the code.

*Slices of rows.* The decoder's operations start at the pivot column (`AxpyFrom`,
`ScaleFrom`) and GfMatrix's at `OperationStart(col)`, as in the code, so the
argument that the columns left out are zero is checked and not assumed. Matrix
addresses one flat buffer by `row * Stride + column`.

*Summing.* `axpy_multi` in Encoder and Recoder adds one source per step over the
whole symbol. That the real function, in blocks or fused, comes to the same is
`MultiIsReference` of `Kernel`.

*Kernels.* In `Kernel` memory is a function from addresses to bytes and a slice is an
address and a length, so that overlap and alignment mean what they mean in the
code. A behaviour is one call: two calls share nothing that one of them writes. A call goes
through its assertions in their order, is dispatched, and runs plans. A plan is a
sequence of stages `[unroll, vector, aligned, loop]`, the shape of
`while i + 4 * 64 <= len { .. }`, `while i + 64 <= len { .. }`, `if i + 32 <= len { .. }`, tail;
`VectorStep` runs an iteration, `StageDone` leaves a loop, `ScalarTail` is the scalar kernel on the rest.
Vector widths are multiples of the constant `Lane`. What an intrinsic does to the bytes of a vector is
taken as the field's product or xor; that two lookups in nibble tables make
a product is checked byte by byte in `Gf8`. `SimdKernels` has an operator for each kernel in the
source files, with the same name.

*Dispatch.* A processor is an architecture and a set of features. `Requires` is the
`target_feature` of a tier's kernels, `Detected` the condition in `detect`, `Compiled` the `cfg` of
the arm in a static function; the three are separate translations, and the properties compare them. The
`OnceLock` is the standard library's and external: one thread runs the closure, the others sleep and look again. What the
repository adds is that this is the only way to the table, and `detect` itself.

*Buffers.* The allocator is external: it may return any free aligned block, or null. Freed
memory is `Poison`, as is memory never written, so that a byte nobody wrote shows when it is read. `from_slice`
and `clone` are two actions each (allocate, copy), between which other slots may move: buffers are `Send` and `Sync`. The borrow
rules are guards: a buffer being cloned can be read and not written or dropped. The address of an empty
buffer is the dangling 1.

*Benchmark.* `BatchDecoder` starts from any coefficient matrix and from rows as the last decode left
them. In `MtBench` durations and throughputs are arbitrary, so the multiplier of the calibration is
any of those the clamp allows and a score is any of a set. A worker's share of a run is one
step; what it does with a generation is `BatchDecoder` (decoding) or one `axpy_multi` per row (encoding,
module `Kernel`).

*Randomness.* In `Encoder` and `Recoder` a draw is any vector, any number of times in a row; the retry bound
is a constant (100 in the code). The signatures of `encode_random` and `recode` admit only
`SimpleRng`, so the model has more behaviours than the program: run `rng` shows that no seed makes
that generator draw so many zeros that the loops give up. What is shown of the senders thus holds of the code and does
not rest on its generator.

*Network.* `Pipeline` adds the hosts: sending, loss, repetition, reordering. This
part is external: the repository has no code for it.

## 4. Runs and bounds

| Run | Instance | Distinct states | Shows |
|---|---|---|---|
| `gf8` | all 256 bytes, 10 exponents | 256 | every operator agrees with polynomial arithmetic and every entry of EXP with its neighbour; field laws, nibble tables |
| `decoder` | 4-element field, K = 3, N = 1 | 310 thousand | echelon form, payloads follow coefficients, decode returns the source, rank is the dimension of what was received |
| `decoder_promise` | 4-element field, K = 2, N = 2 | 1 483 | the inductive invariant, refinement of `DecoderSpec`, every call returns |
| `senders` | 4-element field, K = N = 2, 2 inputs, 3 retries | 82 thousand | packets are coded, the encoder's not zero; the recoder's passes agree; both retry loops end |
| `pipeline` | 2-element field, K = N = 2, 3 packets in flight | 287 thousand | packets stay coded and in the span of what the encoder sent; the decoder at the end keeps the promise of `DecoderSpec` |
| `rng` | 64 bits, 5 seeds and all states at once | 1 220 | state 0 is not reached; nine zero bytes in a row are impossible |
| `matrix` | 4-element field, 3 rows of 3, alignment 2 | 65 thousand | elimination keeps the row space and returns its dimension, reaches the reduced form; `is_full_rank` before and after; padding |
| `kernel` | 9 tiers, vectors of 2, 4 and 8 bytes, blocks of 16, fusion from 32 bytes and 2 sources, 27 lengths up to 71 | 119 thousand | checks before writes, single and multi kernels equal the definition, accesses in bounds and aligned, calls end |
| `dispatch` | all 64 sets of six x86 features, 4 other targets, 3 threads | 34 thousand | kernels only where supported, builds agree, one table, every thread gets it |
| `dispatch_test` | 12 plausible x86 processors, 1 thread | – | *violation*: what a unit test expects of tier 1 (see below) |
| `aligned` | 2 buffers, 8 bytes of heap, alignment 2, `usize` of 4 bits | 62 thousand | capacities never wrap, one block per buffer, buffers are values |
| `mt_bench` | generations of 3 packets; machines of 1 to 6 threads | 79 thousand | decode is exact in used rows, generations run once, tuning ends at a best count |

**Why the bounds are enough to meet the interesting cases.** With K = 3 a packet
can have its pivot before, between or beyond the stored ones, a reduction can
skip a row between two others, and back-substitution has rows that must be final
before they are used. The packets are all vectors of the space, in every order,
with repetitions; receive and decode may be called in any order, before and after
completion. N = 2 in `decoder_promise` lets the two bytes of a payload differ.
Three retries have a first, a middle and a last draw. Two inputs to
`recode` can be equal, dependent or cancel to a zero packet. `MCSenders` runs one of the two
senders in a behaviour; both run together in `Pipeline`. In `matrix` the
alignment 2 puts column 1 behind an aligned start of 0 and column 2 at an
aligned start of its own, every row has one byte of padding, and there are
rows above and below a pivot row at once; to keep the instance small `MCMatrix` lets the caller's
matrices have any bytes in the first row and bits in the others.

`pipeline` keeps its instance small with three restrictions named in `MCPipeline`: nothing else
happens while a component is inside a call, at most `MaxInFlight` packets are in flight,
and the senders are called with arguments they accept. Components share only the
network, and no step inside a call touches it, so nothing is lost by the
first. The proofs of `PipelineProofs` have none of the three.

`rng` checks all states at once by linear algebra: `Shifted` is linear over xor, so
the set of states whose last outputs were all zero is a subspace, which
`ZeroRuns` carries as a basis and narrows one bit at a time. When the basis is empty no generator
can have drawn only zeros, from whatever seed (`EmptyBasisIsEnough`, for every width); the run adds that, with the
library's width and shifts, nine draws empty it. The basis does not depend on the seed. Draws are capped at three times
`MaxDraws`, which is why this run switches deadlock checking off.

`kernel` scales everything by eight: an XMM register has 2 bytes instead of 16 and an
unrolled AVX-512 iteration 32 instead of 256. The lengths are all those up to 17 and the ones around each
sum of widths, so that each stage of each plan runs no time, once and twice and each tail
is empty and not; lengths of `axpy_multi` reach over three blocks with a short
last one, and lie on both sides of the fusion threshold. Addresses are divisible by every
width, by some, and by none; rejected calls touch, overlap by one byte at either end, coincide, or
have one bad source after a good one. `KernelProofs` has no such bounds. A behaviour is one call and
ends, so deadlock checking is off here.

`dispatch` has every set of features, plausible or not, so that no arm of a chain is
covered by another by accident, and three threads: one inside `detect`, one asleep, one arriving late.

`aligned` has lengths below a vector, above one, one whose padded size no layout
takes, and the two sides of the largest length that can be padded; the heap fits two
long buffers or is too fragmented for one, so the allocator fails too.

`mt_bench` checks its two machines one at a time (`Tune`, `Decode` in `MCMtBench`), with all first rows
over four bytes and all binary second and third rows, the Vandermonde matrix of the
benchmark's kind, requested counts of 0, 3 and 7 and a limit of 8 generations. `Stopped` is the only way to stop, after the end or a failure, so the
deadlock check shows that tuning and decoding never get stuck elsewhere.

**The violation.** `detect` takes tier 1 when the processor has GFNI, AVX512F and AVX512BW, as the
table in the module's documentation says (`kernel/mod.rs:29`, `:275`). The unit test
`runtime_dispatch_selects_best` (`kernel/mod.rs:1010`) expects tier 1 already with GFNI and AVX512F. Run
`dispatch_test` states the test's expectation (`TestExpectsTier1`) and finds the processor where it fails: one with
GFNI, AVX2 and AVX512F and without AVX512BW. The code is right, its kernels need AVX512BW (`KernelsSupported`
holds); the test is too strong.

**Mutants.** For every property of every passing run, `PROJECT.json` names a change to the model that
a plausible mistake in the code would amount to (an elimination factor left
over from an earlier packet, a payload left out of back-substitution, a retry
counter that starts over, a start rounded up, an unrolled loop that advances by one vector, a layout made from the
length, ...) with which TLC finds the property violated. The mutated
definitions stand next to the ones they change.

## 5. Fairness

* `FairSpec`, `HSpec`, `EncoderFairSpec` and `RecoderFairSpec` (for TLC together as `SendersSpec`) assume weak fairness of
  the *steps of a call that has begun* and nothing else: a thread that is executing
  `receive` goes on executing it. Nobody is obliged to make a call, and nothing is
  assumed of what is drawn or received, so `SendersReturn` (`EncodeAlwaysReturns` and `RecodeAlwaysReturns`) holds for
  draws of zeros for ever.
* `Kernel!Spec`: weak fairness of `Next`, for the same reason; the behaviour *is* a call.
* `Dispatch!Spec`: weak fairness of `Get(t)` for each thread. The scheduler runs every thread, and the
  operating system delivers the wake-up of the `OnceLock`. Calling a kernel (`Call`, `Enter`) is not fair.
* `MtSpec` of `MtBench`: weak fairness of `MtNext`: workers run, and the join returns. Nothing is
  assumed of the times measured, so `BenchmarkEnds` covers a machine on which every run
  seems too short.
* `Pipeline`, `Matrix`, `AlignedBuffer`, `BatchDecoder` and `SimpleRng` claim only safety.

This is all that fairness is needed for: *that the call goes on*. That a call which goes on must end is proved
without it, by countdowns (section 6).

## 6. Proofs

The theorems hold for every value of the constants that satisfies the named
assumptions:

* `FieldAssumption` – the bytes form a field in which a + a = 0. Checked for all of
  GF(2^8) in run `gf8` (associativity and distributivity against generators of
  the field), and by TLC for the subfields of the other runs.
* `SizeAssumption` – K and N are positive; the constructors refuse zero.
* `CodeAssumption` – `Code` is linear and yields payloads.
* `LaneAssumption`, `KernelAssumption` – vectors and blocks are not empty, slices lie in memory, and
  single-source functions have one source.
* `BufferAssumption` – `ALIGN` is positive, `isize` is no larger than `usize`, slices consist of
  bytes; no value doubles as `None`.
* `FiniteField` – a byte has finitely many values. Only the two theorems about dimensions use it: they count.
* `FixturesAssumption` – fixtures are square matrices over the field.
* `MatrixAssumption` – a matrix has rows and columns and a positive alignment; no number doubles as "no elimination yet".
* `DispatchAssumption` – processors have one of the architectures the code tells apart, every AArch64 processor has NEON, and `None` is not a tier.
* `MtBenchAssumption` – there is a hardware thread, the limits are positive, "no count requested" is not a number, and scores are naturals.
* `NoneAssumption`, `RetriesAssumption`, `RecoderAssumption`, `WordAssumption` – `None` is not a column,
  the bounds are positive, the constant of the generator is a non-zero word.

**The decoder** (`DecoderProofs`). The inductive invariant `IInv` is a
conjunction of named parts:

* `ControlInv`: which fields go with which point of a call.
* `PivotInv`: pivots ascend *at least as fast as row numbers*. That is stronger than the
  order the code asserts, and is what makes "K rows" imply "pivot i in row i" without
  induction.
* `RowInv`: each row has a one at its pivot and zeros before it. This justifies all suffix
  operations.
* `RemainderInv`: what has been cleared of the packet being received. It is needed for the
  new pivot to be in a column no row has, hence for `PivotInv`.
* `PayloadsFollowCoefficients` and `ReplayInv`: payload and coefficients are apart *during* receive; the
  invariant says by how much. There is a trail of intermediate vectors, each
  obtained from the one before by a recorded factor and a stored row, and the
  payload is always the code of some vector on that trail. This is what shows
  that no factor of an earlier packet is replayed.
* `BacksubInv`: the part of the matrix above the diagonal that is already clear.

`StepIInv` has one lemma per action. `EchelonForm`, `CompleteIsIdentity`, `PayloadsFollow`, `FlagIsValid` and
`DecodeReturnsSource` follow from `IInv`: whatever packets arrive, in whatever order and
however often, `decode` returns the source symbols or nothing.

**The decoder keeps its promise** (`RefinementProofs`, `DecoderImplementsPromise`). Every step of the decoder is a step
of `DecoderSpec`, whose only state is the span of what was received, or a stutter. The usual argument
(the rows are a basis of the span) needs sums over rows and induction on their number. Here
`SpanInv` ties rows and span together without either:

* the span is closed under axpy and holds every row, and, during a call, the remainder plus some nonzero
  multiple of the original packet;
* a vector of the span that is zero at all pivots is zero;
* every vector can be cleared at all pivots by adding a vector of the span.

The second part makes "the remainder is zero" equivalent to "the packet is in the span"
(`Reduced`); the third survives the insertion of a row because the new row is itself cleared at
the old pivots (`InsertSpan`), and at full rank it makes the span everything (`CompleteSpan`). The
theorem is about `PromiseSafety`, the part of `ImplementsPromise` without fairness.

`RankCountsIndependentPackets` counts: a vector of the span is determined by its entries at the pivots (second
part) and these may be any (third part), so the span is in bijection with the functions from rows to
bytes (`SpanSize`). The library's theorems about finite sets turn the bijection into an equality of cardinalities. It is
stated with the set of functions and not as a power of the size of the field, because the provers know no exponentiation.

**Induction.** The provers cannot instantiate an induction theorem whose parameter is an operator. They can use one whose
parameter is a *set*: `SetInduction` says that a set with 0 and with the successor of each of its naturals has
all naturals, and follows from the well-foundedness of < on Nat through `LeastElement`. The step that matters is to
name the set `{n \in Nat : ...}` and hide it. What a recursive function or a fold of the community modules computes is
then proved in two parts: by induction there *is* a function that satisfies the recursive equation (`SpanExists`, `SumExists`,
`FoldExists`, `PushedExists`), so the `CHOOSE` behind the definition satisfies it, and a second induction uses the equation.

**The senders and the pipeline** (`PipelineProofs`). The encoder's partial sum is the code of the *prefix* of the
coefficients added so far; the recoder's second pass follows the trail of sums
left by its first. `EncodedPacketsAreCodes` and `RecodedPacketsAreCodes` hold for any number of
retries and inputs. Every step of the pipeline is a step of the decoder's
specification or leaves the decoder alone (`PipelineServesDecoder`), because everything on the
network is coded (`NetworkStaysCoded`). Hence every theorem about the decoder holds in the pipeline,
in particular `PipelineDelivers`. Here all components may be inside calls at once.

*From end to end.* `PipelinePromise` keeps the span of what the encoder has sent next to the span of what the decoder has
answered. `NothingIsInvented`: every packet in flight, and everything the decoder has counted, is in the span of what was sent. A
relay may redraw, give up and fix a weight, take a packet twice, or sum dependent packets; `SentInv` says that all it holds
(its inputs, the sum so far) is in that span, which is a space and only grows. That the weight, not the coefficient, is what
giving up fixes is what this rests on. `PipelineKeepsPromise` carries the refinement of `DecoderSpec` over to the decoder at the
end of the network, and `DecodedHasBeenSent` combines the two: symbols are returned only when the packets received, and so the
packets sent, span everything.

**Termination.** A call whose every step descends in a well-founded order cannot go on for ever. `Countdown` defines the order,
tuples of naturals of which an earlier one outweighs all later ones; that this is well-founded is a fact of order theory, which lemma
`CountdownsEnd` (`DecoderProofs`) takes from the library's theorem on lexicographic products. What has to be shown of the code is that its
steps descend. Each loop nest has one measure, from the outermost loop to the innermost:

| Theorem | Measure |
|---|---|
| `DecoderCountsDown` | phase of the call; rows left, or pivots left to substitute; rows above that pivot |
| `EncoderCountsDown`, `RecoderCountsDown` | phase; draws left before the loop gives up, or sources left |
| `EliminationEnds` (GfMatrix) | columns left; rows left to clear, after a pivot has been looked for |
| `BatchDecodeEnds` | back substitution to come; columns left, or pivots left to substitute; rows left to clear |
| `KernelCallsCountDown` | phase; bytes of the blocks left; sources left; inside a kernel or between two; bytes left to the kernel; stages left of its plan |
| `TuningCountsDown` | phase of tuning; candidates; stage of a measurement; generations up to the limit, or samples; workers |
| `GetCountsDownAlways` | what the cell has still to become; what is left to the thread meanwhile |

The invariants already proved supply most of what is needed; two had to be added. `LoopsInv` keeps the block offset and the source
index within their bounds. `Begun` says that a measurement runs with at least one generation: from none, the calibration's
multiplication would stay at none for ever. In `Dispatch` the measure is one for each thread: its own steps descend, and the
steps of the others leave it where it is or nearer to the table. What these theorems leave to the runs is that a call which has not ended has a next step: liveness where a run
states it, and the deadlock check of runs `matrix` and `mt_bench` for `gaussian_elimination` and the batch decoder. That the step is taken
is fairness.

**The generator** (also in `PipelineProofs`). `NeverZero`: each of the three xor-shift lines maps
non-zero words to non-zero words, because the lowest (for a left shift) or
highest (for a right shift) one-bit survives. The seed that wraps to 0 is replaced by a non-zero constant.
`EmptyBasisIsEnough` is the soundness of the elimination in run `rng`: `ShiftedLinear`, three linear lines one after the other, lets a
draw move the span of the basis (`DrawSpans`), and clearing a bit keeps whatever has that bit zero (`WithoutSpans`). A span is
characterised by the sets that are closed under xor and contain the basis, so that no sums are needed. The generator's state stays in it as
long as only zeros were drawn, and it is never zero, so an empty basis means that something else was.

**The kernels** (`KernelProofs`). Lengths, addresses, vector widths, block size and thresholds are arbitrary.

* `ChecksComeFirst`: `CheckInv` says what has been established at each point of a call; `OverlapIsSharedByte`
  shows that the arithmetic of `ranges_overlap` means "shares a byte".
* `SingleKernelsAreReference`: `BoundsInv` keeps the position inside the slice whatever the plan;
  `ValuesInv` says memory is the reference result up to the position and untouched from there. No kernel
  is special: any plan of any stages would do, so only the bounds of a stage and the advance matter.
* `MultiKernelsAreReference`: `Sum` is a fold over the *set* of sources; `SumSplit` and `SumAdd` show, by induction on the
  number of sources, that one may be split off wherever one likes. `MultiInv` then takes one source at a time: a byte of the
  destination holds its old value plus the products of the sources before `k` in this block, and those of all sources in the
  blocks before (`Added`). The fused kernels add all sources to a vector at once, and `dot` adds up bytes
  instead of sources; both are steps of the same sums.
* `KernelsStayInBounds`: `AlignInv` finds for each plan one width that divides both addresses, of which
  every aligned stage's width and every step before it is a multiple; this part does look at every plan.

**The buffers** (`BufferProofs`). `PaddedCap` does the arithmetic of rounding up. `BufferInv` says that live blocks and
buffers with a capacity correspond, that their ranges are disjoint, and that a slot whose
copy is outstanding has a block of the right length while its original is complete
(`PendingInv`, which is what the borrow rules are for). `ValueUpdate` then gives that a write inside one block changes one
value, from which each action maps to one of `ByteBuffers` or to a stutter. `CapacitiesFit`, `BlocksAreOwned` and
`BuffersImplementValues` are the three properties of run `aligned`, for every allocator.

**GfMatrix** (`EliminationProofs`). `Addresses` shows that `row * Stride + column` takes each index of the buffer to one
row and one byte of it, and `AxpyEntries`, `ScaleEntries` and `SwapEntries` say what the operations on the flat buffer do to
entries; from there on the argument is about rows.

* `RowSpaceContains` and `RowSpaceLeast` characterise `RowSpace`, a recursive sum, as the least subspace with all rows in it.
  An operation that can be undone by another keeps it (`SameRowSpace`), *if* what its aligned start leaves out is zero.
* `MatrixInv` provides that: `EliminationInv` says that there are pivots for the first rows, ascending, alone in their
  columns, and that the rows after them are zero in all columns visited; `ClearRowsInv` how far the column of the new pivot
  has been cleared. The code keeps no list of pivots, so the invariant says that one exists.
* `EliminationReduces`, `RankTestIsExact` and `EliminationFindsRank` read it at the end. The last counts as the decoder's proof does:
  by induction over the rows, a vector of the row space that is zero at the pivots is zero (`DeterminedByPivots`), and
  there is one with any entries there (`AnyPivots`). For `is_full_rank`, `PivotRowsIndependent` uses that the vectors which are zero at
  a row's pivot are a subspace with all other rows in it, and not that row.

**The benchmark's decoder** (`EliminationProofs`). `ForwardInv` says that rows without a pivot are zero in visited columns and that,
as long as no column was skipped, the pivots are on the diagonal; K pivots in K columns leave none to
skip, so back substitution starts from a triangular matrix (`BackInv`) and ends at the identity, with payloads that follow
(`RowsStayTogether`). `IndependentInv` says that the rows are independent exactly when the packets are: every row operation
turns a combination of the new rows into one of the old rows that vanishes with it. A row of zeros depends on the
others, unit rows do not, which settles both answers: `BatchDecodeIsExact`.

**The threads** (`ThreadProofs`). `OnceInv`: a cell that is being initialised has exactly one thread in `detect`, an empty
one has none, a full one holds what `detect` returns on this processor. `BuildsChooseAlike` compares, for each function and architecture, the first of the `cfg` arms with
the first of the detected tiers (`FirstIs`, `ChainsAgree`). In the benchmark, `RunInv` gives every finished worker its share, and
`SharesAddUp` shows that shares which are equal but for the first few add up to the count. `TuneInv` says which counts have
been measured: in the second phase everything around the best coarse count that precedes the current candidate, so that the best of all, when
there is nothing left to measure, has measured neighbours.

## 7. What is only model-checked, and what is not modelled

Only model-checked:

* Liveness (`CallReturns`, `SendersReturn`, `CallEnds`, `GetReturns`, `BenchmarkEnds`, and the
  fairness of `DecoderSpec`): TLAPS does not reason about fairness and ENABLED. What is proved of it is the countdowns;
  what the runs add is that a call which has not ended always has a next step. For `gaussian_elimination` and the batch decode,
  whose specifications have no fairness, the deadlock check says so.
* `Gf8` against polynomial arithmetic (`TablesArePolynomial`, `FieldLaws`, `NibblesAreProduct`): facts about one field of 256
  elements, of which the run meets every one.
* `ZeroRunsAreShort`: that nine draws empty the basis depends on the actual shifts 13, 7, 17 and on the width 64. That an empty
  basis is what one has to look for is proved.
* `TestExpectsTier1`, which is false.

Every other property that a run checks is stated by a theorem. Some theorems state properties that no run repeats: the countdowns, whose
consequence under fairness the runs check; `DecoderIsServed` and `DecodedWasSent`, which `PromiseSafety` and `NothingInvented` cover;
`RowsBelongTogether`, from which `BatchIsExact` follows at the end of a decode.

Not modelled:

* The alignment of an empty buffer: its pointer dangles at address 1, which the documentation's "guaranteed 64-byte alignment"
  (`aligned.rs:38`) leaves out. `BuffersFit` speaks of buffers with a capacity; the kernels do not touch a slice of length 0.
* Constructors' `InvalidParameters` (they are the constants' assumptions), `Display`, formatting and conversions (`error.rs`).
* The SVE kernel: a stub dispatch never selects.
* Of the benchmark: `EncodeState.encode` beyond its `axpy_multi` calls, the digest (a checksum that goes to `black_box` and nowhere else, so neither its value nor that it might depend on the schedule is the subject of a property), fixtures, which are fixed data, the median of the samples, printing.
* Criterion and standalone benchmarks (timing loops without state) and the property tests of the kernels.
* The standard library's `OnceLock`, feature detection, thread pool and allocator are external: modelled by what the code relies on.

## 8. Plan

Done: all components with logic of their own, each checked by a run; every invariant and every action property that is about
more than one concrete field or generator is proved for all values of the constants, as are a countdown for every loop that
is modelled iteration by iteration, `gaussian_elimination` and the batch decode among them, and the pipeline's promise from end to end.

What could be added:

1. `DecoderSpec` with the rank as an answer to `rank()` and `is_complete()`, now that `RankCountsIndependentPackets` ties
   rank and span together.
2. `EncodeState.encode` of the benchmark as a module of its own, next to `BatchDecoder`.
3. The fixtures of the benchmark: that the Vandermonde matrices it builds are invertible, by evaluation over all of GF(2^8).
