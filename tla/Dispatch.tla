------------------------------ MODULE Dispatch ------------------------------
(***************************************************************************)
(* How rlnc-simdx chooses its kernels (kernel/mod.rs). With std the first  *)
(* call detects the processor's features and caches a KernelSet in a       *)
(* OnceLock, which threads race to fill. Without std each function has a   *)
(* chain of cfg attributes over the features the build targets. The        *)
(* benchmarks call any axpy kernel of a list made from the detected ones.  *)
(*                                                                         *)
(* A kernel is named after its source file, which is its tier; module      *)
(* SimdKernels has a plan for each.                                        *)
(***************************************************************************)
EXTENDS Countdown, Sequences

CONSTANTS
  Threads,
  Machines,   \* [arch, features]: the processors, or the targets of a build
  None

(* The tiers that have vector kernels, the best first.                      *)
Ranking == <<"gfni_avx512", "gfni_avx2", "gfni_sse", "avx512_ssse3",
             "avx2_ssse3", "ssse3", "neon", "wasm">>
X86Tiers == {Ranking[n] : n \in 1..6}
Tiers == X86Tiers \union {"neon", "wasm", "scalar"}
Arches == {"x86", "aarch64", "wasm", "other"}

ASSUME DispatchAssumption ==
  /\ \A m \in Machines : /\ m.arch \in Arches
                         /\ m.arch = "aarch64" => "neon" \in m.features
  /\ None \notin Tiers

(* The features of target_feature(enable) on the kernels of a tier.         *)
Requires(tier) ==
  CASE tier = "gfni_avx512"  -> {"gfni", "avx512f", "avx512bw"}
    [] tier = "gfni_avx2"    -> {"gfni", "avx2"}
    [] tier = "gfni_sse"     -> {"gfni", "sse4.2"}
    [] tier = "avx512_ssse3" -> {"avx512f", "avx512bw", "ssse3"}
    [] tier = "avx2_ssse3"   -> {"avx2", "ssse3"}
    [] tier = "ssse3"        -> {"ssse3"}
    [] tier = "neon"         -> {"neon"}
    [] tier = "wasm"         -> {"simd128"}
    [] tier = "scalar"       -> {}

(* A KernelSet, its kernels of one tier; axpy_multi and dot have kernels    *)
(* only with GFNI.                                                          *)
Ops == {"axpy", "scale", "scale_inplace", "axpy_multi", "dot"}

KernelSet(tier) ==
  [op \in Ops \union {"name"} |->
     IF op \in {"axpy_multi", "dot"} /\ "gfni" \notin Requires(tier)
     THEN None ELSE tier]

(* What a chain of tests for the tiers ends in, if those in tiers succeed.  *)
First(tiers, otherwise) ==
  IF \E n \in 1..8 : Ranking[n] \in tiers
  THEN Ranking[CHOOSE n \in 1..8 : /\ Ranking[n] \in tiers
                                  /\ \A m \in 1..(n - 1) : Ranking[m] \notin tiers]
  ELSE otherwise

-----------------------------------------------------------------------------
(* With std: the features detect asks of the processor for a tier.          *)
Detected(tier, fs) ==
  CASE tier = "gfni_avx512"  -> {"gfni", "avx512f", "avx512bw"} \subseteq fs
    [] tier = "gfni_avx2"    -> {"gfni", "avx2"} \subseteq fs
    [] tier = "gfni_sse"     -> {"gfni", "sse4.2"} \subseteq fs
    [] tier = "avx512_ssse3" -> {"avx512f", "avx512bw", "ssse3"} \subseteq fs
    [] tier = "avx2_ssse3"   -> {"avx2", "ssse3"} \subseteq fs
    [] tier = "ssse3"        -> {"ssse3"} \subseteq fs

(* The tiers the target fixes: NEON is mandatory, and WASM has no run-time  *)
(* detection.                                                               *)
Fixed(m) ==
  IF m.arch = "aarch64" THEN {"neon"}
  ELSE IF m.arch = "wasm" /\ "simd128" \in m.features THEN {"wasm"} ELSE {}

DetectedTiers(m) ==
  IF m.arch = "x86" THEN {tier \in X86Tiers : Detected(tier, m.features)} ELSE Fixed(m)

detect(m) == KernelSet(First(DetectedTiers(m), "scalar"))

(* Mutant: every tier below the best is taken for granted. *)
AvailableBelow(m) ==
  LET tiers == DetectedTiers(m)
  IN  {Ranking[n] : n \in {n \in 1..6 : \E k \in 1..n : Ranking[k] \in tiers}}

available_axpy_tiers(m) == DetectedTiers(m)

-----------------------------------------------------------------------------
(* Without std: the cfg attribute of a tier's arm.                          *)
(* Mutant: the AVX2 arms give way to the foundation alone. *)
CompiledFoundation(tier, fs) ==
  /\ tier # "scalar"
  /\ Requires(tier) \subseteq fs
  /\ tier \in {"gfni_avx2", "avx2_ssse3"} => "avx512f" \notin fs

Compiled(tier, fs) ==
  LET avx512 == {"avx512f", "avx512bw"} \subseteq fs
  IN  CASE tier = "gfni_avx512"  -> "gfni" \in fs /\ avx512
        [] tier = "gfni_avx2"    -> {"gfni", "avx2"} \subseteq fs /\ ~avx512
        [] tier = "gfni_sse"     -> {"gfni", "sse4.2"} \subseteq fs /\ "avx2" \notin fs
        [] tier = "avx512_ssse3" -> avx512 /\ "ssse3" \in fs /\ "gfni" \notin fs
        [] tier = "avx2_ssse3"   -> {"avx2", "ssse3"} \subseteq fs
                                      /\ "gfni" \notin fs /\ ~avx512
        [] tier = "ssse3"        -> "ssse3" \in fs /\ "avx2" \notin fs

(* The arms that are compiled in; the first of them returns.                *)
Arms(m) ==
  IF m.arch = "x86" THEN {tier \in X86Tiers : Compiled(tier, m.features)} ELSE Fixed(m)

axpy_static(m) == First(Arms(m), "scalar")
scale_static(m) == First(Arms(m), "scalar")
scale_inplace_static(m) == First(Arms(m), "scalar")
active_kernel_name_static(m) == First(Arms(m), "scalar")

(* Only the GFNI arms are there, and nothing after them.                    *)
FusedArms(m) == {tier \in Arms(m) : "gfni" \in Requires(tier)}
axpy_multi_static(m) == First(FusedArms(m), None)
dot_static(m) == First(FusedArms(m), None)

StaticSet(m) ==
  [axpy |-> axpy_static(m), scale |-> scale_static(m),
   scale_inplace |-> scale_inplace_static(m),
   axpy_multi |-> axpy_multi_static(m), dot |-> dot_static(m),
   name |-> active_kernel_name_static(m)]

(* The kernel an operation ends in: axpy_multi falls back on axpy, dot on   *)
(* the scalar kernel.                                                       *)
Entered(kernels, op) ==
  IF kernels[op] # None THEN kernels[op]
  ELSE IF op = "axpy_multi" THEN kernels["axpy"] ELSE "scalar"

-----------------------------------------------------------------------------
VARIABLES
  machine,    \* fixed for the whole behaviour
  std,        \* whether the crate is built with std
  KERNEL,     \* the state of the OnceLock: "empty", "running", "full"
  table,      \* the KernelSet in it
  pc,         \* per thread: "idle", "get", "detect", "wait", "loaded"
  detections, \* how often a thread began to run detect
  entered     \* the tiers whose kernels have run

vars == <<machine, std, KERNEL, table, pc, detections, entered>>

Init ==
  /\ machine \in Machines
  /\ std \in BOOLEAN
  /\ KERNEL = "empty"
  /\ table = None
  /\ pc = [t \in Threads |-> "idle"]
  /\ detections = 0
  /\ entered = {}

Goto(t, from, to) ==
  /\ pc[t] = from
  /\ pc' = [pc EXCEPT ![t] = to]
  /\ UNCHANGED <<machine, std>>

(* A public kernel function, built with std, asks runtime::get().           *)
Call(t) ==
  /\ std
  /\ Goto(t, "idle", "get")
  /\ UNCHANGED <<KERNEL, table, detections, entered>>

(* Mutant: a thread that finds the cell taken always goes back to sleep. *)
FullSleeping(t) ==
  /\ KERNEL # "empty"
  /\ Goto(t, "get", "wait")
  /\ UNCHANGED <<KERNEL, table, detections, entered>>

(* OnceLock::get_or_init of the standard library, of which the repository   *)
(* relies on this much: the thread that finds the cell empty runs detect,   *)
(* others sleep until it is done and look again.                            *)
Full(t) ==
  /\ KERNEL = "full"
  /\ Goto(t, "get", "loaded")
  /\ UNCHANGED <<KERNEL, table, detections, entered>>

(* Mutant: the state is read, and the decision taken on it is late. *)
BeginRacing(t) ==
  /\ KERNEL # "full"
  /\ Goto(t, "get", "detect")
  /\ KERNEL' = "running"
  /\ detections' = detections + 1
  /\ UNCHANGED <<table, entered>>

Begin(t) ==
  /\ KERNEL = "empty"
  /\ Goto(t, "get", "detect")
  /\ KERNEL' = "running"
  /\ detections' = detections + 1
  /\ UNCHANGED <<table, entered>>

Sleep(t) ==
  /\ KERNEL = "running"
  /\ Goto(t, "get", "wait")
  /\ UNCHANGED <<KERNEL, table, detections, entered>>

Wake(t) ==
  /\ KERNEL = "full"
  /\ Goto(t, "wait", "get")
  /\ UNCHANGED <<KERNEL, table, detections, entered>>

Detect(t) ==
  /\ Goto(t, "detect", "loaded")
  /\ table' = detect(machine)
  /\ KERNEL' = "full"
  /\ UNCHANGED <<detections, entered>>

(* The function enters the kernel of the table.                             *)
Enter(t) ==
  /\ Goto(t, "loaded", "idle")
  /\ \E op \in Ops : entered' = entered \union {Entered(table, op)}
  /\ UNCHANGED <<KERNEL, table, detections>>

(* Without std the kernel was chosen when the crate was compiled.           *)
CallStatic(t) ==
  /\ ~std
  /\ Goto(t, "idle", "idle")
  /\ \E op \in Ops : entered' = entered \union {Entered(StaticSet(machine), op)}
  /\ UNCHANGED <<KERNEL, table, detections>>

(* DirectAxpyTier::axpy, on any of the available tiers.                     *)
CallDirect(t) ==
  /\ std
  /\ Goto(t, "idle", "idle")
  /\ \E tier \in available_axpy_tiers(machine) : entered' = entered \union {tier}
  /\ UNCHANGED <<KERNEL, table, detections>>

Get(t) == Full(t) \/ Begin(t) \/ Sleep(t) \/ Wake(t) \/ Detect(t)

Next == \E t \in Threads : Call(t) \/ Get(t) \/ Enter(t) \/ CallStatic(t) \/ CallDirect(t)

(* A thread inside get runs on, or is woken; it need not call again.        *)
Fairness == \A t \in Threads : WF_vars(Get(t))

Spec == Init /\ [][Next]_vars /\ Fairness

-----------------------------------------------------------------------------
DispatchTypeOK ==
  /\ machine \in Machines
  /\ std \in BOOLEAN
  /\ KERNEL \in {"empty", "running", "full"}
  /\ table \in {None} \union {KernelSet(tier) : tier \in Tiers}
  /\ pc \in [Threads -> {"idle", "get", "detect", "wait", "loaded"}]
  /\ detections \in Nat
  /\ entered \subseteq Tiers

(* No kernel ever runs on a processor without the features the kernel is    *)
(* compiled for: neither through the table that detect fills, nor through   *)
(* the cfg arms, nor through the benchmarks' list.                          *)
KernelsSupported == \A tier \in entered : Requires(tier) \subseteq machine.features

(* Whatever the features are, the cfg arms of a build that targets them     *)
(* choose for every function the kernel that detect chooses, and the name   *)
(* is that of the kernels; the best of the benchmarks' list is the          *)
(* dispatched axpy, and the list is empty only where that is the scalar     *)
(* one. The arms repeat the order of detect seven times over, each          *)
(* excluding others by hand.                                                *)
BuildsAgree ==
  /\ StaticSet(machine) = detect(machine)
  /\ detect(machine)["axpy"] = First(available_axpy_tiers(machine), "scalar")

(* However the first calls of the threads interleave, detect runs at most   *)
(* once, and a thread that has left get finds the finished table.           *)
OneTable ==
  /\ detections <= 1
  /\ \A t \in Threads : pc[t] = "loaded" => table = detect(machine)

(* A thread that asks for the table gets it: none sleeps on a cell that     *)
(* another thread has filled.                                               *)
GetReturns == \A t \in Threads : pc[t] = "get" ~> pc[t] = "loaded"

(* How far thread t is from leaving get_or_init: what the cell has still to *)
(* become, and what is left to the thread meanwhile.                        *)
GetLeft(t) ==
  <<CASE KERNEL = "empty" -> 2 [] KERNEL = "running" -> 1 [] KERNEL = "full" -> 0,
    IF KERNEL = "full"
    THEN CASE pc[t] = "wait" -> 2 [] pc[t] = "get" -> 1 [] OTHER -> 0
    ELSE CASE pc[t] = "get" -> 2 [] pc[t] = "detect" -> 1 [] OTHER -> 0>>

(* Inside get_or_init a thread never goes round in circles, and no other    *)
(* thread throws it back: each of its own steps brings it nearer to the     *)
(* table, the steps of the others leave it where it is or nearer.           *)
GetCountsDown ==
  [][\A t \in Threads : pc[t] \in {"get", "detect", "wait"} =>
        \/ Nearer(2, GetLeft(t)', GetLeft(t))
        \/ GetLeft(t)' = GetLeft(t) /\ pc'[t] = pc[t]]_vars

(* What the unit test runtime_dispatch_selects_best expects of a processor  *)
(* with gfni and avx512f.                                                   *)
TestExpectsTier1 ==
  (table # None /\ machine.arch = "x86" /\ {"gfni", "avx512f"} \subseteq machine.features)
    => table["name"] = "gfni_avx512"
=============================================================================
