----------------------------- MODULE MCDispatch -----------------------------
(***************************************************************************)
(* Every subset of the six x86 features that dispatch looks at, whether or *)
(* not a processor has it, and the other architectures; three threads.       *)
(***************************************************************************)
EXTENDS Dispatch

MCFeatures == {"gfni", "avx512f", "avx512bw", "avx2", "sse4.2", "ssse3"}

MCMachines ==
  [arch : {"x86"}, features : SUBSET MCFeatures] \union
  {[arch |-> "aarch64", features |-> {"neon"}],
   [arch |-> "wasm", features |-> {"simd128"}],
   [arch |-> "wasm", features |-> {}],
   [arch |-> "other", features |-> {}]}

(* The x86 processors whose features come in the order they were invented,  *)
(* with and without GFNI.                                                   *)
MCLevels ==
  {{}, {"ssse3"}, {"ssse3", "sse4.2"}, {"ssse3", "sse4.2", "avx2"},
   {"ssse3", "sse4.2", "avx2", "avx512f"},
   {"ssse3", "sse4.2", "avx2", "avx512f", "avx512bw"}}

MCProcessors ==
  [arch : {"x86"}, features : MCLevels \union {level \union {"gfni"} : level \in MCLevels}]
=============================================================================
