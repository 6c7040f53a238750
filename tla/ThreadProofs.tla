---------------------------- MODULE ThreadProofs ----------------------------
(***************************************************************************)
(* The two programs with threads: the dispatch of the kernels, whose table *)
(* is detected once for all threads, and the multithreaded benchmark,      *)
(* which divides generations among workers and searches for the best       *)
(* number of them. For every number of threads, every machine and every    *)
(* measurement.                                                            *)
(***************************************************************************)
EXTENDS Dispatch, MtBench, FiniteSetTheorems, SequenceTheorems,
        WellFoundedInduction, TLAPS

(***************************************************************************)
(* A nonempty set of naturals has a least element.                         *)
(***************************************************************************)
LEMMA LeastElement ==
  ASSUME NEW S, S \subseteq Nat, S # {}
  PROVE  \E m \in S : \A n \in S : m <= n
<1> DEFINE R == OpToRel(<, Nat)
<1>1. IsWellFoundedOn(R, Nat)
  BY NatLessThanWellFounded
<1>2. \A m, n \in Nat : <<n, m>> \in R <=> n < m
  BY DEF OpToRel
<1> HIDE DEF R
<1>3. PICK x \in S : \A y \in S : <<y, x>> \notin R
  BY <1>1, WFMin
<1>4. \A y \in S : ~(y < x)
  BY <1>2, <1>3
<1>5. QED
  BY <1>4

(***************************************************************************)
(* Induction, on a set instead of a predicate: the least number outside it *)
(* would have a predecessor inside.                                        *)
(***************************************************************************)
LEMMA SetInduction ==
  ASSUME NEW S, 0 \in S, \A n \in Nat : n \in S => n + 1 \in S
  PROVE  Nat \subseteq S
<1> SUFFICES ASSUME Nat \ S # {}
             PROVE  FALSE
  OBVIOUS
<1>1. PICK m \in Nat \ S : \A n \in Nat \ S : m <= n
  BY LeastElement
<1>2. m - 1 \in Nat /\ m - 1 \in S
  BY <1>1
<1>3. QED
  BY <1>1, <1>2

-----------------------------------------------------------------------------
(***************************************************************************)
(* The dispatch.                                                           *)
(***************************************************************************)

LEMMA Ranks ==
  /\ Ranking[1] = "gfni_avx512" /\ Ranking[2] = "gfni_avx2" /\ Ranking[3] = "gfni_sse"
  /\ Ranking[4] = "avx512_ssse3" /\ Ranking[5] = "avx2_ssse3" /\ Ranking[6] = "ssse3"
  /\ Ranking[7] = "neon" /\ Ranking[8] = "wasm"
BY DEF Ranking

LEMMA X86TiersAre ==
  X86Tiers = {"gfni_avx512", "gfni_avx2", "gfni_sse", "avx512_ssse3", "avx2_ssse3", "ssse3"}
<1>1. 1..6 = {1, 2, 3, 4, 5, 6}
  OBVIOUS
<1>2. X86Tiers = {Ranking[n] : n \in {1, 2, 3, 4, 5, 6}}
  BY <1>1 DEF X86Tiers
<1>3. QED
  BY <1>2, Ranks

(***************************************************************************)
(* A chain of tests is decided by the first tier that passes its test.     *)
(***************************************************************************)
LEMMA FirstIs ==
  ASSUME NEW tiers, NEW otherwise, NEW n \in 1..8, Ranking[n] \in tiers,
         \A m \in 1..(n - 1) : Ranking[m] \notin tiers
  PROVE  First(tiers, otherwise) = Ranking[n]
<1> DEFINE P(k) == /\ Ranking[k] \in tiers
                   /\ \A m \in 1..(k - 1) : Ranking[m] \notin tiers
           c == CHOOSE k \in 1..8 : P(k)
<1>1. P(n)
  OBVIOUS
<1>2. c \in 1..8 /\ P(c)
  BY <1>1
<1>3. ~(c < n) /\ ~(n < c)
  BY <1>1, <1>2
<1>4. c = n
  BY <1>2, <1>3
<1>5. First(tiers, otherwise) = Ranking[c]
  BY DEF First
<1>6. QED
  BY <1>4, <1>5

LEMMA FirstOfNone ==
  ASSUME NEW tiers, NEW otherwise, \A n \in 1..8 : Ranking[n] \notin tiers
  PROVE  First(tiers, otherwise) = otherwise
BY DEF First

LEMMA FirstRank ==
  ASSUME NEW tiers, NEW b \in {6, 8}, \E n \in 1..b : Ranking[n] \in tiers
  PROVE  \E n \in 1..b : /\ Ranking[n] \in tiers
                          /\ \A m \in 1..(n - 1) : Ranking[m] \notin tiers
<1>1. PICK n \in {k \in 1..b : Ranking[k] \in tiers} :
        \A m \in {k \in 1..b : Ranking[k] \in tiers} : n <= m
  BY LeastElement
<1>2. \A m \in 1..(n - 1) : m \in 1..b
  BY <1>1
<1>3. QED
  BY <1>1, <1>2

LEMMA FirstIn ==
  ASSUME NEW tiers, NEW otherwise
  PROVE  First(tiers, otherwise) \in tiers \/ First(tiers, otherwise) = otherwise
<1> DEFINE P(k) == /\ Ranking[k] \in tiers
                   /\ \A m \in 1..(k - 1) : Ranking[m] \notin tiers
           c == CHOOSE k \in 1..8 : P(k)
<1>1. CASE \E n \in 1..8 : Ranking[n] \in tiers
  <2>1. PICK n \in 1..8 : P(n)
    BY <1>1, FirstRank
  <2>2. c \in 1..8 /\ P(c)
    BY <2>1
  <2>3. First(tiers, otherwise) = Ranking[c]
    BY <1>1 DEF First
  <2>4. QED
    BY <2>2, <2>3
<1>2. CASE ~\E n \in 1..8 : Ranking[n] \in tiers
  BY <1>2 DEF First
<1>3. QED
  BY <1>1, <1>2

LEMMA KernelSets ==
  /\ \A tier \in {"gfni_avx512", "gfni_avx2", "gfni_sse"}, op \in Ops \union {"name"} :
       KernelSet(tier)[op] = tier
  /\ \A tier \in Tiers \ {"gfni_avx512", "gfni_avx2", "gfni_sse"},
        op \in Ops \union {"name"} :
       KernelSet(tier)[op] = IF op \in {"axpy_multi", "dot"} THEN None ELSE tier
<1>1. \A tier \in Tiers :
        "gfni" \in Requires(tier) <=> tier \in {"gfni_avx512", "gfni_avx2", "gfni_sse"}
  BY X86TiersAre DEF Tiers, Requires
<1>2. {"gfni_avx512", "gfni_avx2", "gfni_sse"} \subseteq Tiers
  BY X86TiersAre DEF Tiers
<1>3. QED
  BY <1>1, <1>2 DEF KernelSet

(***************************************************************************)
(* The chain of detect and the cfg arms of a build that targets the same   *)
(* machine choose the same tier.                                           *)
(***************************************************************************)
LEMMA ChainsAgree ==
  ASSUME NEW m \in Machines
  PROVE  /\ First(Arms(m), "scalar") = First(DetectedTiers(m), "scalar")
         /\ First(FusedArms(m), None) = detect(m)["axpy_multi"]
<1>1. CASE m.arch # "x86"
  <2>1. Arms(m) = Fixed(m) /\ DetectedTiers(m) = Fixed(m)
    BY <1>1 DEF Arms, DetectedTiers
  <2>2. Fixed(m) \subseteq {"neon", "wasm"}
    BY DEF Fixed
  <2>3. \A tier \in {"neon", "wasm", "scalar"} : "gfni" \notin Requires(tier)
    BY DEF Requires
  <2>4. FusedArms(m) = {}
    BY <2>1, <2>2, <2>3 DEF FusedArms
  <2>5. First(FusedArms(m), None) = None
    BY <2>4, FirstOfNone
  <2>6. First(Fixed(m), "scalar") \in {"neon", "wasm", "scalar"}
    BY <2>2, FirstIn
  <2>7. detect(m)["axpy_multi"] = None
    BY <2>1, <2>3, <2>6 DEF detect, KernelSet, Ops
  <2>8. QED
    BY <2>1, <2>5, <2>7
<1>2. CASE m.arch = "x86"
  <2> DEFINE fs == m.features
             avx512 == {"avx512f", "avx512bw"} \subseteq fs
  <2>1. /\ Arms(m) = {tier \in X86Tiers : Compiled(tier, fs)}
        /\ DetectedTiers(m) = {tier \in X86Tiers : Detected(tier, fs)}
    BY <1>2 DEF Arms, DetectedTiers
  <2>2. /\ "gfni_avx512" \in DetectedTiers(m) <=> "gfni" \in fs /\ avx512
        /\ "gfni_avx2" \in DetectedTiers(m) <=> "gfni" \in fs /\ "avx2" \in fs
        /\ "gfni_sse" \in DetectedTiers(m) <=> "gfni" \in fs /\ "sse4.2" \in fs
        /\ "avx512_ssse3" \in DetectedTiers(m) <=> avx512 /\ "ssse3" \in fs
        /\ "avx2_ssse3" \in DetectedTiers(m) <=> "avx2" \in fs /\ "ssse3" \in fs
        /\ "ssse3" \in DetectedTiers(m) <=> "ssse3" \in fs
    BY <2>1, X86TiersAre DEF Detected
  <2>3. /\ "gfni_avx512" \in Arms(m) <=> "gfni" \in fs /\ avx512
        /\ "gfni_avx2" \in Arms(m) <=> "gfni" \in fs /\ "avx2" \in fs /\ ~avx512
        /\ "gfni_sse" \in Arms(m) <=> "gfni" \in fs /\ "sse4.2" \in fs /\ "avx2" \notin fs
        /\ "avx512_ssse3" \in Arms(m) <=> avx512 /\ "ssse3" \in fs /\ "gfni" \notin fs
        /\ "avx2_ssse3" \in Arms(m) <=> "avx2" \in fs /\ "ssse3" \in fs
                                          /\ "gfni" \notin fs /\ ~avx512
        /\ "ssse3" \in Arms(m) <=> "ssse3" \in fs /\ "avx2" \notin fs
    BY <2>1, X86TiersAre DEF Compiled
  <2> HIDE DEF fs, avx512
  <2>4. /\ Arms(m) \subseteq DetectedTiers(m) /\ DetectedTiers(m) \subseteq X86Tiers
        /\ FusedArms(m) = Arms(m) \cap {"gfni_avx512", "gfni_avx2", "gfni_sse"}
    <3>1. Arms(m) \subseteq X86Tiers /\ DetectedTiers(m) \subseteq X86Tiers
      BY <2>1
    <3>2. Arms(m) \subseteq DetectedTiers(m)
      BY <2>2, <2>3, <3>1, X86TiersAre
    <3>3. \A tier \in X86Tiers :
            "gfni" \in Requires(tier) <=> tier \in {"gfni_avx512", "gfni_avx2", "gfni_sse"}
      BY X86TiersAre DEF Requires
    <3>4. QED
      BY <3>1, <3>2, <3>3 DEF FusedArms
  <2>5. CASE DetectedTiers(m) = {}
    <3>1. Arms(m) = {} /\ FusedArms(m) = {}
      BY <2>4, <2>5
    <3>2. detect(m)["axpy_multi"] = None
      <4>1. First(DetectedTiers(m), "scalar") = "scalar"
        BY <2>5, FirstOfNone
      <4>2. QED
        BY <4>1, KernelSets DEF detect, Tiers, Ops
    <3>3. QED
      BY <2>5, <3>1, <3>2, FirstOfNone
  <2>6. ASSUME NEW n \in 1..6, Ranking[n] \in DetectedTiers(m),
               \A k \in 1..(n - 1) : Ranking[k] \notin DetectedTiers(m)
        PROVE  /\ First(Arms(m), "scalar") = First(DetectedTiers(m), "scalar")
               /\ First(FusedArms(m), None) = detect(m)["axpy_multi"]
    <3>1. n \in 1..8 /\ \A k \in 1..(n - 1) : Ranking[k] \notin Arms(m)
      BY <2>4, <2>6
    <3>2. Ranking[n] \in Arms(m)
      <4>1. CASE n = 1
        BY <2>2, <2>3, <2>6, <4>1, Ranks
      <4>2. CASE n = 2
        <5>1. Ranking[1] \notin DetectedTiers(m)
          BY <2>6, <4>2
        <5>2. QED
          BY <2>2, <2>3, <2>6, <4>2, <5>1, Ranks
      <4>3. CASE n = 3
        <5>1. Ranking[1] \notin DetectedTiers(m) /\ Ranking[2] \notin DetectedTiers(m)
          BY <2>6, <4>3
        <5>2. QED
          BY <2>2, <2>3, <2>6, <4>3, <5>1, Ranks
      <4>4. CASE n = 4
        <5>1. Ranking[1] \notin DetectedTiers(m)
          BY <2>6, <4>4
        <5>2. QED
          BY <2>2, <2>3, <2>6, <4>4, <5>1, Ranks
      <4>5. CASE n = 5
        <5>1. Ranking[2] \notin DetectedTiers(m) /\ Ranking[4] \notin DetectedTiers(m)
          BY <2>6, <4>5
        <5>2. QED
          BY <2>2, <2>3, <2>6, <4>5, <5>1, Ranks
      <4>6. CASE n = 6
        <5>1. Ranking[5] \notin DetectedTiers(m)
          BY <2>6, <4>6
        <5>2. QED
          BY <2>2, <2>3, <2>6, <4>6, <5>1, Ranks
      <4>7. QED
        BY <4>1, <4>2, <4>3, <4>4, <4>5, <4>6
    <3>3. /\ First(Arms(m), "scalar") = Ranking[n]
          /\ First(DetectedTiers(m), "scalar") = Ranking[n]
      BY <2>6, <3>1, <3>2, FirstIs
    <3>4. CASE n \in 1..3
      <4>1. Ranking[n] \in {"gfni_avx512", "gfni_avx2", "gfni_sse"}
        <5>1. n = 1 \/ n = 2 \/ n = 3
          BY <3>4
        <5>2. QED
          BY <5>1, Ranks
      <4>2. First(FusedArms(m), None) = Ranking[n]
        BY <2>4, <3>1, <3>2, <4>1, FirstIs
      <4>3. KernelSet(Ranking[n])["axpy_multi"] = Ranking[n]
        BY <4>1, KernelSets DEF Ops
      <4>4. QED
        BY <3>3, <4>2, <4>3 DEF detect
    <3>5. CASE n \in 4..6
      <4>1. /\ Ranking[1] \notin Arms(m) /\ Ranking[2] \notin Arms(m)
            /\ Ranking[3] \notin Arms(m)
        BY <3>1, <3>5
      <4>2. FusedArms(m) = {}
        BY <2>4, <4>1, Ranks
      <4>3. Ranking[n] \in {"avx512_ssse3", "avx2_ssse3", "ssse3"}
        <5>1. n = 4 \/ n = 5 \/ n = 6
          BY <3>5
        <5>2. QED
          BY <5>1, Ranks
      <4>4. KernelSet(Ranking[n])["axpy_multi"] = None
        BY <4>3, KernelSets, X86TiersAre DEF Ops, Tiers
      <4>5. QED
        BY <3>3, <4>2, <4>4, FirstOfNone DEF detect
    <3>6. QED
      BY <3>3, <3>4, <3>5
  <2>7. CASE \E n \in 1..6 : Ranking[n] \in DetectedTiers(m)
    BY <2>6, <2>7, FirstRank
  <2>8. QED
    <3>1. DetectedTiers(m) # {} => \E n \in 1..6 : Ranking[n] \in DetectedTiers(m)
      BY <2>4 DEF X86Tiers
    <3>2. QED
      BY <2>5, <2>7, <3>1
<1>3. QED
  BY <1>1, <1>2

(***************************************************************************)
(* The machine has the features that the kernels of a chosen table need.   *)
(***************************************************************************)
LEMMA DetectedSupported ==
  ASSUME NEW m \in Machines
  PROVE  \A tier \in DetectedTiers(m) : tier \in Tiers /\ Requires(tier) \subseteq m.features
<1>1. CASE m.arch = "x86"
  BY <1>1, X86TiersAre DEF DetectedTiers, Detected, Requires, Tiers
<1>2. CASE m.arch # "x86"
  BY <1>2, DispatchAssumption DEF DetectedTiers, Fixed, Requires, Tiers
<1>3. QED
  BY <1>1, <1>2

LEMMA EnteredSupported ==
  ASSUME NEW m \in Machines, NEW op \in Ops
  PROVE  /\ Entered(detect(m), op) \in Tiers
         /\ Requires(Entered(detect(m), op)) \subseteq m.features
<1>1. PICK best : best = First(DetectedTiers(m), "scalar")
  OBVIOUS
<1>2. best \in Tiers /\ Requires(best) \subseteq m.features
  <2>1. "scalar" \in Tiers /\ Requires("scalar") = {}
    BY DEF Tiers, Requires
  <2>2. QED
    BY <1>1, <2>1, FirstIn, DetectedSupported
<1>3. \A o \in Ops : detect(m)[o] \in {None, best}
  BY <1>1 DEF detect, KernelSet
<1>4. detect(m)["axpy"] = best /\ best # None /\ None # "scalar"
  BY <1>1, <1>2, DispatchAssumption DEF detect, KernelSet, Ops, Tiers
<1>5. Entered(detect(m), op) \in {best, "scalar"}
  BY <1>3, <1>4 DEF Entered
<1>6. QED
  BY <1>2, <1>5 DEF Tiers, Requires

LEMMA StaticIsDetected ==
  ASSUME NEW m \in Machines
  PROVE  StaticSet(m) = detect(m)
<1>1. PICK best : best = First(DetectedTiers(m), "scalar")
  OBVIOUS
<1>2. PICK multi : multi = First(FusedArms(m), None)
  OBVIOUS
<1>3. StaticSet(m) = [axpy |-> best, scale |-> best, scale_inplace |-> best,
                      axpy_multi |-> multi, dot |-> multi, name |-> best]
  BY <1>1, <1>2, ChainsAgree
     DEF StaticSet, axpy_static, scale_static, scale_inplace_static, axpy_multi_static,
         dot_static, active_kernel_name_static
<1>4. /\ DOMAIN StaticSet(m) = Ops \union {"name"}
      /\ StaticSet(m)["axpy"] = best /\ StaticSet(m)["scale"] = best
      /\ StaticSet(m)["scale_inplace"] = best /\ StaticSet(m)["name"] = best
      /\ StaticSet(m)["axpy_multi"] = multi /\ StaticSet(m)["dot"] = multi
  BY <1>3 DEF Ops
<1>5. StaticSet(m) = [op \in Ops \union {"name"} |-> StaticSet(m)[op]]
  BY <1>3, <1>4
<1>6. detect(m) = [op \in Ops \union {"name"} |->
                     IF op \in {"axpy_multi", "dot"} /\ "gfni" \notin Requires(best)
                     THEN None ELSE best]
  BY <1>1 DEF detect, KernelSet
<1>7. multi = IF "gfni" \notin Requires(best) THEN None ELSE best
  BY <1>2, <1>6, ChainsAgree DEF Ops
<1>8. \A op \in Ops \union {"name"} : StaticSet(m)[op] = detect(m)[op]
  BY <1>4, <1>6, <1>7 DEF Ops
<1>9. QED
  BY <1>5, <1>6, <1>8

LEMMA Agree ==
  ASSUME NEW m \in Machines
  PROVE  detect(m)["axpy"] = First(available_axpy_tiers(m), "scalar")
BY DEF detect, KernelSet, Ops, available_axpy_tiers

-----------------------------------------------------------------------------
Detecting == {t \in Threads : pc[t] = "detect"}

(***************************************************************************)
(* The state of the OnceLock decides who is in detect and what the table   *)
(* is: this is the invariant that the cached table is the detected one.    *)
(***************************************************************************)
OnceInv ==
  /\ KERNEL = "empty" => detections = 0 /\ Detecting = {}
  /\ KERNEL = "running" => detections = 1 /\ \E t \in Threads : Detecting = {t}
  /\ KERNEL = "full" => detections = 1 /\ Detecting = {} /\ table = detect(machine)
  /\ \A t \in Threads : pc[t] = "loaded" => KERNEL = "full"

DispatchInv == DispatchTypeOK /\ OnceInv /\ KernelsSupported

LEMMA DispatchInitInv == Init => DispatchInv
BY DEF Init, DispatchInv, DispatchTypeOK, OnceInv, KernelsSupported, Detecting

(***************************************************************************)
(* A step that only moves one thread, and not into or out of detect.       *)
(***************************************************************************)
LEMMA MoveInv ==
  ASSUME DispatchInv, NEW t \in Threads, NEW from, NEW to, Goto(t, from, to),
         UNCHANGED <<KERNEL, table, detections>>,
         from \in {"idle", "get", "wait", "loaded"}, to \in {"idle", "get", "wait", "loaded"},
         to = "loaded" => KERNEL = "full",
         entered' \subseteq Tiers,
         \A tier \in entered' : Requires(tier) \subseteq machine.features
  PROVE  DispatchInv'
<1>1. /\ pc' \in [Threads -> {"idle", "get", "detect", "wait", "loaded"}]
      /\ pc'[t] = to /\ \A u \in Threads \ {t} : pc'[u] = pc[u]
      /\ machine' = machine /\ std' = std
  BY DEF DispatchInv, DispatchTypeOK, Goto
<1>2. DispatchTypeOK'
  BY <1>1 DEF DispatchInv, DispatchTypeOK
<1>3. Detecting' = Detecting
  BY <1>1 DEF Detecting, Goto
<1>4. OnceInv'
  BY <1>1, <1>3 DEF DispatchInv, OnceInv
<1>5. KernelsSupported'
  BY <1>1 DEF KernelsSupported
<1>6. QED
  BY <1>2, <1>4, <1>5 DEF DispatchInv

LEMMA BeginInv ==
  ASSUME DispatchInv, NEW t \in Threads, Begin(t)
  PROVE  DispatchInv'
<1>1. /\ pc' \in [Threads -> {"idle", "get", "detect", "wait", "loaded"}]
      /\ pc'[t] = "detect" /\ \A u \in Threads \ {t} : pc'[u] = pc[u]
  BY DEF DispatchInv, DispatchTypeOK, Begin, Goto
<1>2. DispatchTypeOK'
  BY <1>1 DEF DispatchInv, DispatchTypeOK, Begin, Goto
<1>3. Detecting' = {t}
  BY <1>1 DEF Detecting, DispatchInv, OnceInv, Begin
<1>4. OnceInv'
  BY <1>1, <1>3 DEF DispatchInv, OnceInv, Begin
<1>5. KernelsSupported'
  BY DEF DispatchInv, KernelsSupported, Begin, Goto
<1>6. QED
  BY <1>2, <1>4, <1>5 DEF DispatchInv

LEMMA DetectInv ==
  ASSUME DispatchInv, NEW t \in Threads, Detect(t)
  PROVE  DispatchInv'
<1>1. /\ pc' \in [Threads -> {"idle", "get", "detect", "wait", "loaded"}]
      /\ pc'[t] = "loaded" /\ \A u \in Threads \ {t} : pc'[u] = pc[u]
      /\ machine' = machine
  BY DEF DispatchInv, DispatchTypeOK, Detect, Goto
<1>2. KERNEL = "running" /\ detections = 1 /\ Detecting = {t}
  <2>1. t \in Detecting
    BY DEF Detecting, Detect, Goto
  <2>2. QED
    BY <2>1 DEF DispatchInv, DispatchTypeOK, OnceInv
<1>3. DispatchTypeOK'
  <2>1. First(DetectedTiers(machine), "scalar") \in Tiers
    BY FirstIn, DetectedSupported DEF Tiers, DispatchInv, DispatchTypeOK
  <2>2. detect(machine) \in {KernelSet(tier) : tier \in Tiers}
    BY <2>1 DEF detect
  <2>3. QED
    BY <1>1, <2>2 DEF DispatchInv, DispatchTypeOK, Detect, Goto
<1>4. Detecting' = {}
  BY <1>1, <1>2 DEF Detecting
<1>5. OnceInv'
  BY <1>1, <1>2, <1>4 DEF OnceInv, Detect
<1>6. KernelsSupported'
  BY DEF DispatchInv, KernelsSupported, Detect, Goto
<1>7. QED
  BY <1>3, <1>5, <1>6 DEF DispatchInv

LEMMA DispatchStepInv == DispatchInv /\ [Next]_vars => DispatchInv'
<1> SUFFICES ASSUME DispatchInv, [Next]_vars
             PROVE  DispatchInv'
  OBVIOUS
<1>1. machine \in Machines /\ entered \subseteq Tiers
      /\ \A tier \in entered : Requires(tier) \subseteq machine.features
  BY DEF DispatchInv, DispatchTypeOK, KernelsSupported
<1>2. ASSUME NEW t \in Threads, Call(t)
      PROVE  DispatchInv'
  BY <1>1, <1>2, MoveInv DEF Call
<1>3. ASSUME NEW t \in Threads, Get(t)
      PROVE  DispatchInv'
  <2>1. CASE Full(t)
    BY <1>1, <2>1, MoveInv DEF Full
  <2>2. CASE Sleep(t)
    BY <1>1, <2>2, MoveInv DEF Sleep
  <2>3. CASE Wake(t)
    BY <1>1, <2>3, MoveInv DEF Wake
  <2>4. QED
    BY <1>3, <2>1, <2>2, <2>3, BeginInv, DetectInv DEF Get
<1>4. ASSUME NEW t \in Threads, Enter(t)
      PROVE  DispatchInv'
  <2>1. table = detect(machine)
    BY <1>4 DEF DispatchInv, OnceInv, Enter, Goto
  <2>2. PICK op \in Ops : entered' = entered \union {Entered(table, op)}
    BY <1>4 DEF Enter
  <2>3. entered' \subseteq Tiers /\ \A tier \in entered' : Requires(tier) \subseteq machine.features
    BY <1>1, <2>1, <2>2, EnteredSupported
  <2>4. QED
    BY <1>4, <2>3, MoveInv DEF Enter
<1>5. ASSUME NEW t \in Threads, CallStatic(t)
      PROVE  DispatchInv'
  <2>1. PICK op \in Ops : entered' = entered \union {Entered(StaticSet(machine), op)}
    BY <1>5 DEF CallStatic
  <2>2. entered' \subseteq Tiers /\ \A tier \in entered' : Requires(tier) \subseteq machine.features
    BY <1>1, <2>1, EnteredSupported, StaticIsDetected
  <2>3. QED
    BY <1>5, <2>2, MoveInv DEF CallStatic
<1>6. ASSUME NEW t \in Threads, CallDirect(t)
      PROVE  DispatchInv'
  <2>1. PICK tier \in DetectedTiers(machine) : entered' = entered \union {tier}
    BY <1>6 DEF CallDirect, available_axpy_tiers
  <2>2. entered' \subseteq Tiers /\ \A u \in entered' : Requires(u) \subseteq machine.features
    BY <1>1, <2>1, DetectedSupported
  <2>3. QED
    BY <1>6, <2>2, MoveInv DEF CallDirect
<1>7. CASE UNCHANGED vars
  BY <1>7 DEF vars, DispatchInv, DispatchTypeOK, OnceInv, KernelsSupported, Detecting
<1>8. QED
  BY <1>2, <1>3, <1>4, <1>5, <1>6, <1>7 DEF Next

LEMMA DispatchInvariant == Spec => []DispatchInv
BY DispatchInitInv, DispatchStepInv, PTL DEF Spec

LEMMA DispatchConsequences == DispatchInv => OneTable /\ BuildsAgree
<1> SUFFICES ASSUME DispatchInv PROVE OneTable /\ BuildsAgree
  OBVIOUS
<1>1. machine \in Machines /\ KERNEL \in {"empty", "running", "full"}
  BY DEF DispatchInv, DispatchTypeOK
<1>2. OneTable
  BY <1>1 DEF DispatchInv, OnceInv, OneTable
<1>3. BuildsAgree
  BY <1>1, StaticIsDetected, Agree DEF BuildsAgree
<1>4. QED
  BY <1>2, <1>3

(***************************************************************************)
(* The state of the OnceLock, the table in it and the threads are what the *)
(* types say.                                                              *)
(***************************************************************************)
THEOREM DispatchTypeCorrect == Spec => []DispatchTypeOK
BY DispatchInvariant, PTL DEF DispatchInv

(***************************************************************************)
(* No thread runs a kernel whose features the processor lacks, whichever   *)
(* thread initialises the table and whenever the others come.              *)
(***************************************************************************)
THEOREM NoUnsupportedKernel == Spec => []KernelsSupported
BY DispatchInvariant, PTL DEF DispatchInv

(***************************************************************************)
(* However the first calls of the threads interleave, detect runs at most  *)
(* once, and a thread that has left get finds the finished table.          *)
(***************************************************************************)
THEOREM OneTableForAll == Spec => []OneTable
BY DispatchInvariant, DispatchConsequences, PTL DEF DispatchInv

(***************************************************************************)
(* For every set of features, the cfg arms of a build without std choose   *)
(* the kernels that detect chooses, and the benchmarks' list begins with   *)
(* the dispatched one.                                                     *)
(***************************************************************************)
THEOREM BuildsChooseAlike == Spec => []BuildsAgree
BY DispatchInvariant, DispatchConsequences, PTL DEF DispatchInv

-----------------------------------------------------------------------------
(***************************************************************************)
(* The benchmark.                                                          *)
(***************************************************************************)

-----------------------------------------------------------------------------
(* The sum over a set, as the fold in EveryGenerationOnce computes it.     *)
Chosen(s) == CHOOSE w \in s : TRUE
Total(f, S) ==
  MapThenFoldSet(+, 0, LAMBDA w : f[w], LAMBDA T : CHOOSE w \in T : TRUE, S)
NextSum(f, g, s) == IF s = {} THEN 0 ELSE f[Chosen(s)] + g[s \ {Chosen(s)}]

LEMMA ChosenIn ==
  ASSUME NEW s, IsFiniteSet(s), s # {}
  PROVE  /\ Chosen(s) \in s
         /\ IsFiniteSet(s \ {Chosen(s)})
         /\ Cardinality(s) \in Nat
         /\ Cardinality(s \ {Chosen(s)}) = Cardinality(s) - 1
<1>1. Chosen(s) \in s
  BY DEF Chosen
<1>2. QED
  BY <1>1, FS_RemoveElement, FS_CardinalityType

LEMMA FoldExists ==
  ASSUME NEW f, NEW S, IsFiniteSet(S)
  PROVE  \E g : g = [s \in SUBSET S |-> NextSum(f, g, s)]
<1> DEFINE Sums(g, n) ==
             /\ g = [s \in SUBSET S |-> g[s]]
             /\ \A s \in SUBSET S : Cardinality(s) <= n => g[s] = NextSum(f, g, s)
           N == {n \in Nat : \E g : Sums(g, n)}
<1>1. \A s \in SUBSET S : IsFiniteSet(s) /\ Cardinality(s) \in Nat
  BY FS_Subset, FS_CardinalityType
<1>2. 0 \in N
  <2> DEFINE g == [s \in SUBSET S |-> 0]
  <2>1. \A s \in SUBSET S : Cardinality(s) <= 0 => s = {}
    BY <1>1, FS_EmptySet
  <2>2. Sums(g, 0)
    BY <2>1 DEF NextSum
  <2>3. QED
    BY <2>2
<1>3. ASSUME NEW n \in Nat, n \in N
      PROVE  n + 1 \in N
  <2>1. PICK g : Sums(g, n)
    BY <1>3
  <2> DEFINE h == [s \in SUBSET S |-> NextSum(f, g, s)]
  <2>2. ASSUME NEW s \in SUBSET S, Cardinality(s) <= n + 1
        PROVE  h[s] = NextSum(f, h, s)
    <3>1. CASE s = {}
      BY <3>1 DEF NextSum
    <3>2. CASE s # {}
      <4>1. PICK r \in SUBSET S : r = s \ {Chosen(s)} /\ Cardinality(r) <= n
        <5>1. IsFiniteSet(s) /\ s \ {Chosen(s)} \in SUBSET S
          BY <1>1
        <5>2. /\ Cardinality(s) \in Nat
              /\ Cardinality(s \ {Chosen(s)}) = Cardinality(s) - 1
          BY <3>2, <5>1, ChosenIn
        <5>3. QED
          BY <2>2, <5>1, <5>2
      <4>2. h[r] = g[r]
        BY <2>1, <4>1
      <4>3. QED
        BY <3>2, <4>1, <4>2 DEF NextSum
    <3>3. QED
      BY <3>1, <3>2
  <2>3. h = [s \in SUBSET S |-> h[s]]
    OBVIOUS
  <2> HIDE DEF h
  <2>4. Sums(h, n + 1)
    BY <2>2, <2>3
  <2>5. QED
    <3> HIDE DEF Sums
    <3>1. QED
      BY <2>4
<1>4. Nat \subseteq N
  <2> HIDE DEF N
  <2>1. QED
    BY <1>2, <1>3, SetInduction
<1>5. PICK n \in Nat : n = Cardinality(S)
  BY <1>1
<1>6. PICK g : Sums(g, n)
  BY <1>4
<1>7. \A s \in SUBSET S : g[s] = NextSum(f, g, s)
  <2>1. \A s \in SUBSET S : Cardinality(s) <= n
    BY <1>5, FS_Subset
  <2>2. QED
    BY <1>6, <2>1
<1>8. g = [s \in SUBSET S |-> NextSum(f, g, s)]
  BY <1>6, <1>7
<1>9. QED
  BY <1>8

(***************************************************************************)
(* The sum of q for each member of S and one more for those in R.          *)
(***************************************************************************)
LEMMA SumOfShares ==
  ASSUME NEW S, IsFiniteSet(S), NEW R, NEW q \in Nat, NEW f,
         \A w \in S : f[w] = IF w \in R THEN q + 1 ELSE q
  PROVE  Total(f, S) = Cardinality(S) * q + Cardinality(S \cap R)
<1> DEFINE sum == CHOOSE g : g = [s \in SUBSET S |-> NextSum(f, g, s)]
           N == {n \in Nat : \A s \in SUBSET S : Cardinality(s) = n =>
                   sum[s] = n * q + Cardinality(s \cap R)}
<1>1. sum = [s \in SUBSET S |-> NextSum(f, sum, s)]
  BY FoldExists
<1>2. Total(f, S) = sum[S]
  BY DEF Total, MapThenFoldSet, NextSum, Chosen
<1> HIDE DEF sum
<1>3. \A s \in SUBSET S : /\ IsFiniteSet(s) /\ Cardinality(s) \in Nat
                          /\ sum[s] = NextSum(f, sum, s)
  BY <1>1, FS_Subset, FS_CardinalityType
<1>4. 0 \in N
  <2>1. \A s \in SUBSET S : Cardinality(s) = 0 => s = {}
    BY <1>3, FS_EmptySet
  <2>2. sum[{}] = 0 /\ Cardinality({} \cap R) = 0
    BY <1>3, FS_EmptySet DEF NextSum
  <2>3. QED
    BY <2>1, <2>2
<1>5. ASSUME NEW n \in Nat, n \in N
      PROVE  n + 1 \in N
  <2>1. SUFFICES ASSUME NEW s \in SUBSET S, Cardinality(s) = n + 1
                 PROVE  sum[s] = (n + 1) * q + Cardinality(s \cap R)
    OBVIOUS
  <2>2. s # {}
    <3>1. SUFFICES ASSUME s = {} PROVE FALSE
      OBVIOUS
    <3>2. Cardinality(s) = 0
      BY <3>1, FS_EmptySet
    <3>3. QED
      BY <2>1, <3>2
  <2>3. PICK w, r : w = Chosen(s) /\ r = s \ {w}
    OBVIOUS
  <2>4. w \in s /\ r \in SUBSET S /\ Cardinality(r) = n /\ w \notin r
    BY <1>3, <2>1, <2>2, <2>3, ChosenIn
  <2>5. sum[r] = n * q + Cardinality(r \cap R)
    BY <1>5, <2>4
  <2>6. sum[s] = f[w] + sum[r]
    BY <1>3, <2>2, <2>3 DEF NextSum
  <2>7. IsFiniteSet(r \cap R) /\ Cardinality(r \cap R) \in Nat /\ n * q \in Nat
        /\ (n + 1) * q = n * q + q
    BY <1>3, <2>4, FS_Intersection, FS_CardinalityType
  <2>8. CASE w \in R
    <3>1. s \cap R = (r \cap R) \union {w} /\ w \notin r \cap R
      BY <2>3, <2>4, <2>8
    <3>2. Cardinality(s \cap R) = Cardinality(r \cap R) + 1
      BY <2>7, <3>1, FS_AddElement
    <3>3. f[w] = q + 1
      BY <2>4, <2>8
    <3>4. QED
      BY <2>5, <2>6, <2>7, <3>2, <3>3
  <2>9. CASE w \notin R
    <3>1. s \cap R = r \cap R
      BY <2>3, <2>9
    <3>2. f[w] = q
      BY <2>4, <2>9
    <3>3. Cardinality(s \cap R) = Cardinality(r \cap R)
      BY <3>1
    <3>4. QED
      BY <2>5, <2>6, <2>7, <3>2, <3>3
  <2>10. QED
    BY <2>8, <2>9
<1>6. Nat \subseteq N
  <2> HIDE DEF N
  <2>1. QED
    BY <1>4, <1>5, SetInduction
<1>7. sum[S] = Cardinality(S) * q + Cardinality(S \cap R)
  BY <1>3, <1>6
<1>8. QED
  BY <1>2, <1>7

LEMMA SharesAddUp ==
  ASSUME NEW n \in Nat \ {0}, NEW g \in Nat, NEW f,
         \A w \in 0..(n - 1) : f[w] = (g \div n) + (IF w < g % n THEN 1 ELSE 0)
  PROVE  Total(f, 0..(n - 1)) = g
<1>1. PICK q \in Nat, r \in 0..(n - 1) : q = g \div n /\ r = g % n
  OBVIOUS
<1>2. g = n * q + r
  BY <1>1
<1>3. PICK S, R : S = 0..(n - 1) /\ R = 0..(r - 1)
  OBVIOUS
<1>4. S \cap R = R /\ IsFiniteSet(S) /\ Cardinality(S) = n /\ Cardinality(R) = r
  <2>1. S \cap R = R
    BY <1>3
  <2>2. IsFiniteSet(0..(n - 1)) /\ Cardinality(0..(n - 1)) = n
    BY FS_Interval
  <2>3. Cardinality(0..(r - 1)) = r
    BY FS_Interval
  <2>4. QED
    BY <1>3, <2>1, <2>2, <2>3
<1>5. \A w \in S : f[w] = IF w \in R THEN q + 1 ELSE q
  BY <1>1, <1>3
<1>6. Total(f, S) = Cardinality(S) * q + Cardinality(S \cap R)
  <2>1. IsFiniteSet(S)
    BY <1>4
  <2>2. QED
    BY <1>5, <2>1, SumOfShares
<1>7. QED
  BY <1>2, <1>3, <1>4, <1>6

(***************************************************************************)
(* The loop of coarse_candidates doubles its way to max, and pushes        *)
(* something on the way.                                                   *)
(***************************************************************************)
Counts == Nat \ {0}
Pushed(max, f, t) == IF t < max THEN <<t>> \o f[2 * t] ELSE <<max>>

LEMMA PushedExists ==
  ASSUME NEW max \in Counts
  PROVE  \E f : f = [t \in 1..2 * max |-> Pushed(max, f, t)]
<1> DEFINE Loop(f, n) ==
             /\ f = [t \in 1..2 * max |-> f[t]]
             /\ \A t \in 1..2 * max : max - t <= n => f[t] = Pushed(max, f, t)
           N == {n \in Nat : \E f : Loop(f, n)}
<1>1. 0 \in N
  <2> DEFINE f == [t \in 1..2 * max |-> <<max>>]
  <2>1. \A t \in 1..2 * max : max - t <= 0 => ~(t < max)
    BY DEF Counts
  <2>2. Loop(f, 0)
    BY <2>1 DEF Pushed
  <2>3. QED
    BY <2>2
<1>2. ASSUME NEW n \in Nat, n \in N
      PROVE  n + 1 \in N
  <2>1. PICK f : Loop(f, n)
    BY <1>2
  <2> DEFINE h == [t \in 1..2 * max |-> Pushed(max, f, t)]
  <2>2. ASSUME NEW t \in 1..2 * max, max - t <= n + 1
        PROVE  h[t] = Pushed(max, h, t)
    <3>1. CASE t < max
      <4>1. 2 * t \in 1..2 * max /\ max - 2 * t <= n
        BY <2>2, <3>1 DEF Counts
      <4>2. h[2 * t] = f[2 * t]
        BY <2>1, <4>1
      <4>3. QED
        BY <3>1, <4>2 DEF Pushed
    <3>2. CASE ~(t < max)
      BY <3>2 DEF Pushed
    <3>3. QED
      BY <3>1, <3>2
  <2>3. h = [t \in 1..2 * max |-> h[t]]
    OBVIOUS
  <2> HIDE DEF h
  <2>4. Loop(h, n + 1)
    BY <2>2, <2>3
  <2>5. QED
    <3> HIDE DEF Loop
    <3>1. QED
      BY <2>4
<1>3. Nat \subseteq N
  <2> HIDE DEF N
  <2>1. QED
    BY <1>1, <1>2, SetInduction
<1>4. PICK f : Loop(f, max)
  BY <1>3 DEF Counts
<1>5. \A t \in 1..2 * max : f[t] = Pushed(max, f, t)
  BY <1>4 DEF Counts
<1>6. f = [t \in 1..2 * max |-> Pushed(max, f, t)]
  BY <1>4, <1>5
<1>7. QED
  BY <1>6

LEMMA CoarseCandidates ==
  ASSUME NEW max \in Counts
  PROVE  coarse_candidates(max) \in Seq(Counts) /\ Len(coarse_candidates(max)) > 0
<1> DEFINE pushed == CHOOSE f : f = [t \in 1..2 * max |-> Pushed(max, f, t)]
           N == {n \in Nat : \A t \in 1..2 * max : max - t <= n =>
                   pushed[t] \in Seq(Counts) /\ Len(pushed[t]) > 0}
<1>1. pushed = [t \in 1..2 * max |-> Pushed(max, pushed, t)]
  BY PushedExists
<1>2. coarse_candidates(max) = pushed[1]
  BY DEF coarse_candidates, Pushed
<1> HIDE DEF pushed
<1>3. \A t \in 1..2 * max : pushed[t] = Pushed(max, pushed, t)
  BY <1>1
<1>4. <<max>> \in Seq(Counts) /\ Len(<<max>>) > 0
  BY DEF Counts
<1>5. 0 \in N
  <2>1. SUFFICES ASSUME NEW t \in 1..2 * max, max - t <= 0
                 PROVE  pushed[t] \in Seq(Counts) /\ Len(pushed[t]) > 0
    OBVIOUS
  <2>2. ~(t < max)
    BY <2>1 DEF Counts
  <2>3. QED
    BY <1>3, <1>4, <2>2 DEF Pushed
<1>6. ASSUME NEW n \in Nat, n \in N
      PROVE  n + 1 \in N
  <2>1. SUFFICES ASSUME NEW t \in 1..2 * max, max - t <= n + 1
                 PROVE  pushed[t] \in Seq(Counts) /\ Len(pushed[t]) > 0
    OBVIOUS
  <2>2. CASE t < max
    <3>1. 2 * t \in 1..2 * max /\ max - 2 * t <= n
      BY <2>1, <2>2 DEF Counts
    <3>2. PICK u \in Seq(Counts) : u = pushed[2 * t]
      BY <1>6, <3>1
    <3>3. <<t>> \in Seq(Counts) /\ Len(<<t>>) = 1
      BY DEF Counts
    <3>4. <<t>> \o u \in Seq(Counts) /\ Len(<<t>> \o u) = 1 + Len(u) /\ Len(u) \in Nat
      BY <3>3
    <3>5. pushed[t] = <<t>> \o u
      BY <1>3, <2>2, <3>2 DEF Pushed
    <3>6. QED
      BY <3>4, <3>5
  <2>3. CASE ~(t < max)
    BY <1>3, <1>4, <2>3 DEF Pushed
  <2>4. QED
    BY <2>2, <2>3
<1>7. Nat \subseteq N
  <2> HIDE DEF N
  <2>1. QED
    BY <1>5, <1>6, SetInduction
<1>8. 1 \in 1..2 * max /\ max - 1 <= max /\ max \in Nat
  BY DEF Counts
<1>9. QED
  BY <1>2, <1>7, <1>8

LEMMA RefinementCandidates ==
  ASSUME NEW best \in Counts, NEW max \in Counts
  PROVE  /\ refinement_candidates(best, max) \in Seq(Counts)
         /\ \A t \in Most(best - 2, 1)..Least(best + 2, max) :
              \E n \in 1..Len(refinement_candidates(best, max)) :
                refinement_candidates(best, max)[n] = t
<1> DEFINE start == Most(IF best < 2 THEN 0 ELSE best - 2, 1)
           end   == Least(best + 2, max)
<1>1. /\ start \in Counts /\ end \in Nat /\ start = Most(best - 2, 1)
  BY DEF Counts, Most, Least
<1>2. refinement_candidates(best, max) = [n \in 1..(end + 1 - start) |-> start + n - 1]
  BY DEF refinement_candidates
<1> HIDE DEF start, end
<1>3. CASE end + 1 - start \in Nat
  <2>1. /\ refinement_candidates(best, max) \in Seq(Counts)
        /\ Len(refinement_candidates(best, max)) = end + 1 - start
    <3>1. PICK k \in Nat : k = end + 1 - start
      BY <1>3
    <3>2. refinement_candidates(best, max) \in [1..k -> Counts]
      BY <1>1, <1>2, <3>1 DEF Counts
    <3>3. refinement_candidates(best, max) \in Seq(Counts)
      BY <3>2
    <3>4. QED
      BY <3>1, <3>2, <3>3, LenProperties
  <2>2. ASSUME NEW t \in start..end
        PROVE  \E n \in 1..(end + 1 - start) : refinement_candidates(best, max)[n] = t
    <3>1. t + 1 - start \in 1..(end + 1 - start) /\ start + (t + 1 - start) - 1 = t
      BY <1>1 DEF Counts
    <3>2. QED
      BY <1>2, <3>1
  <2>3. QED
    BY <1>1, <2>1, <2>2 DEF end
<1>4. CASE end + 1 - start \notin Nat
  <2>1. 1..(end + 1 - start) = {} /\ start..end = {}
    BY <1>1, <1>4 DEF Counts
  <2>2. refinement_candidates(best, max) = <<>>
    BY <1>2, <2>1
  <2>3. QED
    BY <1>1, <2>1, <2>2 DEF end
<1>5. QED
  BY <1>3, <1>4

-----------------------------------------------------------------------------
Observations == Seq([threads : Counts, score : Nat])

LEMMA ObservationsType ==
  ASSUME NEW obs \in Observations
  PROVE  /\ Len(obs) \in Nat /\ DOMAIN obs = 1..Len(obs)
         /\ \A m \in 1..Len(obs) : obs[m].threads \in Counts /\ obs[m].score \in Nat
<1>1. obs \in Seq([threads : Counts, score : Nat])
  BY DEF Observations
<1>2. Len(obs) \in Nat /\ obs \in [1..Len(obs) -> [threads : Counts, score : Nat]]
  BY <1>1, LenProperties
<1>3. QED
  BY <1>2

(* b is the last of the best among the first n observations.               *)
Best(obs, b, n) ==
  /\ b \in 1..n
  /\ \A m \in 1..n : /\ obs[m].score <= obs[b].score
                     /\ m > b => obs[m].score < obs[b].score

LEMMA BestExists ==
  ASSUME NEW obs \in Observations
  PROVE  \A n \in 1..Len(obs) : \E b : Best(obs, b, n)
<1>0. Len(obs) \in Nat
  BY ObservationsType
<1> DEFINE N == {n \in Nat : n + 1 <= Len(obs) => \E b : Best(obs, b, n + 1)}
<1>1. \A m \in 1..Len(obs) : obs[m].score \in Nat
  BY ObservationsType
<1>2. 0 \in N
  <2>1. 1 <= Len(obs) => Best(obs, 1, 1)
    BY <1>1 DEF Best
  <2>2. QED
    BY <2>1
<1>3. ASSUME NEW n \in Nat, n \in N
      PROVE  n + 1 \in N
  <2>1. SUFFICES ASSUME (n + 1) + 1 <= Len(obs)
                 PROVE  \E b : Best(obs, b, (n + 1) + 1)
    OBVIOUS
  <2>2. PICK k \in Nat : k = n + 1 /\ k + 1 \in 1..Len(obs) /\ k \in 1..Len(obs)
    BY <1>0, <2>1
  <2>3. PICK b : Best(obs, b, k)
    BY <1>3, <2>2
  <2>4. \A m \in 1..(k + 1) : m \in 1..k \/ m = k + 1
    OBVIOUS
  <2>5. /\ b \in 1..k /\ b \in 1..Len(obs)
        /\ obs[b].score \in Nat /\ obs[k + 1].score \in Nat
        /\ \A m \in 1..k : /\ obs[m].score \in Nat /\ obs[m].score <= obs[b].score
                           /\ m > b => obs[m].score < obs[b].score
    BY <1>1, <2>2, <2>3 DEF Best
  <2>6. CASE obs[k + 1].score < obs[b].score
    <3>1. Best(obs, b, k + 1)
      BY <2>4, <2>5, <2>6 DEF Best
    <3>2. QED
      BY <2>2, <3>1
  <2>7. CASE ~(obs[k + 1].score < obs[b].score)
    <3>1. /\ obs[b].score <= obs[k + 1].score
          /\ \A m \in 1..k : obs[m].score <= obs[k + 1].score /\ ~(m > k + 1)
      BY <2>5, <2>7
    <3>2. ~(k + 1 > k + 1) /\ obs[k + 1].score <= obs[k + 1].score
      BY <2>5
    <3>3. \A m \in 1..(k + 1) : obs[m].score <= obs[k + 1].score /\ ~(m > k + 1)
      BY <2>4, <3>1, <3>2
    <3>4. Best(obs, k + 1, k + 1)
      BY <3>3 DEF Best
    <3>5. QED
      BY <2>2, <3>4
  <2>8. QED
    BY <2>6, <2>7
<1>4. Nat \subseteq N
  <2> HIDE DEF N
  <2>1. QED
    BY <1>2, <1>3, SetInduction
<1>5. QED
  <2>1. SUFFICES ASSUME NEW n \in 1..Len(obs)
                 PROVE  \E b : Best(obs, b, n)
    OBVIOUS
  <2>2. PICK k \in Nat : n = k + 1 /\ k + 1 <= Len(obs)
    <3>1. n - 1 \in Nat /\ n = (n - 1) + 1
      BY <1>0
    <3>2. QED
      BY <1>0, <3>1
  <2>3. QED
    BY <1>4, <2>2

LEMMA BestUnique ==
  ASSUME NEW obs \in Observations, NEW n \in 1..Len(obs), NEW b, NEW c,
         Best(obs, b, n), Best(obs, c, n)
  PROVE  b = c
<1>1. /\ b \in 1..Len(obs) /\ c \in 1..Len(obs) /\ b \in 1..n /\ c \in 1..n
      /\ obs[b].score \in Nat /\ obs[c].score \in Nat
  <2>1. b \in 1..n /\ c \in 1..n
    BY DEF Best
  <2>2. QED
    BY <2>1, ObservationsType
<1>2. ~(b < c) /\ ~(c < b)
  BY <1>1 DEF Best
<1>3. QED
  BY <1>1, <1>2

LEMMA BestThreads ==
  ASSUME NEW obs \in Observations, NEW b, Best(obs, b, Len(obs))
  PROVE  best_thread_count(obs) = obs[b].threads
<1> DEFINE P(n) == \A m \in DOMAIN obs : /\ obs[m].score <= obs[n].score
                                         /\ m > n => obs[m].score < obs[n].score
           c == CHOOSE n \in DOMAIN obs : P(n)
<1>1. DOMAIN obs = 1..Len(obs) /\ Len(obs) \in Nat
  BY ObservationsType
<1>2. b \in DOMAIN obs /\ P(b)
  BY <1>1 DEF Best
<1>3. c \in DOMAIN obs /\ P(c)
  BY <1>2
<1>4. Best(obs, c, Len(obs))
  BY <1>1, <1>3 DEF Best
<1>5. Len(obs) \in 1..Len(obs)
  BY <1>1, <1>2
<1>6. c = b
  BY <1>4, <1>5, BestUnique
<1>7. best_thread_count(obs) = obs[c].threads
  BY DEF best_thread_count
<1>8. QED
  BY <1>6, <1>7

Listed(cs, t) == \E n \in 1..Len(cs) : cs[n] = t
Seen(obs, t) == \E n \in 1..Len(obs) : obs[n].threads = t

Around(t, max) == Most(t - 2, 1)..Least(t + 2, max)

(* The first k observations are those of the coarse candidates, cc; the    *)
(* neighbours of their best are measured or still in the list.             *)
Refining(cc, max, obs, cs, k, b) ==
  /\ k \in 1..Len(obs) /\ Best(obs, b, k)
  /\ \A n \in 1..Len(cc) : \E m \in 1..k : obs[m].threads = cc[n]
  /\ \A n \in 1..Len(obs) : n > k => ~Listed(cc, obs[n].threads)
  /\ \A t \in Around(obs[b].threads, max) : Seen(obs, t) \/ Listed(cs, t)

MtType ==
  /\ max_threads \in Counts
  /\ phase \in {"coarse", "refine", "final", "done", "error"}
  /\ candidates \in Seq(Counts)
  /\ observations \in Observations
  /\ threads \in Nat /\ generations \in Nat /\ samples \in Nat

RunInv ==
  /\ DOMAIN done \subseteq Workers
  /\ \A w \in DOMAIN done : done[w] = Assigned(w)

TuneInv ==
  /\ phase = "coarse" =>
       \A n \in 1..Len(coarse_candidates(max_threads)) :
         \/ Seen(observations, coarse_candidates(max_threads)[n])
         \/ Listed(candidates, coarse_candidates(max_threads)[n])
  /\ phase \in {"refine", "final"} =>
       \E k, b : Refining(coarse_candidates(max_threads), max_threads,
                          observations, candidates, k, b)
  /\ (phase \in {"coarse", "refine"} /\ threads > 0) =>
       /\ Len(candidates) > 0 /\ threads = candidates[1]
       /\ phase = "refine" => ~Seen(observations, threads)
  /\ phase = "final" =>
       Len(candidates) = 0 /\ (threads > 0 => threads = best_thread_count(observations))
  /\ phase \in {"done", "error"} => threads = 0

MtInv == MtType /\ RunInv /\ TuneInv

-----------------------------------------------------------------------------
LEMMA Heads ==
  ASSUME NEW cs \in Seq(Counts)
  PROVE  /\ Len(cs) \in Nat
         /\ cs = <<>> <=> Len(cs) = 0
         /\ cs # <<>> => /\ Head(cs) = cs[1] /\ Head(cs) \in Counts
                         /\ Tail(cs) \in Seq(Counts)
                         /\ \A t : Listed(cs, t) => t = cs[1] \/ Listed(Tail(cs), t)
<1>1. Len(cs) \in Nat /\ (cs = <<>> <=> Len(cs) = 0)
  BY LenProperties, EmptySeq
<1>2. ASSUME cs # <<>>
      PROVE  /\ Head(cs) = cs[1] /\ Head(cs) \in Counts
             /\ Tail(cs) \in Seq(Counts)
             /\ \A t : Listed(cs, t) => t = cs[1] \/ Listed(Tail(cs), t)
  <2>1. /\ Head(cs) \in Counts /\ Tail(cs) \in Seq(Counts)
        /\ Len(Tail(cs)) = Len(cs) - 1
        /\ \A i \in 1..Len(Tail(cs)) : Tail(cs)[i] = cs[i + 1]
    BY <1>2, HeadTailProperties
  <2>2. Head(cs) = cs[1]
    BY <1>2
  <2>3. ASSUME NEW n \in 1..Len(cs)
        PROVE  cs[n] = cs[1] \/ Listed(Tail(cs), cs[n])
    <3>1. CASE n # 1
      <4>1. n - 1 \in 1..Len(Tail(cs)) /\ (n - 1) + 1 = n
        BY <1>1, <2>1, <3>1
      <4>2. Tail(cs)[n - 1] = cs[n]
        BY <2>1, <4>1
      <4>3. QED
        BY <4>1, <4>2 DEF Listed
    <3>2. QED
      BY <3>1
  <2>4. QED
    BY <2>1, <2>2, <2>3 DEF Listed
<1>3. QED
  BY <1>1, <1>2

LEMMA MoreObservations ==
  ASSUME NEW obs \in Observations, NEW rec \in [threads : Counts, score : Nat],
         NEW more, more = Append(obs, rec)
  PROVE  /\ more \in Observations
         /\ Len(obs) \in Nat /\ Len(more) = Len(obs) + 1
         /\ \A n \in 1..Len(obs) : n \in 1..Len(more) /\ more[n] = obs[n]
         /\ \A n \in 1..Len(more) : n \in 1..Len(obs) \/ n = Len(obs) + 1
         /\ more[Len(obs) + 1] = rec
         /\ \A t : Seen(more, t) <=> Seen(obs, t) \/ rec.threads = t
<1>1. obs \in Seq([threads : Counts, score : Nat]) /\ Len(obs) \in Nat
  BY ObservationsType DEF Observations
<1>2. /\ more \in Seq([threads : Counts, score : Nat])
      /\ Len(more) = Len(obs) + 1
      /\ more[Len(obs) + 1] = rec
      /\ \A n \in 1..Len(obs) : more[n] = obs[n]
  BY <1>1
<1>3. /\ \A n \in 1..Len(obs) : n \in 1..Len(more)
      /\ \A n \in 1..Len(more) : n \in 1..Len(obs) \/ n = Len(obs) + 1
      /\ Len(obs) + 1 \in 1..Len(more)
  BY <1>1, <1>2
<1>4. \A t : Seen(more, t) <=> Seen(obs, t) \/ rec.threads = t
  BY <1>2, <1>3 DEF Seen
<1>5. QED
  BY <1>1, <1>2, <1>3, <1>4 DEF Observations

LEMMA MeasuredIsSeen ==
  ASSUME MtType
  PROVE  \A t : Measured(t) <=> Seen(observations, t)
<1>1. DOMAIN observations = 1..Len(observations)
  BY ObservationsType DEF MtType
<1>2. QED
  BY <1>1 DEF Measured, Seen

(***************************************************************************)
(* A measurement of a count that no observation is of leaves the coarse    *)
(* observations the first and takes the count off the list.                *)
(***************************************************************************)
LEMMA RefiningMore ==
  ASSUME NEW cc \in Seq(Counts), NEW max, NEW obs \in Observations,
         NEW cs \in Seq(Counts), NEW k, NEW b,
         Refining(cc, max, obs, cs, k, b), cs # <<>>, ~Seen(obs, cs[1]),
         NEW rec \in [threads : Counts, score : Nat], rec.threads = cs[1],
         NEW more, more = Append(obs, rec)
  PROVE  Refining(cc, max, more, Tail(cs), k, b)
<1>1. Len(obs) \in Nat /\ Len(more) = Len(obs) + 1
  BY MoreObservations
<1>2. /\ \A n \in 1..Len(obs) : n \in 1..Len(more) /\ more[n] = obs[n]
      /\ \A n \in 1..Len(more) : n \in 1..Len(obs) \/ n = Len(obs) + 1
      /\ more[Len(obs) + 1] = rec
      /\ \A t : Seen(more, t) <=> Seen(obs, t) \/ rec.threads = t
  <2>1. \A n \in 1..Len(obs) : n \in 1..Len(more) /\ more[n] = obs[n]
    BY MoreObservations
  <2>2. \A n \in 1..Len(more) : n \in 1..Len(obs) \/ n = Len(obs) + 1
    BY MoreObservations
  <2>3. more[Len(obs) + 1] = rec
    BY MoreObservations
  <2>4. \A t : Seen(more, t) <=> Seen(obs, t) \/ rec.threads = t
    BY MoreObservations
  <2>5. QED
    BY <2>1, <2>2, <2>3, <2>4
<1>3. k \in 1..Len(obs) /\ k \in 1..Len(more) /\ b \in 1..k /\ b \in 1..Len(obs)
      /\ \A m \in 1..k : m \in 1..Len(obs)
  BY <1>2 DEF Refining, Best
<1>4. Best(more, b, k)
  BY <1>2, <1>3 DEF Refining, Best
<1>5. \A n \in 1..Len(cc) : \E m \in 1..k : more[m].threads = cc[n]
  BY <1>2, <1>3 DEF Refining
<1>6. ~Listed(cc, rec.threads)
  BY <1>3 DEF Refining, Listed, Seen
<1>7. ASSUME NEW n \in 1..Len(more), n > k
      PROVE  ~Listed(cc, more[n].threads)
  <2>1. CASE n \in 1..Len(obs)
    <3>1. more[n] = obs[n] /\ ~Listed(cc, obs[n].threads)
      BY <1>2, <1>7, <2>1 DEF Refining
    <3>2. QED
      BY <3>1
  <2>2. CASE n = Len(obs) + 1
    BY <1>2, <1>6, <2>2
  <2>3. QED
    BY <1>2, <2>1, <2>2
<1>8. \A t : Listed(cs, t) => t = cs[1] \/ Listed(Tail(cs), t)
  BY Heads
<1>9. \A t \in Around(more[b].threads, max) : Seen(more, t) \/ Listed(Tail(cs), t)
  BY <1>2, <1>3, <1>8 DEF Refining
<1>10. QED
  BY <1>1, <1>3, <1>4, <1>5, <1>7, <1>9 DEF Refining

LEMMA RefiningSkip ==
  ASSUME NEW cc, NEW max, NEW obs, NEW cs \in Seq(Counts), NEW k, NEW b,
         Refining(cc, max, obs, cs, k, b), cs # <<>>, Seen(obs, cs[1])
  PROVE  Refining(cc, max, obs, Tail(cs), k, b)
BY Heads DEF Refining

LEMMA StartRefining ==
  ASSUME NEW max \in Counts, NEW obs \in Observations,
         \A n \in 1..Len(coarse_candidates(max)) : Seen(obs, coarse_candidates(max)[n])
  PROVE  \E b : /\ best_thread_count(obs) = obs[b].threads
                /\ best_thread_count(obs) \in Counts
                /\ Refining(coarse_candidates(max), max, obs,
                            refinement_candidates(best_thread_count(obs), max), Len(obs), b)
<1>1. /\ coarse_candidates(max) \in Seq(Counts) /\ Len(coarse_candidates(max)) > 0
      /\ Len(coarse_candidates(max)) \in Nat
  BY CoarseCandidates, LenProperties
<1>2. Seen(obs, coarse_candidates(max)[1])
  BY <1>1
<1>3. Len(obs) \in Nat /\ Len(obs) \in 1..Len(obs)
  BY <1>2, ObservationsType DEF Seen
<1>4. PICK b : Best(obs, b, Len(obs))
  BY <1>3, BestExists
<1>5. best_thread_count(obs) = obs[b].threads /\ obs[b].threads \in Counts
  <2>1. b \in 1..Len(obs)
    BY <1>4 DEF Best
  <2>2. QED
    BY <1>4, <2>1, BestThreads, ObservationsType
<1>6. \A t \in Around(obs[b].threads, max) :
        Listed(refinement_candidates(obs[b].threads, max), t)
  BY <1>5, RefinementCandidates DEF Around, Listed
<1>7. \A n \in 1..Len(obs) : ~(n > Len(obs))
  BY <1>3
<1>8. Refining(coarse_candidates(max), max, obs,
               refinement_candidates(obs[b].threads, max), Len(obs), b)
  BY <1>3, <1>4, <1>6, <1>7 DEF Refining, Seen
<1>9. QED
  BY <1>5, <1>8

(***************************************************************************)
(* The best of all observations, if it is of a coarse candidate, is the    *)
(* one whose neighbours have been measured.                                *)
(***************************************************************************)
LEMMA BestIsRefined ==
  ASSUME NEW cc, NEW max, NEW obs \in Observations, NEW cs, NEW k, NEW b,
         Refining(cc, max, obs, cs, k, b), Len(cs) = 0
  PROVE  \E c : /\ Best(obs, c, Len(obs)) /\ best_thread_count(obs) = obs[c].threads
                /\ Listed(cc, obs[c].threads) =>
                     \A t \in Around(obs[c].threads, max) : Seen(obs, t)
<1>1. Len(obs) \in Nat /\ k \in 1..Len(obs) /\ Len(obs) \in 1..Len(obs)
  BY ObservationsType DEF Refining
<1>2. PICK c : Best(obs, c, Len(obs))
  BY <1>1, BestExists
<1>3. best_thread_count(obs) = obs[c].threads
  BY <1>2, BestThreads
<1>4. ASSUME Listed(cc, obs[c].threads)
      PROVE  \A t \in Around(obs[c].threads, max) : Seen(obs, t)
  <2>1. c \in 1..Len(obs) /\ ~(c > k)
    BY <1>2, <1>4 DEF Refining, Best
  <2>2. c \in 1..k /\ \A m \in 1..k : m \in 1..Len(obs)
    BY <1>1, <2>1
  <2>3. Best(obs, c, k) /\ Best(obs, b, k)
    BY <1>2, <2>2 DEF Best, Refining
  <2>4. c = b
    BY <1>1, <2>3, BestUnique
  <2>5. \A t : ~Listed(cs, t)
    BY DEF Listed
  <2>6. QED
    BY <2>4, <2>5 DEF Refining
<1>5. QED
  BY <1>2, <1>3, <1>4

LEMMA MtInitInv == MtInit => MtInv
<1> SUFFICES ASSUME MtInit PROVE MtInv
  OBVIOUS
<1>1. max_threads \in Counts
  <2>1. PICK a \in Available, r \in Requested \union {Unlimited} :
          max_threads = for_machine(a, r)
    BY DEF MtInit
  <2>2. a \in Counts /\ (r = Unlimited \/ r \in Nat)
    BY MtBenchAssumption DEF Counts
  <2>3. QED
    BY <2>1, <2>2 DEF for_machine, Least, Most, Counts
<1>2. candidates \in Seq(Counts) /\ candidates = coarse_candidates(max_threads)
  BY <1>1, CoarseCandidates DEF MtInit
<1>3. observations \in Observations
  BY EmptySeq DEF MtInit, Observations
<1>4. DOMAIN done = {}
  BY DEF MtInit
<1>5. MtType
  BY <1>1, <1>2, <1>3 DEF MtInit, MtType, Calibrating
<1>6. TuneInv
  BY <1>2 DEF MtInit, TuneInv, Listed
<1>7. QED
  BY <1>4, <1>5, <1>6 DEF MtInv, RunInv

(***************************************************************************)
(* No worker has run when a run begins.                                    *)
(***************************************************************************)
LEMMA NewRun == done' = [w \in {} |-> 0] => RunInv'
<1> SUFFICES ASSUME done' = [w \in {} |-> 0] PROVE RunInv'
  OBVIOUS
<1>1. DOMAIN (done') = {}
  OBVIOUS
<1>2. QED
  BY <1>1 DEF RunInv

LEMMA SameRun ==
  ASSUME RunInv, UNCHANGED <<done, threads, generations>>
  PROVE  RunInv'
BY DEF RunInv, Workers, Assigned

LEMMA MeasureCandidateInv ==
  ASSUME MtInv, MeasureCandidate
  PROVE  MtInv'
<1>1. MtType /\ TuneInv
  BY DEF MtInv
<1>2. candidates \in Seq(Counts) /\ candidates # <<>>
  BY <1>1 DEF MtType, MeasureCandidate
<1>3. Head(candidates) = candidates[1] /\ Head(candidates) \in Counts /\ Len(candidates) > 0
  BY <1>2, Heads
<1>4. threads' = Head(candidates) /\ generations' \in Nat
  BY <1>3 DEF MeasureCandidate, Measure, Most, Counts
<1>5. MtType'
  BY <1>1, <1>3, <1>4 DEF MtType, MeasureCandidate, Measure, Counts, Calibrating
<1>6. RunInv'
  BY NewRun DEF MeasureCandidate, Measure
<1>7. phase = "refine" => ~Seen(observations, Head(candidates))
  BY <1>1, MeasuredIsSeen DEF MeasureCandidate
<1>8. TuneInv'
  BY <1>1, <1>3, <1>4, <1>7 DEF TuneInv, MeasureCandidate
<1>9. QED
  BY <1>5, <1>6, <1>8 DEF MtInv

LEMMA SkipCandidateInv ==
  ASSUME MtInv, SkipCandidate
  PROVE  MtInv'
<1>1. MtType /\ TuneInv
  BY DEF MtInv
<1>2. candidates \in Seq(Counts) /\ candidates # <<>>
  BY <1>1 DEF MtType, SkipCandidate
<1>3. /\ Head(candidates) = candidates[1] /\ Tail(candidates) \in Seq(Counts)
      /\ Seen(observations, candidates[1])
  BY <1>1, <1>2, Heads, MeasuredIsSeen DEF SkipCandidate
<1>4. MtType'
  BY <1>1, <1>3 DEF MtType, SkipCandidate
<1>5. PICK k, b : Refining(coarse_candidates(max_threads), max_threads,
                           observations, candidates, k, b)
  BY <1>1 DEF TuneInv, SkipCandidate
<1>6. Refining(coarse_candidates(max_threads), max_threads,
               observations, Tail(candidates), k, b)
  BY <1>2, <1>3, <1>5, RefiningSkip
<1>7. TuneInv'
  BY <1>6 DEF TuneInv, SkipCandidate
<1>8. RunInv'
  BY SameRun DEF MtInv, SkipCandidate
<1>9. QED
  BY <1>4, <1>7, <1>8 DEF MtInv

LEMMA RefineInv ==
  ASSUME MtInv, Refine
  PROVE  MtInv'
<1>1. MtType /\ TuneInv
  BY DEF MtInv
<1>2. max_threads \in Counts /\ observations \in Observations /\ Len(candidates) = 0
  BY <1>1, EmptySeq DEF MtType, Refine
<1>3. \A n \in 1..Len(coarse_candidates(max_threads)) :
        Seen(observations, coarse_candidates(max_threads)[n])
  BY <1>1, <1>2 DEF TuneInv, Refine, Listed
<1>4. PICK b : /\ best_thread_count(observations) \in Counts
               /\ Refining(coarse_candidates(max_threads), max_threads, observations,
                           refinement_candidates(best_thread_count(observations), max_threads),
                           Len(observations), b)
  BY <1>2, <1>3, StartRefining
<1>5. candidates' \in Seq(Counts)
  BY <1>2, <1>4, RefinementCandidates DEF Refine
<1>6. MtType'
  BY <1>1, <1>5 DEF MtType, Refine
<1>7. TuneInv'
  BY <1>4 DEF TuneInv, Refine
<1>8. RunInv'
  BY SameRun DEF MtInv, Refine
<1>9. QED
  BY <1>6, <1>7, <1>8 DEF MtInv

LEMMA MeasureBestInv ==
  ASSUME MtInv, MeasureBest
  PROVE  MtInv'
<1>1. MtType /\ TuneInv
  BY DEF MtInv
<1>2. observations \in Observations /\ Len(candidates) = 0
  BY <1>1, EmptySeq DEF MtType, MeasureBest
<1>3. PICK k, b : Refining(coarse_candidates(max_threads), max_threads,
                           observations, candidates, k, b)
  BY <1>1 DEF TuneInv, MeasureBest
<1>4. PICK c : Best(observations, c, Len(observations))
               /\ best_thread_count(observations) = observations[c].threads
  BY <1>2, <1>3, BestIsRefined
<1>5. best_thread_count(observations) \in Counts
  BY <1>2, <1>4, ObservationsType DEF Best
<1>6. threads' = best_thread_count(observations) /\ generations' \in Nat
  BY <1>5 DEF MeasureBest, Measure, Most, Counts
<1>7. MtType'
  BY <1>1, <1>5, <1>6 DEF MtType, MeasureBest, Measure, Counts, Calibrating
<1>8. RunInv'
  BY NewRun DEF MeasureBest, Measure
<1>9. TuneInv'
  BY <1>2, <1>3, <1>6 DEF TuneInv, MeasureBest
<1>10. QED
  BY <1>7, <1>8, <1>9 DEF MtInv

LEMMA WorkInv ==
  ASSUME MtInv, NEW worker \in Workers, Work(worker)
  PROVE  MtInv'
<1>1. /\ DOMAIN (done') = DOMAIN done \union {worker}
      /\ \A w \in DOMAIN (done') : done'[w] = IF w = worker THEN Assigned(worker) ELSE done[w]
  BY DEF Work
<1>2. /\ Workers' = Workers /\ \A w : Assigned(w)' = Assigned(w)
  BY DEF Work, Workers, Assigned
<1>3. RunInv'
  BY <1>1, <1>2 DEF MtInv, RunInv
<1>4. MtType' /\ TuneInv'
  BY DEF Work, MtInv, MtType, TuneInv
<1>5. QED
  BY <1>3, <1>4 DEF MtInv

(***************************************************************************)
(* A run ends and another begins with the same pool.                       *)
(***************************************************************************)
LEMMA AgainInv ==
  ASSUME MtInv, done' = [w \in {} |-> 0], generations' \in Nat, samples' \in Nat,
         UNCHANGED <<max_threads, phase, candidates, observations, threads>>
  PROVE  MtInv'
<1>1. MtType' /\ TuneInv'
  BY DEF MtInv, MtType, TuneInv
<1>2. QED
  BY <1>1, NewRun DEF MtInv

LEMMA ScoredInv ==
  ASSUME MtInv, Scored
  PROVE  MtInv'
<1>1. MtType /\ TuneInv /\ threads > 0
  BY DEF MtInv, Scored, Joined
<1>2. RunInv'
  BY NewRun DEF Scored
<1>3. CASE phase = "final"
  <2>1. MtType'
    BY <1>1, <1>3 DEF MtType, Scored, Calibrating
  <2>2. TuneInv'
    BY <1>3 DEF TuneInv, Scored
  <2>3. QED
    BY <1>2, <2>1, <2>2 DEF MtInv
<1>4. CASE phase \in {"coarse", "refine"}
  <2>1. /\ candidates \in Seq(Counts) /\ observations \in Observations
        /\ Len(candidates) > 0 /\ threads = candidates[1] /\ threads \in Counts
    BY <1>1, <1>4 DEF MtType, TuneInv, Counts
  <2>2. /\ candidates # <<>> /\ Tail(candidates) \in Seq(Counts)
        /\ \A t : Listed(candidates, t) => t = candidates[1] \/ Listed(Tail(candidates), t)
    <3>1. candidates # <<>>
      BY <2>1, EmptySeq
    <3>2. QED
      BY <2>1, <3>1, Heads
  <2>3. PICK rec \in [threads : Counts, score : Nat] :
          rec.threads = threads /\ observations' = Append(observations, rec)
    <3>1. PICK score \in Scores :
            observations' = Append(observations, [threads |-> threads, score |-> score])
      BY <1>4 DEF Scored
    <3>2. score \in Nat
      BY MtBenchAssumption
    <3>3. [threads |-> threads, score |-> score] \in [threads : Counts, score : Nat]
      BY <2>1, <3>2
    <3>4. QED
      BY <3>1, <3>3
  <2>4. /\ observations' \in Observations
        /\ \A t : Seen(observations', t) <=> Seen(observations, t) \/ rec.threads = t
    BY <2>1, <2>3, MoreObservations
  <2>5. /\ candidates' = Tail(candidates) /\ phase' = phase /\ max_threads' = max_threads
        /\ threads' = 0 /\ generations' = 0 /\ samples' = 0
    BY <1>4 DEF Scored, Calibrating
  <2>6. MtType'
    BY <1>1, <2>2, <2>4, <2>5 DEF MtType
  <2>7. CASE phase = "coarse"
    <3>1. \A n \in 1..Len(coarse_candidates(max_threads)) :
            \/ Seen(observations', coarse_candidates(max_threads)[n])
            \/ Listed(Tail(candidates), coarse_candidates(max_threads)[n])
      BY <1>1, <2>1, <2>2, <2>3, <2>4, <2>7 DEF TuneInv
    <3>2. TuneInv'
      BY <2>5, <2>7, <3>1 DEF TuneInv
    <3>3. QED
      BY <1>2, <2>6, <3>2 DEF MtInv
  <2>8. CASE phase = "refine"
    <3>1. PICK k, b : Refining(coarse_candidates(max_threads), max_threads,
                               observations, candidates, k, b)
      BY <1>1, <2>8 DEF TuneInv
    <3>2. coarse_candidates(max_threads) \in Seq(Counts)
      BY <1>1, CoarseCandidates DEF MtType
    <3>3. ~Seen(observations, candidates[1])
      BY <1>1, <2>1, <2>8 DEF TuneInv
    <3>4. Refining(coarse_candidates(max_threads), max_threads,
                   observations', Tail(candidates), k, b)
      BY <2>1, <2>2, <2>3, <3>1, <3>2, <3>3, RefiningMore
    <3>5. TuneInv'
      BY <2>5, <2>8, <3>4 DEF TuneInv
    <3>6. QED
      BY <1>2, <2>6, <3>5 DEF MtInv
  <2>9. QED
    BY <1>4, <2>7, <2>8
<1>5. QED
  BY <1>1, <1>3, <1>4 DEF MtType, TuneInv

LEMMA MtStepInv == MtInv /\ [MtNext]_mtVars => MtInv'
<1> SUFFICES ASSUME MtInv, [MtNext]_mtVars
             PROVE  MtInv'
  OBVIOUS
<1>1. MtType
  BY DEF MtInv
<1>2. CASE MeasureCandidate
  BY <1>2, MeasureCandidateInv
<1>3. CASE SkipCandidate
  BY <1>3, SkipCandidateInv
<1>4. CASE PoolFails
  <2>1. MtType' /\ TuneInv'
    BY <1>1, <1>4 DEF PoolFails, MtType, TuneInv
  <2>2. QED
    BY <1>4, <2>1, SameRun DEF PoolFails, MtInv
<1>5. CASE Refine
  BY <1>5, RefineInv
<1>6. CASE MeasureBest
  BY <1>6, MeasureBestInv
<1>7. CASE \E worker \in Workers : Work(worker)
  BY <1>7, WorkInv
<1>8. CASE Raise
  <2>1. generations' \in Nat
    BY <1>1, <1>8, MtBenchAssumption DEF Raise, Least, MtType
  <2>2. QED
    BY <1>1, <1>8, <2>1, AgainInv DEF Raise, MtType
<1>9. CASE Calibrated
  BY <1>1, <1>9, AgainInv, MtBenchAssumption DEF Calibrated, MtType
<1>10. CASE NextSample
  BY <1>1, <1>10, AgainInv DEF NextSample, MtType
<1>11. CASE Scored
  BY <1>11, ScoredInv
<1>12. CASE UNCHANGED mtVars
  BY <1>12 DEF mtVars, MtInv, MtType, RunInv, TuneInv, Workers, Assigned
<1>13. QED
  BY <1>2, <1>3, <1>4, <1>5, <1>6, <1>7, <1>8, <1>9, <1>10, <1>11, <1>12 DEF MtNext

LEMMA MtInvariant == MtSpec => []MtInv
BY MtInitInv, MtStepInv, PTL DEF MtSpec

LEMMA MtConsequences == MtInv => EveryGenerationOnce /\ BestIsMeasured
<1> SUFFICES ASSUME MtInv PROVE EveryGenerationOnce /\ BestIsMeasured
  OBVIOUS
<1>1. MtType /\ RunInv /\ TuneInv
  BY DEF MtInv
<1>2. ASSUME Joined
      PROVE  /\ Total(done, Workers) = generations
             /\ \A v, w \in Workers : done[v] <= done[w] + 1
  <2>1. threads \in Nat \ {0} /\ generations \in Nat /\ Workers = 0..(threads - 1)
    BY <1>1, <1>2 DEF MtType, Joined, Workers
  <2>2. \A w \in 0..(threads - 1) :
          done[w] = (generations \div threads) + (IF w < generations % threads THEN 1 ELSE 0)
    BY <1>1, <1>2, <2>1 DEF Joined, RunInv, Assigned
  <2>3. Total(done, 0..(threads - 1)) = generations
    BY <2>1, <2>2, SharesAddUp
  <2>4. generations \div threads \in Nat
    BY <2>1
  <2>5. \A w \in Workers : done[w] \in {generations \div threads, (generations \div threads) + 1}
    BY <2>1, <2>2
  <2>6. QED
    BY <2>1, <2>3, <2>4, <2>5
<1>3. EveryGenerationOnce
  BY <1>2 DEF EveryGenerationOnce, Total
<1>4. ASSUME phase = "final", threads > 0
      PROVE  /\ \E n \in DOMAIN observations :
                  /\ observations[n].threads = threads
                  /\ \A m \in DOMAIN observations : observations[m].score <= observations[n].score
             /\ (\E n \in DOMAIN coarse_candidates(max_threads) :
                   coarse_candidates(max_threads)[n] = threads) =>
                     \A t \in Most(threads - 2, 1)..Least(threads + 2, max_threads) : Measured(t)
  <2>1. PICK k, b : Refining(coarse_candidates(max_threads), max_threads,
                             observations, candidates, k, b)
    BY <1>1, <1>4 DEF TuneInv
  <2>2. PICK c : /\ Best(observations, c, Len(observations))
                 /\ best_thread_count(observations) = observations[c].threads
                 /\ Listed(coarse_candidates(max_threads), observations[c].threads) =>
                      \A t \in Around(observations[c].threads, max_threads) : Seen(observations, t)
    BY <1>1, <1>4, <2>1, BestIsRefined DEF MtType, TuneInv
  <2>3. threads = observations[c].threads
    BY <1>1, <1>4, <2>2 DEF TuneInv
  <2>4. DOMAIN observations = 1..Len(observations)
    BY <1>1, ObservationsType DEF MtType
  <2>5. DOMAIN coarse_candidates(max_threads) = 1..Len(coarse_candidates(max_threads))
    BY <1>1, CoarseCandidates, LenProperties DEF MtType
  <2>6. \A t : Measured(t) <=> Seen(observations, t)
    BY <1>1, MeasuredIsSeen
  <2>7. QED
    BY <2>2, <2>3, <2>4, <2>5, <2>6 DEF Best, Listed, Around
<1>5. BestIsMeasured
  BY <1>4 DEF BestIsMeasured
<1>6. QED
  BY <1>3, <1>5

(***************************************************************************)
(* When run_parallel returns, its workers have run between them exactly    *)
(* the generations the throughput is computed from, however many of each.  *)
(***************************************************************************)
THEOREM GenerationsRunOnce == MtSpec => []EveryGenerationOnce
BY MtInvariant, MtConsequences, PTL DEF MtInv

(***************************************************************************)
(* Tuning settles on a count that it measured and than which none it       *)
(* measured is better; and the list of refinements leaves out no           *)
(* neighbour.                                                              *)
(***************************************************************************)
THEOREM BestHasBeenMeasured == MtSpec => []BestIsMeasured
BY MtInvariant, MtConsequences, PTL DEF MtInv
-----------------------------------------------------------------------------
LEMMA NearerPair ==
  ASSUME NEW m \in Countdowns(2), NEW n \in Countdowns(2),
         m[1] < n[1] \/ (m[1] = n[1] /\ m[2] < n[2])
  PROVE  Nearer(2, m, n)
<1>1. \E j \in 1..2 : /\ \A i \in 1..(j - 1) : m[i] = n[i]
                      /\ <<m[j], n[j]>> \in OpToRel(<, Nat)
  BY DEF OpToRel, Countdowns
<1>2. QED
  BY <1>1 DEF Nearer, Descent, LexProductOrdering, Countdowns

LEMMA NearerQuintuple ==
  ASSUME NEW m \in Countdowns(5), NEW n \in Countdowns(5),
         \/ m[1] < n[1]
         \/ m[1] = n[1] /\ m[2] < n[2]
         \/ m[1] = n[1] /\ m[2] = n[2] /\ m[3] < n[3]
         \/ m[1] = n[1] /\ m[2] = n[2] /\ m[3] = n[3] /\ m[4] < n[4]
         \/ m[1] = n[1] /\ m[2] = n[2] /\ m[3] = n[3] /\ m[4] = n[4] /\ m[5] < n[5]
  PROVE  Nearer(5, m, n)
<1>1. \E j \in 1..5 : /\ \A i \in 1..(j - 1) : m[i] = n[i]
                      /\ <<m[j], n[j]>> \in OpToRel(<, Nat)
  BY DEF OpToRel, Countdowns
<1>2. QED
  BY <1>1 DEF Nearer, Descent, LexProductOrdering, Countdowns

LEMMA GetLeftType == \A t \in Threads : DispatchInv => GetLeft(t) \in Countdowns(2)
<1> SUFFICES ASSUME NEW t \in Threads, DispatchInv
             PROVE  GetLeft(t) \in Countdowns(2)
  OBVIOUS
<1>1. KERNEL \in {"empty", "running", "full"}
  BY DEF DispatchInv, DispatchTypeOK
<1>2. \A x, y \in Nat : <<x, y>> \in Countdowns(2)
  BY DEF Countdowns
<1>3. QED
  BY <1>1, <1>2 DEF GetLeft

(***************************************************************************)
(* What a thread inside get does, and what the others do meanwhile.        *)
(***************************************************************************)
LEMMA OwnStepDescends ==
  ASSUME DispatchInv, NEW t \in Threads, Get(t),
         GetLeft(t) \in Countdowns(2), GetLeft(t)' \in Countdowns(2)
  PROVE  Nearer(2, GetLeft(t)', GetLeft(t))
<1>1. /\ pc \in [Threads -> {"idle", "get", "detect", "wait", "loaded"}]
      /\ pc[t] = "detect" => KERNEL = "running"
  BY DEF DispatchInv, DispatchTypeOK, OnceInv, Detecting
<1>2. CASE Full(t)
  <2>1. GetLeft(t) = <<0, 1>> /\ GetLeft(t)' = <<0, 0>>
    BY <1>1, <1>2 DEF Full, Goto, GetLeft
  <2>2. QED
    BY <2>1, NearerPair
<1>3. CASE Begin(t)
  <2>1. GetLeft(t) = <<2, 2>> /\ GetLeft(t)' = <<1, 1>>
    BY <1>1, <1>3 DEF Begin, Goto, GetLeft
  <2>2. QED
    BY <2>1, NearerPair
<1>4. CASE Sleep(t)
  <2>1. GetLeft(t) = <<1, 2>> /\ GetLeft(t)' = <<1, 0>>
    BY <1>1, <1>4 DEF Sleep, Goto, GetLeft
  <2>2. QED
    BY <2>1, NearerPair
<1>5. CASE Wake(t)
  <2>1. GetLeft(t) = <<0, 2>> /\ GetLeft(t)' = <<0, 1>>
    BY <1>1, <1>5 DEF Wake, Goto, GetLeft
  <2>2. QED
    BY <2>1, NearerPair
<1>6. CASE Detect(t)
  <2>1. GetLeft(t) = <<1, 1>> /\ GetLeft(t)' = <<0, 0>>
    BY <1>1, <1>6 DEF Detect, Goto, GetLeft
  <2>2. QED
    BY <2>1, NearerPair
<1>7. QED
  BY <1>2, <1>3, <1>4, <1>5, <1>6 DEF Get

LEMMA OthersDoNotThrowBack ==
  ASSUME DispatchInv, NEW t \in Threads, pc[t] \in {"get", "detect", "wait"},
         GetLeft(t) \in Countdowns(2), GetLeft(t)' \in Countdowns(2),
         NEW u \in Threads, u # t,
         Call(u) \/ Get(u) \/ Enter(u) \/ CallStatic(u) \/ CallDirect(u)
  PROVE  /\ pc'[t] = pc[t]
         /\ Nearer(2, GetLeft(t)', GetLeft(t)) \/ GetLeft(t)' = GetLeft(t)
<1>1. pc \in [Threads -> {"idle", "get", "detect", "wait", "loaded"}]
  BY DEF DispatchInv, DispatchTypeOK
<1>2. pc'[t] = pc[t]
  BY <1>1 DEF Call, Get, Enter, CallStatic, CallDirect, Full, Begin, Sleep, Wake, Detect, Goto
<1>3. CASE KERNEL' = KERNEL
  BY <1>2, <1>3 DEF GetLeft
<1>4. CASE KERNEL' # KERNEL
  <2>1. Begin(u) \/ Detect(u)
    BY <1>4 DEF Call, Get, Enter, CallStatic, CallDirect, Full, Sleep, Wake
  <2>2. CASE Begin(u)
    <3>1. GetLeft(t)[1] = 2 /\ GetLeft(t)'[1] = 1
      BY <2>2 DEF Begin, GetLeft
    <3>2. QED
      BY <1>2, <3>1, NearerPair
  <2>3. CASE Detect(u)
    <3>1. KERNEL = "running"
      BY <2>3 DEF Detect, Goto, DispatchInv, DispatchTypeOK, OnceInv, Detecting
    <3>2. GetLeft(t)[1] = 1 /\ GetLeft(t)'[1] = 0
      BY <2>3, <3>1 DEF Detect, GetLeft
    <3>3. QED
      BY <1>2, <3>2, NearerPair
  <2>4. QED
    BY <2>1, <2>2, <2>3
<1>5. QED
  BY <1>2, <1>3, <1>4

(***************************************************************************)
(* Inside get_or_init no thread goes round in circles and none is thrown   *)
(* back by another: each of its steps descends in an order in which        *)
(* nothing descends for ever. That it is given its steps is left to        *)
(* fairness.                                                               *)
(***************************************************************************)
THEOREM GetCountsDownAlways == Spec => GetCountsDown
<1> DEFINE Typed == \A t \in Threads : GetLeft(t) \in Countdowns(2)
           Descends == \A t \in Threads : pc[t] \in {"get", "detect", "wait"} =>
                         \/ Nearer(2, GetLeft(t)', GetLeft(t))
                         \/ GetLeft(t)' = GetLeft(t) /\ pc'[t] = pc[t]
<1>1. DispatchInv /\ Typed /\ Typed' /\ [Next]_vars => [Descends]_vars
  <2> SUFFICES ASSUME DispatchInv, Typed, Typed', Next,
                      NEW t \in Threads, pc[t] \in {"get", "detect", "wait"}
               PROVE  \/ Nearer(2, GetLeft(t)', GetLeft(t))
                      \/ GetLeft(t)' = GetLeft(t) /\ pc'[t] = pc[t]
    OBVIOUS
  <2>1. PICK u \in Threads : Call(u) \/ Get(u) \/ Enter(u) \/ CallStatic(u) \/ CallDirect(u)
    BY DEF Next
  <2>2. CASE u = t
    <3>1. Get(t)
      BY <2>1, <2>2 DEF Call, Enter, CallStatic, CallDirect, Goto
    <3>2. QED
      BY <3>1, OwnStepDescends
  <2>3. CASE u # t
    BY <2>1, <2>3, OthersDoNotThrowBack
  <2>4. QED
    BY <2>2, <2>3
<1>2. DispatchInv => Typed
  BY GetLeftType
<1> HIDE DEF Typed
<1>3. QED
  BY <1>1, <1>2, DispatchInvariant, PTL DEF Spec, GetCountsDown
-----------------------------------------------------------------------------
(* The workers that a run waits for.                                       *)
Waiting == Workers \ DOMAIN done

LEMMA WaitingType ==
  ASSUME MtType
  PROVE  IsFiniteSet(Waiting) /\ Cardinality(Waiting) \in Nat
<1>1. IsFiniteSet(Workers)
  BY FS_Interval DEF Workers, MtType
<1>2. IsFiniteSet(Waiting)
  BY <1>1, FS_Subset DEF Waiting
<1>3. QED
  BY <1>2, FS_CardinalityType

MtPhaseLeft ==
  CASE phase = "coarse" -> 3 [] phase = "refine" -> 2 [] phase = "final" -> 1
    [] phase \in {"done", "error"} -> 0
StageLeft == IF threads = 0 THEN 2 ELSE IF samples = Calibrating THEN 1 ELSE 0
RunsLeft ==
  IF threads > 0 /\ samples = Calibrating
  THEN Most(MAX_CALIBRATED_GENERATIONS - generations, 0) ELSE samples

(* A measurement always runs something: this is why a calibration gains.   *)
Begun == threads > 0 => generations > 0

LEMMA BegunStep ==
  ASSUME MtType, MtType', Begun, [MtNext]_mtVars
  PROVE  Begun'
<1>1. CASE MeasureCandidate \/ MeasureBest
  BY <1>1 DEF MeasureCandidate, MeasureBest, Measure, Most, Begun, MtType
<1>2. CASE Raise
  <2>1. threads > 0 /\ generations > 0 /\ generations \in Nat
    BY <1>2 DEF Raise, Joined, Begun, MtType
  <2>2. PICK n \in 2..8 : generations' = Least(generations * n, MAX_CALIBRATED_GENERATIONS)
    BY <1>2 DEF Raise
  <2>3. generations * n > 0
    BY <2>1
  <2>4. QED
    BY <2>2, <2>3, MtBenchAssumption DEF Least, Begun
<1>3. CASE Scored
  BY <1>3 DEF Scored, Begun
<1>4. CASE UNCHANGED <<threads, generations>>
  BY <1>4 DEF Begun
<1>5. QED
  BY <1>1, <1>2, <1>3, <1>4
  DEF MtNext, mtVars, SkipCandidate, PoolFails, Refine, Work, Calibrated, NextSample

LEMMA MtBegun == MtSpec => [](MtInv /\ Begun)
<1>1. MtInit => Begun
  BY DEF MtInit, Begun
<1>2. MtInv => MtType
  BY DEF MtInv
<1>3. QED
  BY <1>1, <1>2, MtInvariant, BegunStep, PTL DEF MtSpec

LEMMA MtStepsLeftIs ==
  MtStepsLeft = <<MtPhaseLeft, Len(candidates), StageLeft, RunsLeft, Cardinality(Waiting)>>
BY DEF MtStepsLeft, MtPhaseLeft, StageLeft, RunsLeft, Waiting

LEMMA MtStepsLeftType == MtInv => MtStepsLeft \in Countdowns(5)
<1> SUFFICES ASSUME MtInv
             PROVE  MtStepsLeft \in Countdowns(5)
  OBVIOUS
<1>1. MtType
  BY DEF MtInv
<1>2. MtPhaseLeft \in Nat
  BY <1>1 DEF MtPhaseLeft, MtType
<1>3. Len(candidates) \in Nat
  BY <1>1, LenProperties DEF MtType
<1>4. StageLeft \in Nat
  BY DEF StageLeft
<1>5. RunsLeft \in Nat
  BY <1>1, MtBenchAssumption DEF RunsLeft, Most, MtType
<1>6. Cardinality(Waiting) \in Nat
  BY <1>1, WaitingType
<1>7. QED
  BY <1>2, <1>3, <1>4, <1>5, <1>6, MtStepsLeftIs DEF Countdowns

(***************************************************************************)
(* Each step of the autotuner is nearer to its end.                        *)
(***************************************************************************)
LEMMA MtStepDescends ==
  ASSUME MtInv, MtInv', Begun, MtStepsLeft \in Countdowns(5), MtStepsLeft' \in Countdowns(5), MtNext
  PROVE  Nearer(5, MtStepsLeft', MtStepsLeft)
<1> SUFFICES
      \/ MtPhaseLeft' < MtPhaseLeft
      \/ /\ MtPhaseLeft' = MtPhaseLeft
         /\ Len(candidates)' < Len(candidates)
      \/ /\ MtPhaseLeft' = MtPhaseLeft
         /\ Len(candidates)' = Len(candidates)
         /\ StageLeft' < StageLeft
      \/ /\ MtPhaseLeft' = MtPhaseLeft
         /\ Len(candidates)' = Len(candidates)
         /\ StageLeft' = StageLeft
         /\ RunsLeft' < RunsLeft
      \/ /\ MtPhaseLeft' = MtPhaseLeft
         /\ Len(candidates)' = Len(candidates)
         /\ StageLeft' = StageLeft
         /\ RunsLeft' = RunsLeft
         /\ Cardinality(Waiting)' < Cardinality(Waiting)
  <2>1. /\ MtStepsLeft = <<MtPhaseLeft, Len(candidates), StageLeft, RunsLeft, Cardinality(Waiting)>>
        /\ MtStepsLeft' = <<MtPhaseLeft', Len(candidates)', StageLeft', RunsLeft', Cardinality(Waiting)'>>
    BY MtStepsLeftIs DEF MtStepsLeft, MtPhaseLeft, StageLeft, RunsLeft, Waiting
  <2>2. QED
    BY <2>1, NearerQuintuple
<1>0. /\ MtType /\ MtType' /\ TuneInv
      /\ Len(candidates) \in Nat
      /\ candidates # <<>> => Len(Tail(candidates)) = Len(candidates) - 1
  BY LenProperties, HeadTailProperties DEF MtInv, MtType
<1>1. CASE MeasureCandidate
  <2>1. threads = 0 /\ threads' # 0 /\ UNCHANGED <<phase, candidates>>
    BY <1>0, <1>1, Heads DEF MeasureCandidate, Measure, MtType, Counts
  <2>2. QED
    BY <2>1 DEF MtPhaseLeft, StageLeft
<1>2. CASE SkipCandidate
  BY <1>0, <1>2 DEF SkipCandidate, MtPhaseLeft
<1>3. CASE PoolFails
  BY <1>3 DEF PoolFails, MtPhaseLeft
<1>4. CASE Refine
  BY <1>4 DEF Refine, MtPhaseLeft
<1>5. CASE MeasureBest
  BY <1>5 DEF MeasureBest, MtPhaseLeft
<1>6. ASSUME NEW worker \in Workers, Work(worker)
      PROVE  /\ UNCHANGED <<MtPhaseLeft, Len(candidates), StageLeft, RunsLeft>>
             /\ Cardinality(Waiting)' < Cardinality(Waiting)
  <2>1. worker \in Waiting
    BY <1>6 DEF Work, Waiting
  <2>2. Waiting' = Waiting \ {worker}
    BY <1>6 DEF Work, Waiting, Workers
  <2>3. Cardinality(Waiting') = Cardinality(Waiting) - 1
    BY <1>0, <2>1, <2>2, WaitingType, FS_RemoveElement
  <2>4. UNCHANGED <<MtPhaseLeft, Len(candidates), StageLeft, RunsLeft>>
    BY <1>6 DEF Work, MtPhaseLeft, StageLeft, RunsLeft
  <2>5. QED
    BY <1>0, <2>3, <2>4, WaitingType
<1>7. CASE Raise
  <2>1. /\ generations < MAX_CALIBRATED_GENERATIONS /\ threads > 0 /\ samples = Calibrating
        /\ UNCHANGED <<phase, candidates, threads, samples>>
    BY <1>7 DEF Raise, Joined
  <2>2. generations > 0
    BY <2>1 DEF Begun
  <2>3. generations' > generations
    BY <1>0, <1>7, <2>2, MtBenchAssumption DEF Raise, Least, MtType
  <2>4. RunsLeft' < RunsLeft
    <3>1. /\ RunsLeft = Most(MAX_CALIBRATED_GENERATIONS - generations, 0)
          /\ RunsLeft' = Most(MAX_CALIBRATED_GENERATIONS - generations', 0)
      BY <2>1 DEF RunsLeft
    <3>2. generations \in Nat /\ generations' \in Nat
      BY <1>0 DEF MtType
    <3>3. \A m, g, h \in Nat : g < m /\ g < h => Most(m - h, 0) < Most(m - g, 0)
      BY DEF Most
    <3>4. MAX_CALIBRATED_GENERATIONS \in Nat
      BY MtBenchAssumption
    <3>5. Most(MAX_CALIBRATED_GENERATIONS - generations', 0)
            < Most(MAX_CALIBRATED_GENERATIONS - generations, 0)
      BY ONLY <2>1, <2>3, <3>2, <3>3, <3>4
    <3>6. QED
      BY ONLY <3>1, <3>5
  <2>5. QED
    BY <2>1, <2>4 DEF MtPhaseLeft, StageLeft
<1>8. CASE Calibrated
  <2>1. /\ threads > 0 /\ samples = Calibrating /\ samples' # Calibrating
        /\ UNCHANGED <<phase, candidates, threads>>
    BY <1>8, MtBenchAssumption DEF Calibrated, Joined, Calibrating
  <2>2. QED
    BY <1>0, <2>1 DEF MtPhaseLeft, StageLeft, MtType
<1>9. CASE NextSample
  <2>1. /\ threads > 0 /\ samples > 1 /\ samples' = samples - 1
        /\ UNCHANGED <<phase, candidates, threads>>
    BY <1>9 DEF NextSample, Joined
  <2>2. QED
    BY <1>0, <2>1 DEF MtPhaseLeft, StageLeft, RunsLeft, MtType, Calibrating
<1>10. CASE Scored
  <2>1. CASE phase = "final"
    BY <1>10, <2>1 DEF Scored, MtPhaseLeft
  <2>2. CASE phase # "final"
    <3>1. threads > 0 /\ candidates' = Tail(candidates) /\ phase' = phase
      BY <1>10, <2>2 DEF Scored, Joined
    <3>2. candidates # <<>>
      BY <1>0, <2>2, <3>1, Heads DEF TuneInv, MtType
    <3>3. QED
      BY <1>0, <3>1, <3>2 DEF MtPhaseLeft
  <2>3. QED
    BY <2>1, <2>2
<1>11. QED
  BY <1>1, <1>2, <1>3, <1>4, <1>5, <1>6, <1>7, <1>8, <1>9, <1>10 DEF MtNext

(***************************************************************************)
(* The autotuner never goes round in circles, whatever the times it        *)
(* measures: the loops of the phases, of the candidates, of calibration,   *)
(* of the samples and of the workers descend together.                     *)
(***************************************************************************)
THEOREM TuningCountsDown == MtSpec => MtCountsDown
<1> DEFINE Typed == MtStepsLeft \in Countdowns(5)
<1>1. MtInv /\ MtInv' /\ Begun /\ Typed /\ Typed' /\ [MtNext]_mtVars
        => [Nearer(5, MtStepsLeft', MtStepsLeft)]_mtVars
  BY MtStepDescends
<1>2. MtInv => Typed
  BY MtStepsLeftType
<1> HIDE DEF Typed
<1>3. QED
  BY <1>1, <1>2, MtBegun, PTL DEF MtSpec, MtCountsDown
=============================================================================
