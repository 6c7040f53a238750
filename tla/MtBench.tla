------------------------------ MODULE MtBench -------------------------------
(***************************************************************************)
(* The autotuner of rlnc-simdx-mt-bench: it measures the powers of two,    *)
(* then the neighbours of the best of them, and then the best again. A     *)
(* measurement builds a pool with a state for each worker, raises the      *)
(* number of generations until a run takes long enough, and times some     *)
(* more runs over the same states. Workers share nothing but the count of  *)
(* generations, so a worker's part of a run is one step; what it does with *)
(* a generation is module BatchDecoder. Times are arbitrary.               *)
(***************************************************************************)
EXTENDS Countdown, Sequences, FiniteSets, Folds

CONSTANTS
  Available,      \* the values available_parallelism may have
  Requested,      \* the thread counts the caller may request
  Unlimited,      \* no thread count requested
  MAX_CALIBRATED_GENERATIONS,
  TuneSamples, FinalSamples,
  Scores          \* throughputs, as numbers

ASSUME MtBenchAssumption ==
  /\ Available \subseteq Nat \ {0} /\ Requested \subseteq Nat
  /\ Unlimited \notin Nat
  /\ MAX_CALIBRATED_GENERATIONS \in Nat \ {0}
  /\ TuneSamples \in Nat \ {0} /\ FinalSamples \in Nat \ {0}
  /\ Scores \subseteq Nat /\ Scores # {}

VARIABLES
  max_threads,
  phase,         \* "coarse", "refine", "final", "done", "error"
  candidates,    \* the counts that the loop of the phase has yet to visit
  observations,  \* sequence of [threads, score]
  threads,       \* the size of the pool, 0 when nothing is measured
  generations,   \* of each run
  samples,       \* timed runs still to make; None while calibrating
  done           \* [worker -> generations run], the workers that finished

mtVars == <<max_threads, phase, candidates, observations, threads, generations,
            samples, done>>

Calibrating == 0

Least(a, b) == IF a < b THEN a ELSE b
Most(a, b) == IF a > b THEN a ELSE b

(* Config::for_machine and Runner::new. *)
for_machine(available, requested) ==
  Least(Most(IF requested = Unlimited THEN available ELSE requested, 1), available)

(* The powers of two below max, and max. They are pushed in increasing      *)
(* order and differ, so sort and dedup change nothing.                      *)
coarse_candidates(max) ==
  LET pushed[t \in 1..2 * max] == IF t < max THEN <<t>> \o pushed[2 * t] ELSE <<max>>
  IN  pushed[1]

refinement_candidates(best, max) ==
  LET start == Most(IF best < 2 THEN 0 ELSE best - 2, 1)
      end   == Least(best + 2, max)
  IN  [n \in 1..(end + 1 - start) |-> start + n - 1]

(* Mutant: the last observation that does not fall behind its predecessor. *)
best_thread_count_local(obs) ==
  obs[CHOOSE n \in DOMAIN obs :
        \A m \in DOMAIN obs : m = n - 1 => obs[m].score <= obs[n].score].threads

(* The last of the observations with the highest score: max_by.             *)
best_thread_count(obs) ==
  obs[CHOOSE n \in DOMAIN obs :
        \A m \in DOMAIN obs : /\ obs[m].score <= obs[n].score
                              /\ m > n => obs[m].score < obs[n].score].threads

Measured(t) == \E n \in DOMAIN observations : observations[n].threads = t

(* Mutant: the remainder is left out. *)
AssignedEvenly(worker) == generations \div threads

(* What run_parallel assigns to a worker. *)
Assigned(worker) ==
  (generations \div threads) + (IF worker < generations % threads THEN 1 ELSE 0)

Workers == 0..(threads - 1)

-----------------------------------------------------------------------------
MtInit ==
  /\ \E a \in Available, r \in Requested \union {Unlimited} :
       max_threads = for_machine(a, r)
  /\ phase = "coarse"
  /\ candidates = coarse_candidates(max_threads)
  /\ observations = <<>>
  /\ threads = 0 /\ generations = 0 /\ samples = Calibrating
  /\ done = <<>>

(* measure_candidate as far as the first call of run_parallel.              *)
Measure(t) ==
  /\ threads = 0
  /\ threads' = t
  /\ generations' = Most(t, 1)
  /\ samples' = Calibrating
  /\ done' = [w \in {} |-> 0]

MeasureCandidate ==
  /\ phase \in {"coarse", "refine"} /\ candidates # <<>>
  /\ phase = "refine" => ~Measured(Head(candidates))
  /\ Measure(Head(candidates))
  /\ UNCHANGED <<max_threads, phase, candidates, observations>>

SkipCandidate ==
  /\ phase = "refine" /\ candidates # <<>> /\ threads = 0
  /\ Measured(Head(candidates))
  /\ candidates' = Tail(candidates)
  /\ UNCHANGED <<max_threads, phase, observations, threads, generations, samples, done>>

(* ThreadPoolBuilder::build fails, and so does the benchmark.               *)
PoolFails ==
  /\ threads = 0
  /\ \/ phase = "coarse" /\ candidates # <<>>
     \/ phase = "refine" /\ (candidates # <<>> => ~Measured(Head(candidates)))
  /\ phase' = "error"
  /\ UNCHANGED <<max_threads, candidates, observations, threads, generations, samples, done>>

Refine ==
  /\ phase = "coarse" /\ candidates = <<>> /\ threads = 0
  /\ phase' = "refine"
  /\ candidates' = refinement_candidates(best_thread_count(observations), max_threads)
  /\ UNCHANGED <<max_threads, observations, threads, generations, samples, done>>

MeasureBest ==
  /\ phase = "refine" /\ candidates = <<>>
  /\ Measure(best_thread_count(observations))
  /\ phase' = "final"
  /\ UNCHANGED <<max_threads, candidates, observations>>

-----------------------------------------------------------------------------
(* A worker of the pool runs its generations, one after the other.          *)
Work(worker) ==
  /\ worker \notin DOMAIN done
  /\ done' = [w \in DOMAIN done \union {worker} |->
                IF w = worker THEN Assigned(worker) ELSE done[w]]
  /\ UNCHANGED <<max_threads, phase, candidates, observations, threads, generations, samples>>

(* run_parallel returns when every worker is finished.                      *)
Joined == threads > 0 /\ DOMAIN done = Workers

(* Mutant: the clamp lets a multiplier of one pass. *)
RaiseByOne ==
  /\ Joined /\ samples = Calibrating
  /\ generations < MAX_CALIBRATED_GENERATIONS
  /\ \E multiplier \in 1..8 :
       generations' = Least(generations * multiplier, MAX_CALIBRATED_GENERATIONS)
  /\ done' = [w \in {} |-> 0]
  /\ UNCHANGED <<max_threads, phase, candidates, observations, threads, samples>>

(* calibrate_generations: the run was too short.                            *)
Raise ==
  /\ Joined /\ samples = Calibrating
  /\ generations < MAX_CALIBRATED_GENERATIONS
  /\ \E multiplier \in 2..8 :
       generations' = Least(generations * multiplier, MAX_CALIBRATED_GENERATIONS)
  /\ done' = [w \in {} |-> 0]
  /\ UNCHANGED <<max_threads, phase, candidates, observations, threads, samples>>

(* The run was long enough, or as long as allowed.                          *)
Calibrated ==
  /\ Joined /\ samples = Calibrating
  /\ samples' = IF phase = "final" THEN FinalSamples ELSE TuneSamples
  /\ done' = [w \in {} |-> 0]
  /\ UNCHANGED <<max_threads, phase, candidates, observations, threads, generations>>

NextSample ==
  /\ Joined /\ samples > 1
  /\ samples' = samples - 1
  /\ done' = [w \in {} |-> 0]
  /\ UNCHANGED <<max_threads, phase, candidates, observations, threads, generations>>

(* The median of the samples is this candidate's score, or the result.      *)
Scored ==
  /\ Joined /\ samples = 1
  /\ threads' = 0 /\ generations' = 0 /\ samples' = Calibrating
  /\ done' = [w \in {} |-> 0]
  /\ IF phase = "final"
     THEN phase' = "done" /\ UNCHANGED <<candidates, observations>>
     ELSE /\ \E score \in Scores :
               observations' = Append(observations, [threads |-> threads, score |-> score])
          /\ candidates' = Tail(candidates)
          /\ UNCHANGED phase
  /\ UNCHANGED max_threads

MtNext ==
  \/ MeasureCandidate \/ SkipCandidate \/ PoolFails \/ Refine \/ MeasureBest
  \/ \E worker \in Workers : Work(worker)
  \/ Raise \/ Calibrated \/ NextSample \/ Scored

MtSpec == MtInit /\ [][MtNext]_mtVars /\ WF_mtVars(MtNext)

-----------------------------------------------------------------------------
(* When run_parallel returns, its workers have run between them exactly the *)
(* generations that the throughput is computed from, and no worker more     *)
(* than one more than another.                                              *)
EveryGenerationOnce ==
  Joined =>
    /\ MapThenFoldSet(+, 0, LAMBDA w : done[w], LAMBDA S : CHOOSE w \in S : TRUE, Workers)
         = generations
    /\ \A v, w \in Workers : done[v] <= done[w] + 1

(* No count that tuning measured is better than the one it settles on, and  *)
(* if that is a coarse candidate, the two counts on each side were measured *)
(* too: the second list of candidates leaves none of them out.              *)
BestIsMeasured ==
  (phase = "final" /\ threads > 0) =>
    /\ \E n \in DOMAIN observations :
         /\ observations[n].threads = threads
         /\ \A m \in DOMAIN observations : observations[m].score <= observations[n].score
    /\ (\E n \in DOMAIN coarse_candidates(max_threads) :
          coarse_candidates(max_threads)[n] = threads) =>
            \A t \in Most(threads - 2, 1)..Least(threads + 2, max_threads) : Measured(t)

(* A started benchmark ends: calibration reaches its limit however short    *)
(* the runs seem to be, and the lists of candidates run out.                *)
BenchmarkEnds == (threads > 0) ~> (phase \in {"done", "error"})

(* How far the benchmark is from its end: the phases, the candidates left,  *)
(* the stages of a measurement, the runs left to its present stage, and the *)
(* workers that the run waits for.                                          *)
MtStepsLeft ==
  <<CASE phase = "coarse" -> 3 [] phase = "refine" -> 2 [] phase = "final" -> 1
      [] phase \in {"done", "error"} -> 0,
    Len(candidates),
    IF threads = 0 THEN 2 ELSE IF samples = Calibrating THEN 1 ELSE 0,
    IF threads > 0 /\ samples = Calibrating
    THEN Most(MAX_CALIBRATED_GENERATIONS - generations, 0) ELSE samples,
    Cardinality(Workers \ DOMAIN done)>>

(* Whatever the runs take and the candidates score, every step of tuning    *)
(* brings its end nearer: the calibration of a measurement cannot stay at a *)
(* number of generations, and refining adds no candidate it has visited.    *)
MtCountsDown == [][Nearer(5, MtStepsLeft', MtStepsLeft)]_mtVars
=============================================================================
