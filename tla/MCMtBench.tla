----------------------------- MODULE MCMtBench ------------------------------
(***************************************************************************)
(* The two parts of the multithreaded benchmark, one of them at a time:    *)
(* the batch decoder over the field of MCField, on generations of three    *)
(* packets of which the first is any and the others are binary, and on the *)
(* Vandermonde matrix of the field's nonzero elements; and the autotuner   *)
(* on machines of up to six threads.                                       *)
(***************************************************************************)
EXTENDS MtBench, BatchDecoder, MCSymbols

MCAvailable == 1..6
MCRequested == {0, 3, 7}
MCScores == {1, 2}

MCVandermonde ==
  [i \in Cols |-> LET point == CASE i = 0 -> MCOne [] i = 1 -> Omega [] i = 2 -> Omega2
                  IN  [j \in Cols |-> CASE j = 0 -> MCOne
                                        [] j = 1 -> point
                                        [] j = 2 -> MCTimes(point, point)]]

MCFixtures ==
  {MCVandermonde} \union
  {[i \in Cols |-> CASE i = 0 -> x [] i = 1 -> y [] i = 2 -> z] :
     x \in Vector, y, z \in [Cols -> MCBits]}

MCInit ==
  /\ MtInit /\ BatchInit
  /\ max_threads = 1 \/ fixture = MCVandermonde

Tune ==
  /\ fixture = MCVandermonde /\ dec_pc = "idle" /\ decoded = "none"
  /\ MtNext /\ UNCHANGED batchVars

Decode ==
  /\ max_threads = 1 /\ phase = "coarse" /\ threads = 0 /\ observations = <<>>
  /\ BatchNext /\ UNCHANGED mtVars

(* Only a benchmark that is done, or has failed, stops; a worker that       *)
(* decodes never does, so that a state without a step is an error.          *)
Stopped ==
  /\ phase \in {"done", "error"}
  /\ UNCHANGED <<mtVars, batchVars>>

MCSpec ==
  /\ MCInit /\ [][Tune \/ Decode \/ Stopped]_<<mtVars, batchVars>>
  /\ WF_<<mtVars, batchVars>>(Tune)
=============================================================================
