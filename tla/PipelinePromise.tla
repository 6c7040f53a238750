-------------------------- MODULE PipelinePromise ---------------------------
(***************************************************************************)
(* What the pipeline promises from end to end. Two history variables that  *)
(* no component reads compare its two ends: sent is the span of all        *)
(* coefficients the encoder has put on the network, span that of the       *)
(* packets the decoder has answered.                                       *)
(***************************************************************************)
EXTENDS Pipeline, DecoderRefinement

VARIABLE sent

promiseVars == <<pipelineVars, span, sent>>

PromisedInit ==
  /\ PipelineInit
  /\ span = {ZeroVector}
  /\ sent = {ZeroVector}

PromisedNext ==
  \/ /\ SendEncoded
     /\ sent' = Promise!Extend(sent, coeffs)
     /\ UNCHANGED span
  \/ /\ EncoderMoves \/ RecoderMoves \/ SendRecoded \/ Deliver \/ DecoderMoves \/ Lose
     /\ History
     /\ UNCHANGED sent

PromisedSpec == PromisedInit /\ [][PromisedNext]_promiseVars

-----------------------------------------------------------------------------
(***************************************************************************)
(* Relays and network invent nothing: every packet in flight, recoded any  *)
(* number of times, and everything the decoder has counted combines what   *)
(* the encoder has sent, however often a relay's generator draws zeros.    *)
(***************************************************************************)
NothingInvented ==
  /\ \A p \in net : p.coefficients \in sent
  /\ span \subseteq sent

(***************************************************************************)
(* The decoder returns symbols only when what it has answered spans        *)
(* everything, and so only when what the encoder has sent does: it never   *)
(* returns on too few independent packets, and never guesses.              *)
(***************************************************************************)
DecodedWasSent == symbols # None => span = Vector /\ sent = Vector
=============================================================================
