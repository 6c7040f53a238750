------------------------- MODULE DecoderRefinement -------------------------
(***************************************************************************)
(* The decoder implements DecoderSpec. The span is a history variable: the *)
(* span of every packet that receive has answered, computed from the       *)
(* packets alone and never read by the decoder.                            *)
(***************************************************************************)
EXTENDS DecoderInvariant

VARIABLE span

Promise == INSTANCE DecoderSpec

Answered == ret = "busy" /\ ret' # "busy"

HInit == Init /\ span = {ZeroVector}

History ==
  span' = IF Answered /\ packet \notin span
          THEN Promise!Extend(span, packet) ELSE span

HStep == Step /\ History
HNext == (Call /\ History) \/ HStep

HSpec == HInit /\ [][HNext]_<<vars, span>> /\ WF_<<vars, span>>(HStep)

(***************************************************************************)
(* receive answers "innovative" exactly for packets outside the span of    *)
(* the earlier ones, decode answers None until that span is everything and *)
(* the source symbols from then on, and receive always answers.            *)
(***************************************************************************)
ImplementsPromise == Promise!Spec

(* What of it does not speak of fairness. *)
PromiseSafety == Promise!Init /\ [][Promise!Next]_(Promise!specVars)

(***************************************************************************)
(* rank counts independent packets: the received packets span a space of   *)
(* exactly rank dimensions, so no packet is counted twice or lost. Such a  *)
(* space has a member for each choice of rank elements.                    *)
(***************************************************************************)
RankIsDimension == Cardinality(span) = Cardinality([Rows -> Elem])
=============================================================================
