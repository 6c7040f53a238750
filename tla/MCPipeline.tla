----------------------------- MODULE MCPipeline -----------------------------
(***************************************************************************)
(* The pipeline over the field of MCField. To keep the instance small      *)
(* nothing else happens while a component is inside a call, at most        *)
(* MaxInFlight packets are in flight, and encoder and recoder are called   *)
(* with arguments they accept. The components share only the network,      *)
(* which no step inside a call reads or writes.                            *)
(***************************************************************************)
EXTENDS PipelinePromise, MCSymbols

CONSTANT MaxInFlight

Busy == {c \in {"encoder", "recoder", "decoder"} :
           CASE c = "encoder" -> enc_pc # "idle"
             [] c = "recoder" -> rec_pc # "idle"
             [] c = "decoder" -> pc # "idle"}

(* The component inside a call, if there is one, goes on with it. *)
Moves(c) ==
  CASE c = "encoder" -> EncoderMoves
    [] c = "recoder" -> RecoderMoves
    [] c = "decoder" -> DecoderMoves

GoOn == (\E c \in Busy : Moves(c)) /\ History /\ UNCHANGED sent

Bounded ==
  /\ {enc_ret', rec_ret'} \subseteq {"new", "busy", "packet"}
  /\ Cardinality(net') <= MaxInFlight

MCNext ==
  /\ \/ Busy = {} /\ PromisedNext
     \/ GoOn
  /\ Bounded

MCSpec == PromisedInit /\ [][MCNext]_promiseVars
=============================================================================
