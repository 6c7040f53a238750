----------------------------- MODULE MCDecoder -----------------------------
(* DecoderRefinement over the field of MCField. *)
EXTENDS DecoderRefinement, MCSymbols
=============================================================================
