---------------------------- MODULE DecoderSpec ----------------------------
(***************************************************************************)
(* What a decoder promises, without rows, pivots or elimination: a packet  *)
(* is innovative exactly when it lies outside the span of what was         *)
(* received before, and decode returns the source symbols exactly when     *)
(* that span is the whole space.                                           *)
(***************************************************************************)
EXTENDS LinearAlgebra

CONSTANT None

VARIABLES span, packet, ret, symbols

specVars == <<span, packet, ret, symbols>>

(* The span of S, itself a space, and v. *)
Extend(S, v) == {Axpy(a, v, u) : a \in Elem, u \in S}

Init ==
  /\ span = {ZeroVector}
  /\ packet = ZeroVector
  /\ ret = "new"
  /\ symbols = None

Receive ==
  /\ ret # "busy" /\ ret' = "busy"
  /\ packet' \in Vector
  /\ UNCHANGED <<span, symbols>>

Refuse ==
  /\ ret # "busy" /\ ret' = "mismatch"
  /\ UNCHANGED <<span, packet, symbols>>

Innovative ==
  /\ ret = "busy" /\ ret' = "innovative"
  /\ packet \notin span
  /\ span' = Extend(span, packet)
  /\ packet' = ZeroVector
  /\ UNCHANGED symbols

Redundant ==
  /\ ret = "busy" /\ ret' = "dependent"
  /\ packet \in span
  /\ packet' = ZeroVector
  /\ UNCHANGED <<span, symbols>>

DecodeNothing ==
  /\ ret # "busy" /\ ret' = "incomplete"
  /\ span # Vector
  /\ UNCHANGED <<span, packet, symbols>>

DecodeAll ==
  /\ ret # "busy" /\ ret' = "symbols"
  /\ span = Vector
  /\ symbols' = Source
  /\ UNCHANGED <<span, packet>>

Next ==
  Receive \/ Refuse \/ Innovative \/ Redundant \/ DecodeNothing \/ DecodeAll

Spec == Init /\ [][Next]_specVars /\ WF_specVars(Innovative \/ Redundant)
=============================================================================
