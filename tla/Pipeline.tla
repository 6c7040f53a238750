------------------------------ MODULE Pipeline ------------------------------
(***************************************************************************)
(* One generation on its way through the library: an encoder, a relay with *)
(* a recoder and a decoder, on different hosts, over a network that loses, *)
(* repeats and reorders packets. The network is the environment the crate  *)
(* is written for; src/ has no code for it. The components share nothing   *)
(* but packets, so their steps interleave freely.                          *)
(***************************************************************************)
EXTENDS DecoderInvariant, Encoder, Recoder

VARIABLE net  \* the packets in flight

pipelineVars == <<vars, encoderVars, recoderVars, net>>

PipelineInit == Init /\ EncoderInit /\ RecoderInit /\ net = {}

EncoderMoves ==
  /\ EncoderNext
  /\ UNCHANGED <<vars, recoderVars, net>>

(* The relay recodes packets it has taken from the network, repeated ones   *)
(* included. What it took stays in flight: a packet may arrive twice.       *)
RecoderMoves ==
  /\ RecoderCall(net) \/ RecoderStep
  /\ UNCHANGED <<vars, encoderVars, net>>

(* The last packet returned is sent, possibly more than once. *)
SendEncoded ==
  /\ enc_ret = "packet"
  /\ net' = net \cup {PacketOf(coeffs, enc_payload)}
  /\ UNCHANGED <<vars, encoderVars, recoderVars>>

SendRecoded ==
  /\ rec_ret = "packet"
  /\ net' = net \cup {PacketOf(out_coeffs, out_payload)}
  /\ UNCHANGED <<vars, encoderVars, recoderVars>>

(* Any packet in flight arrives, in any order, and may arrive again. *)
Deliver ==
  /\ \E p \in net : ReceivePacket(p.coefficients, p.payload)
  /\ UNCHANGED <<encoderVars, recoderVars, net>>

(* The decoder goes on with its call, is asked to decode, or refuses a      *)
(* packet of another generation's shape.                                    *)
DecoderMoves ==
  /\ \/ Step
     \/ DecodeIncomplete \/ DecodeAgain \/ BeginDecode
     \/ \E cl \in 0..(K + 1), pl \in 0..(N + 1) : ReceiveMismatch(cl, pl)
  /\ UNCHANGED <<encoderVars, recoderVars, net>>

Lose ==
  /\ \E p \in net : net' = net \ {p}
  /\ UNCHANGED <<vars, encoderVars, recoderVars>>

PipelineNext ==
  \/ EncoderMoves \/ RecoderMoves \/ SendEncoded \/ SendRecoded
  \/ Deliver \/ DecoderMoves \/ Lose

PipelineSpec == PipelineInit /\ [][PipelineNext]_pipelineVars

-----------------------------------------------------------------------------
(***************************************************************************)
(* Every packet in flight is a coded packet, through any number of relays. *)
(***************************************************************************)
NetworkIsCoded == net \subseteq CodedPackets

(***************************************************************************)
(* The decoder of the pipeline behaves as module Decoder allows: what      *)
(* encoder, relay and network deliver to it is what Spec assumes of its    *)
(* callers. All that is known of Spec is therefore true of the pipeline.   *)
(***************************************************************************)
DecoderIsServed == Spec

(* The inductive invariant: the components keep theirs. *)
PipelineInv == NetworkIsCoded /\ EncoderInv /\ RecoderInv
=============================================================================
