------------------------------ MODULE Recoder ------------------------------
(***************************************************************************)
(* The recoder of rlnc-simdx (recoder.rs): a relay draws one weight for    *)
(* each packet it holds and adds up first the coefficients and then, in a  *)
(* second pass over the same weights, the payloads. It keeps no state      *)
(* between calls. As in Encoder, draws are arbitrary, which covers the     *)
(* SimpleRng that recode takes.                                            *)
(***************************************************************************)
EXTENDS LinearAlgebra, Countdown, Sequences

CONSTANTS
  RecMaxRetries,  \* the literal 100 of the retry loop
  MaxInputs       \* the number of packets a relay passes to one call

ASSUME RecoderAssumption ==
  RecMaxRetries \in Nat \ {0} /\ MaxInputs \in Nat \ {0}

VARIABLES
  rec_pc,       \* where the call is; "idle" between calls
  inputs,       \* the packets passed to the call
  weights,      \* recode_coeffs
  rec_retries,
  rec_i,        \* the loop of either axpy_multi, from 1
  out_coeffs,   \* the packet; kept until the next call
  out_payload,
  rec_ret       \* what the last call returned; "busy" during a call

recoderVars == <<rec_pc, inputs, weights, rec_retries, rec_i, out_coeffs,
                 out_payload, rec_ret>>

PacketOf(c, p) == [coefficients |-> c, payload |-> p]
CodedPackets   == {PacketOf(c, Code(c)) : c \in Vector}

(* The packets one call may be given. *)
InputsFrom(S) == UNION {[1..n -> S] : n \in 1..MaxInputs}

NoWeights == [n \in 1..0 |-> Zero]
ZeroWeights(n) == [m \in 1..n |-> Zero]

RecoderTypeOK ==
  /\ rec_pc \in {"idle", "draw", "coefficients", "payload"}
  /\ inputs \in InputsFrom(CodedPackets) \cup {<<>>}
  /\ weights \in [1..Len(inputs) -> Elem]
  /\ rec_retries \in 0..(RecMaxRetries - 1)
  /\ rec_i \in 1..(Len(inputs) + 1)
  /\ out_coeffs \in Vector
  /\ out_payload \in Payload
  /\ rec_ret \in {"new", "busy", "packet", "InvalidParameters",
                  "PacketSizeMismatch"}

RecoderInit ==
  /\ rec_pc = "idle"
  /\ inputs = <<>>
  /\ weights = NoWeights
  /\ rec_retries = 0
  /\ rec_i = 1
  /\ out_coeffs = ZeroVector
  /\ out_payload = ZeroPayload
  /\ rec_ret = "new"

RecodeReturns(c, p, v) ==
  /\ rec_pc' = "idle"
  /\ inputs' = <<>>
  /\ weights' = NoWeights
  /\ rec_retries' = 0
  /\ rec_i' = 1
  /\ out_coeffs' = c
  /\ out_payload' = p
  /\ rec_ret' = v

-----------------------------------------------------------------------------
(* An empty slice. *)
RecodeNothing ==
  /\ rec_pc = "idle"
  /\ RecodeReturns(ZeroVector, ZeroPayload, "InvalidParameters")

(* Some packet has not the shape of the first one. Here a packet is its two *)
(* lengths, which are all that this part of the code looks at.              *)
RecodeMismatch(shapes) ==
  /\ rec_pc = "idle"
  /\ \E n \in DOMAIN shapes : shapes[n] # shapes[1]
  /\ RecodeReturns(ZeroVector, ZeroPayload, "PacketSizeMismatch")

(* recode up to the end of the first rng.fill, which drew w. *)
BeginRecode(ins, w) ==
  /\ rec_pc = "idle"
  /\ rec_pc' = "draw"
  /\ inputs' = ins
  /\ weights' = w
  /\ out_coeffs' = ZeroVector
  /\ out_payload' = ZeroPayload
  /\ rec_ret' = "busy"
  /\ UNCHANGED <<rec_retries, rec_i>>

(* Mutant: the counter starts over instead of ending the loop. *)
RedrawWeightsForEver(w) ==
  /\ rec_pc = "draw"
  /\ weights = ZeroWeights(Len(inputs))
  /\ rec_retries' = (rec_retries + 1) % RecMaxRetries
  /\ weights' = w
  /\ UNCHANGED <<rec_pc, inputs, rec_i, out_coeffs, out_payload, rec_ret>>

RedrawWeights(w) ==
  /\ rec_pc = "draw"
  /\ weights = ZeroWeights(Len(inputs))
  /\ rec_retries + 1 < RecMaxRetries
  /\ rec_retries' = rec_retries + 1
  /\ weights' = w
  /\ UNCHANGED <<rec_pc, inputs, rec_i, out_coeffs, out_payload, rec_ret>>

(* Mutant: the one is put into the coefficients, not into the weights. *)
GiveUpCoefficients ==
  /\ rec_pc = "draw"
  /\ weights = ZeroWeights(Len(inputs))
  /\ rec_retries + 1 >= RecMaxRetries
  /\ out_coeffs' = Unit(0)
  /\ rec_pc' = "coefficients"
  /\ UNCHANGED <<inputs, weights, rec_retries, rec_i, out_payload, rec_ret>>

(* recode_coeffs[0] = 1 and break. *)
GiveUpWeights ==
  /\ rec_pc = "draw"
  /\ weights = ZeroWeights(Len(inputs))
  /\ rec_retries + 1 >= RecMaxRetries
  /\ weights' = [weights EXCEPT ![1] = One]
  /\ rec_pc' = "coefficients"
  /\ UNCHANGED <<inputs, rec_retries, rec_i, out_coeffs, out_payload, rec_ret>>

AcceptWeights ==
  /\ rec_pc = "draw"
  /\ weights # ZeroWeights(Len(inputs))
  /\ rec_pc' = "coefficients"
  /\ UNCHANGED <<inputs, weights, rec_retries, rec_i, out_coeffs, out_payload,
                 rec_ret>>

(* axpy_multi(&recode_coeffs, coefficients, out_coeffs), one packet a step. *)
AddCoefficients ==
  /\ rec_pc = "coefficients"
  /\ rec_i <= Len(inputs)
  /\ out_coeffs' = Axpy(weights[rec_i], inputs[rec_i].coefficients, out_coeffs)
  /\ rec_i' = rec_i + 1
  /\ UNCHANGED <<rec_pc, inputs, weights, rec_retries, out_payload, rec_ret>>

(* Mutant: fresh weights for the payloads. *)
NextPassRedrawing ==
  /\ rec_pc = "coefficients"
  /\ rec_i = Len(inputs) + 1
  /\ rec_pc' = "payload"
  /\ rec_i' = 1
  /\ weights' \in [1..Len(inputs) -> Elem]
  /\ UNCHANGED <<inputs, rec_retries, out_coeffs, out_payload, rec_ret>>

(* The coefficients are done; sources.clear() and the payloads. *)
NextPass ==
  /\ rec_pc = "coefficients"
  /\ rec_i = Len(inputs) + 1
  /\ rec_pc' = "payload"
  /\ rec_i' = 1
  /\ UNCHANGED <<inputs, weights, rec_retries, out_coeffs, out_payload, rec_ret>>

(* axpy_multi(&recode_coeffs, payloads, out_payload). *)
AddPayload ==
  /\ rec_pc = "payload"
  /\ rec_i <= Len(inputs)
  /\ out_payload' = Axpy(weights[rec_i], inputs[rec_i].payload, out_payload)
  /\ rec_i' = rec_i + 1
  /\ UNCHANGED <<rec_pc, inputs, weights, rec_retries, out_coeffs, rec_ret>>

FinishRecode ==
  /\ rec_pc = "payload"
  /\ rec_i = Len(inputs) + 1
  /\ RecodeReturns(out_coeffs, out_payload, "packet")

-----------------------------------------------------------------------------
(* A relay passes packets of the set S. *)
RecoderCall(S) ==
  \/ RecodeNothing
  \/ \E shapes \in [1..2 -> {K, K + 1} \X {N, N + 1}] : RecodeMismatch(shapes)
  \/ \E ins \in InputsFrom(S) : \E w \in [DOMAIN ins -> Elem] : BeginRecode(ins, w)

RecoderStep ==
  \/ \E w \in [DOMAIN inputs -> Elem] : RedrawWeights(w)
  \/ GiveUpWeights \/ AcceptWeights \/ AddCoefficients \/ NextPass
  \/ AddPayload \/ FinishRecode

RecoderNext == RecoderCall(CodedPackets) \/ RecoderStep

RecoderSpec == RecoderInit /\ [][RecoderNext]_recoderVars

RecoderFairSpec == RecoderSpec /\ WF_recoderVars(RecoderStep)

-----------------------------------------------------------------------------
(***************************************************************************)
(* A recoded packet is as good as a coded one: although the coefficients   *)
(* and the payload are summed in two passes, the payload is what the       *)
(* encoder would have computed for the coefficients.                       *)
(***************************************************************************)
RecodedIsCode == rec_ret = "packet" => out_payload = Code(out_coeffs)

(***************************************************************************)
(* recode returns, even if it were to draw zeros for ever.                 *)
(***************************************************************************)
RecodeAlwaysReturns == (rec_pc # "idle") ~> (rec_pc = "idle")

(* What is left of a call: draws before the loop gives up, or packets in    *)
(* the pass it is in.                                                      *)
RecodeStepsLeft ==
  CASE rec_pc = "draw"         -> <<3, RecMaxRetries - rec_retries>>
    [] rec_pc = "coefficients" -> <<2, Len(inputs) + 1 - rec_i>>
    [] rec_pc = "payload"      -> <<1, Len(inputs) + 1 - rec_i>>
    [] rec_pc = "idle"         -> <<0, 0>>

(***************************************************************************)
(* Each step of recode brings its return nearer, although the loop over    *)
(* the packets starts over for the payloads and the retry loop with every  *)
(* draw of zeros.                                                          *)
(***************************************************************************)
RecodeCountsDown ==
  [][rec_pc # "idle" => Nearer(2, RecodeStepsLeft', RecodeStepsLeft)]_recoderVars

-----------------------------------------------------------------------------
(* The inductive invariant. *)

(* t is what the additions make of the coefficients: t[n] after n packets. *)
SumTrail(t, n) ==
  /\ t[0] = ZeroVector
  /\ t[n] = out_coeffs
  /\ \A m \in 1..n : t[m] = Axpy(weights[m], inputs[m].coefficients, t[m - 1])

RecoderInv ==
  /\ RecoderTypeOK
  /\ rec_pc = "idle" => inputs = <<>>
  /\ rec_pc # "idle" => Len(inputs) > 0
  /\ rec_pc = "draw" => /\ rec_i = 1
                        /\ out_coeffs = ZeroVector
                        /\ out_payload = ZeroPayload
  /\ rec_pc = "coefficients" =>
       /\ out_payload = ZeroPayload
       /\ \E t \in [0..(rec_i - 1) -> Vector] : SumTrail(t, rec_i - 1)
  /\ rec_pc = "payload" =>
       \E t \in [0..Len(inputs) -> Vector] :
         SumTrail(t, Len(inputs)) /\ out_payload = Code(t[rec_i - 1])
  /\ rec_ret = "packet" => rec_pc = "idle"
  /\ RecodedIsCode
=============================================================================
