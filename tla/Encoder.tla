------------------------------ MODULE Encoder ------------------------------
(***************************************************************************)
(* The encoder of rlnc-simdx (encoder.rs). A call of encode_random draws   *)
(* coefficients until they are not all zero, at most MaxRetries times, and *)
(* then adds up the source symbols, one step for each. A draw may be any   *)
(* vector, any number of times in a row. That is more than can happen: the *)
(* function takes a SimpleRng and nothing else, and modules SimpleRng and  *)
(* ZeroRuns say what that draws.                                           *)
(***************************************************************************)
EXTENDS LinearAlgebra, Countdown

CONSTANT MaxRetries  \* the literal 100 of encode_random and of recode

ASSUME RetriesAssumption == MaxRetries \in Nat \ {0}

VARIABLES
  enc_pc,       \* where the call is; "idle" between calls
  coeffs,       \* the coefficients of the packet
  enc_payload,  \* its payload; kept with coeffs until the next call
  retries,
  enc_i,        \* the loop over the sources in axpy_multi
  enc_ret       \* what the last call returned; "busy" during encode_random

encoderVars == <<enc_pc, coeffs, enc_payload, retries, enc_i, enc_ret>>

EncoderTypeOK ==
  /\ enc_pc \in {"idle", "draw", "sum"}
  /\ coeffs \in Vector
  /\ enc_payload \in Payload
  /\ retries \in 0..(MaxRetries - 1)
  /\ enc_i \in 0..K
  /\ enc_ret \in {"new", "busy", "packet", "SourceCountMismatch",
                  "SourceSizeMismatch", "IndexOutOfRange"}

(* Encoder::new *)
EncoderInit ==
  /\ enc_pc = "idle"
  /\ coeffs = ZeroVector
  /\ enc_payload = ZeroPayload
  /\ retries = 0
  /\ enc_i = 0
  /\ enc_ret = "new"

EncodeReturns(c, p, v) ==
  /\ enc_pc' = "idle"
  /\ coeffs' = c
  /\ enc_payload' = p
  /\ retries' = 0
  /\ enc_i' = 0
  /\ enc_ret' = v

-----------------------------------------------------------------------------
(* validate_source, which both methods call first: source is given as its   *)
(* number of symbols and the length of the first one that is not N bytes,   *)
(* or N.                                                                   *)
EncodeBadSource(count, size) ==
  /\ enc_pc = "idle"
  /\ count # K \/ size # N
  /\ EncodeReturns(ZeroVector, ZeroPayload,
                   IF count # K THEN "SourceCountMismatch"
                   ELSE "SourceSizeMismatch")

(* encode_systematic: the payload is a copy of the symbol. *)
EncodeSystematic(index) ==
  /\ enc_pc = "idle"
  /\ IF index >= K
     THEN EncodeReturns(ZeroVector, ZeroPayload, "IndexOutOfRange")
     ELSE EncodeReturns(Unit(index), Source[index], "packet")

(* encode_random up to the end of the first rng.fill, which drew c. *)
BeginEncode(c) ==
  /\ enc_pc = "idle"
  /\ enc_pc' = "draw"
  /\ coeffs' = c
  /\ enc_payload' = ZeroPayload
  /\ enc_ret' = "busy"
  /\ UNCHANGED <<retries, enc_i>>

(* Mutant: the counter starts over instead of ending the loop. *)
RedrawForEver(c) ==
  /\ enc_pc = "draw"
  /\ coeffs = ZeroVector
  /\ retries' = (retries + 1) % MaxRetries
  /\ coeffs' = c
  /\ UNCHANGED <<enc_pc, enc_payload, enc_i, enc_ret>>

(* One turn of the retry loop that ends with another fill. *)
Redraw(c) ==
  /\ enc_pc = "draw"
  /\ coeffs = ZeroVector
  /\ retries + 1 < MaxRetries
  /\ retries' = retries + 1
  /\ coeffs' = c
  /\ UNCHANGED <<enc_pc, enc_payload, enc_i, enc_ret>>

(* The turn that gives up: coeffs[0] = 1 and break. *)
GiveUp ==
  /\ enc_pc = "draw"
  /\ coeffs = ZeroVector
  /\ retries + 1 >= MaxRetries
  /\ coeffs' = Unit(0)
  /\ enc_pc' = "sum"
  /\ UNCHANGED <<enc_payload, retries, enc_i, enc_ret>>

(* Mutants: a vector of zeros is accepted as drawn; the sum of the sources   *)
(* starts with the second one.                                             *)
AcceptAnything ==
  /\ enc_pc = "draw"
  /\ enc_pc' = "sum"
  /\ UNCHANGED <<coeffs, enc_payload, retries, enc_i, enc_ret>>
AcceptFromSecond ==
  /\ enc_pc = "draw"
  /\ coeffs # ZeroVector
  /\ enc_pc' = "sum"
  /\ enc_i' = 1
  /\ UNCHANGED <<coeffs, enc_payload, retries, enc_ret>>

Accept ==
  /\ enc_pc = "draw"
  /\ coeffs # ZeroVector
  /\ enc_pc' = "sum"
  /\ UNCHANGED <<coeffs, enc_payload, retries, enc_i, enc_ret>>

(* axpy_multi(coeffs, source, payload), one source at a time. *)
AddSource ==
  /\ enc_pc = "sum"
  /\ enc_i < K
  /\ enc_payload' = Axpy(coeffs[enc_i], Source[enc_i], enc_payload)
  /\ enc_i' = enc_i + 1
  /\ UNCHANGED <<enc_pc, coeffs, retries, enc_ret>>

FinishEncode ==
  /\ enc_pc = "sum"
  /\ enc_i = K
  /\ EncodeReturns(coeffs, enc_payload, "packet")

-----------------------------------------------------------------------------
EncoderCall ==
  \/ \E count \in {0, K, K + 1}, size \in {0, N, N + 1} : EncodeBadSource(count, size)
  \/ \E index \in 0..K : EncodeSystematic(index)
  \/ \E c \in Vector : BeginEncode(c)

EncoderStep ==
  \/ \E c \in Vector : Redraw(c)
  \/ GiveUp \/ Accept \/ AddSource \/ FinishEncode

EncoderNext == EncoderCall \/ EncoderStep

EncoderSpec == EncoderInit /\ [][EncoderNext]_encoderVars

EncoderFairSpec == EncoderSpec /\ WF_encoderVars(EncoderStep)

-----------------------------------------------------------------------------
(***************************************************************************)
(* What encode_random and encode_systematic return is a packet the decoder *)
(* can rely on: the payload is the linear code of the coefficients, and    *)
(* whatever is drawn, not all coefficients are zero.                       *)
(***************************************************************************)
EncodedIsCode ==
  enc_ret = "packet" => enc_payload = Code(coeffs) /\ coeffs # ZeroVector

(***************************************************************************)
(* encode_random returns, even if it were to draw zeros for ever.          *)
(***************************************************************************)
EncodeAlwaysReturns == (enc_pc # "idle") ~> (enc_pc = "idle")

(* What is left of a call: draws before the loop gives up, or sources. *)
EncodeStepsLeft ==
  CASE enc_pc = "draw" -> <<2, MaxRetries - retries>>
    [] enc_pc = "sum"  -> <<1, K - enc_i>>
    [] enc_pc = "idle" -> <<0, 0>>

(***************************************************************************)
(* Each step of encode_random brings its return nearer, another draw of    *)
(* zeros included: no draws can make the retry loop go on.                 *)
(***************************************************************************)
EncodeCountsDown ==
  [][enc_pc # "idle" => Nearer(2, EncodeStepsLeft', EncodeStepsLeft)]_encoderVars

-----------------------------------------------------------------------------
(* The inductive invariant. *)

(* The coefficients of the sources added so far. *)
PrefixOf(c, n) == [j \in Cols |-> IF j < n THEN c[j] ELSE Zero]

EncoderInv ==
  /\ EncoderTypeOK
  /\ enc_pc = "draw" => enc_payload = ZeroPayload /\ enc_i = 0
  /\ enc_pc = "idle" => retries = 0 /\ enc_i = 0
  /\ enc_pc = "sum" => /\ coeffs # ZeroVector
                       /\ enc_payload = Code(PrefixOf(coeffs, enc_i))
  /\ enc_ret = "packet" => enc_pc = "idle"
  /\ EncodedIsCode
=============================================================================
