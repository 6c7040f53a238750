--------------------------- MODULE PipelineProofs ---------------------------
(***************************************************************************)
(* The senders are correct for all draws, every generation size, symbol    *)
(* size and field: each packet they return has the payload that belongs to *)
(* its coefficients. And the components fit together: what encoders and    *)
(* relays put on the network is what the decoder's specification assumes   *)
(* of its callers, so the decoder's theorems hold end to end. The last part *)
(* is about SimpleRng, from which the senders draw.                        *)
(***************************************************************************)
EXTENDS PipelinePromise, ZeroRuns, RefinementProofs

(***************************************************************************)
(* The encoder's sum over the first sources is the code of the first       *)
(* coefficients, extended by one source at a time.                         *)
(***************************************************************************)
LEMMA PrefixType ==
  ASSUME NEW c \in Vector, NEW n \in Nat
  PROVE  PrefixOf(c, n) \in Vector
BY FieldAssumption DEF PrefixOf, Vector

LEMMA PrefixEnds ==
  ASSUME NEW c \in Vector
  PROVE  PrefixOf(c, 0) = ZeroVector /\ PrefixOf(c, K) = c
BY SizeAssumption DEF PrefixOf, ZeroVector, Vector, Cols

LEMMA PrefixExtend ==
  ASSUME NEW c \in Vector, NEW i \in Cols
  PROVE  Axpy(c[i], Unit(i), PrefixOf(c, i)) = PrefixOf(c, i + 1)
<1>1. i \in Nat /\ \A j \in Cols : j \in Nat /\ c[j] \in Elem
  BY SizeAssumption DEF Cols, Vector
<1>2. /\ \A a, b \in Elem : Plus(b, Times(a, Zero)) = b
      /\ \A a \in Elem : Plus(Zero, Times(a, One)) = a
  BY FieldAssumption
<1>3. \A j \in Cols : Axpy(c[i], Unit(i), PrefixOf(c, i))[j] = PrefixOf(c, i + 1)[j]
  <2> SUFFICES ASSUME NEW j \in Cols
               PROVE  Axpy(c[i], Unit(i), PrefixOf(c, i))[j] = PrefixOf(c, i + 1)[j]
    OBVIOUS
  <2>1. Axpy(c[i], Unit(i), PrefixOf(c, i))[j] =
          Plus(PrefixOf(c, i)[j], Times(c[i], Unit(i)[j]))
    BY <1>1 DEF Axpy, AxpyFrom, PrefixOf
  <2>2. CASE j = i
    <3>1. PrefixOf(c, i)[j] = Zero /\ Unit(i)[j] = One /\ PrefixOf(c, i + 1)[j] = c[i]
      BY <1>1, <2>2 DEF PrefixOf, Unit
    <3>2. QED
      BY <1>1, <1>2, <2>1, <3>1
  <2>3. CASE j # i
    <3>1. /\ PrefixOf(c, i)[j] = PrefixOf(c, i + 1)[j]
          /\ PrefixOf(c, i)[j] \in Elem
          /\ Unit(i)[j] = Zero
      BY <1>1, <2>3, FieldAssumption DEF PrefixOf, Unit
    <3>2. QED
      BY <1>1, <1>2, <2>1, <3>1
  <2>4. QED
    BY <2>2, <2>3
<1>4. QED
  BY <1>3 DEF Axpy, AxpyFrom, PrefixOf

LEMMA EncodeReturnsInv ==
  ASSUME NEW c \in Vector, NEW p \in Payload, NEW v,
         EncodeReturns(c, p, v),
         \/ v \in {"SourceCountMismatch", "SourceSizeMismatch", "IndexOutOfRange"}
         \/ v = "packet" /\ p = Code(c) /\ c # ZeroVector
  PROVE  EncoderInv'
BY RetriesAssumption, SizeAssumption
DEF EncodeReturns, EncoderInv, EncoderTypeOK, EncodedIsCode

(***************************************************************************)
(* Every step of the encoder keeps its invariant.                          *)
(***************************************************************************)
LEMMA EncoderStepInv ==
  ASSUME EncoderInv, [EncoderNext]_encoderVars
  PROVE  EncoderInv'
<1>1. CASE UNCHANGED encoderVars
  BY <1>1 DEF encoderVars, EncoderInv, EncoderTypeOK, EncodedIsCode
<1>2. ASSUME NEW count, NEW size,
             EncodeBadSource(count, size)
      PROVE  EncoderInv'
  BY <1>2, EncodeReturnsInv, ZeroTypes DEF EncodeBadSource
<1>3. ASSUME NEW index \in 0..K, EncodeSystematic(index)
      PROVE  EncoderInv'
  <2>1. CASE index >= K
    BY <1>3, <2>1, EncodeReturnsInv, ZeroTypes DEF EncodeSystematic
  <2>2. CASE ~(index >= K)
    <3>1. index \in Cols
      BY <2>2, SizeAssumption DEF Cols
    <3>2. Source[index] = Code(Unit(index))
      BY <3>1 DEF Source
    <3>3. EncodeReturns(Unit(index), Source[index], "packet")
      BY <1>3, <2>2 DEF EncodeSystematic
    <3>4. QED
      BY <3>1, <3>2, <3>3, EncodeReturnsInv, UnitTypes
  <2>3. QED
    BY <2>1, <2>2
<1>4. ASSUME NEW c \in Vector, BeginEncode(c)
      PROVE  EncoderInv'
  BY <1>4, ZeroTypes DEF BeginEncode, EncoderInv, EncoderTypeOK, EncodedIsCode
<1>5. ASSUME NEW c \in Vector, Redraw(c)
      PROVE  EncoderInv'
  BY <1>5, RetriesAssumption
  DEF Redraw, EncoderInv, EncoderTypeOK, EncodedIsCode
<1>6. CASE GiveUp
  <2>1. 0 \in Cols
    BY SizeAssumption DEF Cols
  <2>2. Unit(0) \in Vector /\ Unit(0) # ZeroVector /\ PrefixOf(Unit(0), 0) = ZeroVector
    BY <2>1, UnitTypes, PrefixEnds
  <2>3. QED
    BY <1>6, <2>2, CodeOfZero DEF GiveUp, EncoderInv, EncoderTypeOK, EncodedIsCode
<1>7. CASE Accept
  <2>1. PrefixOf(coeffs, 0) = ZeroVector
    BY PrefixEnds DEF EncoderInv, EncoderTypeOK
  <2>2. QED
    BY <1>7, <2>1, CodeOfZero DEF Accept, EncoderInv, EncoderTypeOK, EncodedIsCode
<1>8. CASE AddSource
  <2>1. enc_i \in Cols /\ coeffs \in Vector /\ coeffs[enc_i] \in Elem
        /\ enc_i + 1 \in 0..K
    BY <1>8, SizeAssumption DEF AddSource, EncoderInv, EncoderTypeOK, Cols, Vector
  <2>2. PrefixOf(coeffs, enc_i) \in Vector
    BY <2>1, PrefixType, SizeAssumption DEF Cols
  <2>3. Code(PrefixOf(coeffs, enc_i + 1)) =
          Axpy(coeffs[enc_i], Source[enc_i], Code(PrefixOf(coeffs, enc_i)))
    <3>1. Source[enc_i] = Code(Unit(enc_i)) /\ Unit(enc_i) \in Vector
      BY <2>1, UnitTypes DEF Source
    <3>2. QED
      BY <2>1, <2>2, <3>1, PrefixExtend, CodeAssumption
  <2>4. enc_payload' = Code(PrefixOf(coeffs, enc_i + 1))
    BY <1>8, <2>3 DEF AddSource, EncoderInv
  <2>5. enc_payload' \in Payload
    BY <2>1, <2>4, PrefixType, CodeAssumption, SizeAssumption DEF Cols
  <2>6. QED
    BY <1>8, <2>1, <2>4, <2>5 DEF AddSource, EncoderInv, EncoderTypeOK, EncodedIsCode
<1>9. CASE FinishEncode
  <2>1. coeffs \in Vector /\ enc_payload \in Payload /\ coeffs # ZeroVector
        /\ enc_payload = Code(coeffs)
    BY <1>9, PrefixEnds DEF FinishEncode, EncoderInv, EncoderTypeOK
  <2>2. QED
    BY <1>9, <2>1, EncodeReturnsInv DEF FinishEncode
<1>10. QED
  BY <1>1, <1>2, <1>3, <1>4, <1>5, <1>6, <1>7, <1>8, <1>9
  DEF EncoderNext, EncoderCall, EncoderStep

LEMMA EncoderInitInv == EncoderInit => EncoderInv
BY ZeroTypes, RetriesAssumption, SizeAssumption
DEF EncoderInit, EncoderInv, EncoderTypeOK, EncodedIsCode

THEOREM EncoderInvariance == EncoderSpec => []EncoderInv
BY EncoderInitInv, EncoderStepInv, PTL DEF EncoderSpec

(***************************************************************************)
(* Whatever is drawn, even if it were zeros only, the packets of           *)
(* encode_random and encode_systematic have a payload that is the code of  *)
(* their coefficients, which are not all zero.                             *)
(***************************************************************************)
THEOREM EncodedPacketsAreCodes == EncoderSpec => []EncodedIsCode
<1>1. EncoderInv => EncodedIsCode
  BY DEF EncoderInv
<1>2. QED
  BY <1>1, EncoderInvariance, PTL

LEMMA NearerPair ==
  ASSUME NEW m \in Countdowns(2), NEW n \in Countdowns(2),
         m[1] < n[1] \/ (m[1] = n[1] /\ m[2] < n[2])
  PROVE  Nearer(2, m, n)
<1>1. \E j \in 1..2 : /\ \A i \in 1..(j - 1) : m[i] = n[i]
                      /\ <<m[j], n[j]>> \in OpToRel(<, Nat)
  BY DEF OpToRel, Countdowns
<1>2. QED
  BY <1>1 DEF Nearer, Descent, LexProductOrdering, Countdowns

LEMMA PairType == \A x, y \in Nat : <<x, y>> \in Countdowns(2)
BY DEF Countdowns

LEMMA EncodeStepsLeftType == EncoderInv => EncodeStepsLeft \in Countdowns(2)
<1> SUFFICES ASSUME EncoderInv
             PROVE  EncodeStepsLeft \in Countdowns(2)
  OBVIOUS
<1>1. /\ enc_pc \in {"idle", "draw", "sum"}
      /\ MaxRetries - retries \in Nat /\ K - enc_i \in Nat
  BY RetriesAssumption, SizeAssumption DEF EncoderInv, EncoderTypeOK
<1>2. QED
  BY <1>1, PairType DEF EncodeStepsLeft

LEMMA EncodeDescends ==
  ASSUME EncoderInv, EncoderStep
  PROVE  LET m == EncodeStepsLeft'
             n == EncodeStepsLeft
         IN  m[1] < n[1] \/ (m[1] = n[1] /\ m[2] < n[2])
<1>0. /\ MaxRetries \in Nat /\ retries \in Nat /\ retries < MaxRetries
      /\ K \in Nat /\ enc_i \in 0..K
  BY RetriesAssumption, SizeAssumption DEF EncoderInv, EncoderTypeOK
<1>1. ASSUME NEW c \in Vector, Redraw(c)
      PROVE  /\ EncodeStepsLeft = <<2, MaxRetries - retries>>
             /\ EncodeStepsLeft' = <<2, MaxRetries - (retries + 1)>>
  BY <1>1 DEF Redraw, EncodeStepsLeft
<1>2. CASE GiveUp \/ Accept
  <2>1. EncodeStepsLeft = <<2, MaxRetries - retries>> /\ EncodeStepsLeft' = <<1, K - enc_i'>>
    BY <1>2 DEF GiveUp, Accept, EncodeStepsLeft
  <2>2. QED
    BY <2>1
<1>3. CASE AddSource
  <2>1. EncodeStepsLeft = <<1, K - enc_i>> /\ EncodeStepsLeft' = <<1, K - (enc_i + 1)>>
    BY <1>3 DEF AddSource, EncodeStepsLeft
  <2>2. QED
    BY <1>0, <2>1
<1>4. CASE FinishEncode
  <2>1. EncodeStepsLeft = <<1, K - enc_i>> /\ EncodeStepsLeft' = <<0, 0>>
    BY <1>4 DEF FinishEncode, EncodeReturns, EncodeStepsLeft
  <2>2. QED
    BY <2>1
<1>5. QED
  BY <1>0, <1>1, <1>2, <1>3, <1>4 DEF EncoderStep

(***************************************************************************)
(* Every step of encode_random descends, the draws of the retry loop       *)
(* included, whatever they draw.                                           *)
(***************************************************************************)
THEOREM EncoderCountsDown == EncoderSpec => EncodeCountsDown
<1> DEFINE Typed == EncodeStepsLeft \in Countdowns(2)
<1>1. EncoderInv /\ Typed /\ Typed' /\ [EncoderNext]_encoderVars
        => [enc_pc # "idle" => Nearer(2, EncodeStepsLeft', EncodeStepsLeft)]_encoderVars
  <2> SUFFICES ASSUME EncoderInv, Typed, Typed', EncoderNext, enc_pc # "idle"
               PROVE  Nearer(2, EncodeStepsLeft', EncodeStepsLeft)
    OBVIOUS
  <2>1. ~EncoderCall
    BY DEF EncoderCall, EncodeBadSource, EncodeSystematic, BeginEncode
  <2>2. QED
    BY <2>1, EncodeDescends, NearerPair DEF EncoderNext
<1>2. EncoderInv => Typed
  BY EncodeStepsLeftType
<1> HIDE DEF Typed
<1>3. QED
  BY <1>1, <1>2, EncoderInvariance, PTL DEF EncoderSpec, EncodeCountsDown

-----------------------------------------------------------------------------
(***************************************************************************)
(* The packets passed to one call are a sequence of coded packets.         *)
(***************************************************************************)
LEMMA InputsType ==
  ASSUME NEW ins \in InputsFrom(CodedPackets)
  PROVE  /\ Len(ins) \in 1..MaxInputs
         /\ DOMAIN ins = 1..Len(ins)
         /\ \A m \in 1..Len(ins) :
              /\ ins[m].coefficients \in Vector
              /\ ins[m].payload \in Payload
              /\ ins[m].payload = Code(ins[m].coefficients)
<1>1. PICK n \in 1..MaxInputs : ins \in [1..n -> CodedPackets]
  BY DEF InputsFrom
<1>2. n \in Nat /\ ins \in Seq(CodedPackets) /\ Len(ins) = n /\ DOMAIN ins = 1..n
  BY <1>1, RecoderAssumption
<1>3. \A q \in CodedPackets : /\ q.coefficients \in Vector
                               /\ q.payload \in Payload
                               /\ q.payload = Code(q.coefficients)
  BY CodeAssumption DEF CodedPackets, PacketOf
<1>4. QED
  BY <1>1, <1>2, <1>3

LEMMA RecodeReturnsInv ==
  ASSUME NEW c \in Vector, NEW p \in Payload, NEW v,
         RecodeReturns(c, p, v),
         \/ v \in {"InvalidParameters", "PacketSizeMismatch"}
         \/ v = "packet" /\ p = Code(c)
  PROVE  RecoderInv'
<1>1. Len(<<>>) = 0 /\ NoWeights \in [1..0 -> Elem]
  BY DEF NoWeights
<1>2. QED
  BY <1>1, RecoderAssumption
  DEF RecodeReturns, RecoderInv, RecoderTypeOK, RecodedIsCode

(***************************************************************************)
(* One more packet is added to the coefficients: the trail grows by one.   *)
(***************************************************************************)
LEMMA AddCoefficientsInv ==
  ASSUME RecoderInv, AddCoefficients
  PROVE  RecoderInv'
<1>0. PICK i \in Nat : i = rec_i
  BY DEF RecoderInv, RecoderTypeOK
<1>1. /\ i \in 1..Len(inputs) /\ Len(inputs) \in Nat
      /\ inputs \in InputsFrom(CodedPackets)
      /\ weights[i] \in Elem
      /\ inputs[i].coefficients \in Vector
      /\ out_coeffs \in Vector
  <2>1. inputs \in InputsFrom(CodedPackets)
    BY DEF AddCoefficients, RecoderInv, RecoderTypeOK
  <2>2. QED
    BY <1>0, <2>1, InputsType, RecoderAssumption DEF AddCoefficients, RecoderInv, RecoderTypeOK
<1>2. out_coeffs' \in Vector
  BY <1>0, <1>1, AxpyFromType DEF AddCoefficients, Axpy
<1>3. PICK t \in [0..(i - 1) -> Vector] : SumTrail(t, i - 1)
  BY <1>0 DEF AddCoefficients, RecoderInv
<1>4. PICK u \in [0..i -> Vector] :
        u = [m \in 0..i |-> IF m = i THEN out_coeffs' ELSE t[m]]
  <2>1. [m \in 0..i |-> IF m = i THEN out_coeffs' ELSE t[m]] \in [0..i -> Vector]
    BY <1>1, <1>2, <1>3
  <2>2. QED
    BY <2>1
<1>5. SumTrail(u, i)'
  <2>1. u[0] = ZeroVector /\ u[i] = out_coeffs'
    BY <1>1, <1>3, <1>4 DEF SumTrail
  <2>2. ASSUME NEW m \in 1..i
        PROVE  u[m] = Axpy(weights[m], inputs[m].coefficients, u[m - 1])
    <3>1. CASE m = i
      BY <1>0, <1>1, <1>3, <1>4, <3>1 DEF SumTrail, AddCoefficients
    <3>2. CASE m # i
      BY <1>1, <1>3, <1>4, <3>2 DEF SumTrail
    <3>3. QED
      BY <3>1, <3>2
  <2>3. weights' = weights /\ inputs' = inputs
    BY DEF AddCoefficients
  <2>4. QED
    BY <2>1, <2>2, <2>3 DEF SumTrail
<1>6. rec_i' - 1 = i
  BY <1>0 DEF AddCoefficients
<1>7. \E w \in [0..(rec_i' - 1) -> Vector] : SumTrail(w, rec_i - 1)'
  BY <1>4, <1>5, <1>6 DEF SumTrail
<1>8. QED
  BY <1>0, <1>1, <1>2, <1>7 DEF AddCoefficients, RecoderInv, RecoderTypeOK, RecodedIsCode

(***************************************************************************)
(* The second pass adds the same weights in the same order, so it follows  *)
(* the trail of the first.                                                 *)
(***************************************************************************)
LEMMA AddPayloadInv ==
  ASSUME RecoderInv, AddPayload
  PROVE  RecoderInv'
<1> DEFINE i == rec_i
           n == Len(inputs)
<1>1. /\ i \in 1..n /\ n \in Nat
      /\ inputs \in InputsFrom(CodedPackets)
      /\ weights[i] \in Elem
      /\ inputs[i].coefficients \in Vector
      /\ inputs[i].payload = Code(inputs[i].coefficients)
  <2>1. inputs \in InputsFrom(CodedPackets)
    BY DEF AddPayload, RecoderInv, RecoderTypeOK
  <2>2. QED
    BY <2>1, InputsType, RecoderAssumption DEF AddPayload, RecoderInv, RecoderTypeOK
<1>2. PICK t \in [0..n -> Vector] : SumTrail(t, n) /\ out_payload = Code(t[i - 1])
  BY DEF AddPayload, RecoderInv
<1>3. t[i - 1] \in Vector /\ t[i] \in Vector
  BY <1>1, <1>2
<1>4. t[i] = Axpy(weights[i], inputs[i].coefficients, t[i - 1])
  BY <1>1, <1>2 DEF SumTrail
<1>5. out_payload' = Code(t[i])
  BY <1>1, <1>2, <1>3, <1>4, CodeAssumption DEF AddPayload
<1>6. out_payload' \in Payload
  BY <1>3, <1>5, CodeAssumption
<1>7. SumTrail(t, n)' /\ rec_i' - 1 = i
  BY <1>1, <1>2 DEF SumTrail, AddPayload
<1>8. \E w \in [0..Len(inputs') -> Vector] :
        SumTrail(w, Len(inputs))' /\ out_payload' = Code(w[rec_i' - 1])
  <2>1. inputs' = inputs
    BY DEF AddPayload
  <2>2. QED
    BY <1>2, <1>5, <1>7, <2>1
<1>9. QED
  BY <1>1, <1>6, <1>8 DEF AddPayload, RecoderInv, RecoderTypeOK, RecodedIsCode

(***************************************************************************)
(* Every step of the recoder keeps its invariant, as long as it is given   *)
(* coded packets.                                                          *)
(***************************************************************************)
LEMMA RecoderStepInv ==
  ASSUME RecoderInv, [RecoderNext]_recoderVars
  PROVE  RecoderInv'
<1>1. CASE UNCHANGED recoderVars
  BY <1>1 DEF recoderVars, RecoderInv, RecoderTypeOK, RecodedIsCode, SumTrail
<1>2. CASE RecodeNothing
  BY <1>2, RecodeReturnsInv, ZeroTypes DEF RecodeNothing
<1>3. ASSUME NEW shapes, RecodeMismatch(shapes)
      PROVE  RecoderInv'
  BY <1>3, RecodeReturnsInv, ZeroTypes DEF RecodeMismatch
<1>4. ASSUME NEW ins \in InputsFrom(CodedPackets), NEW w \in [DOMAIN ins -> Elem],
             BeginRecode(ins, w)
      PROVE  RecoderInv'
  <2>1. Len(ins) \in 1..MaxInputs /\ DOMAIN ins = 1..Len(ins)
    BY InputsType
  <2>2. rec_i = 1
    BY <1>4 DEF BeginRecode, RecoderInv, RecoderTypeOK
  <2>3. QED
    BY <1>4, <2>1, <2>2, ZeroTypes, RecoderAssumption
    DEF BeginRecode, RecoderInv, RecoderTypeOK, RecodedIsCode
<1>5. ASSUME NEW w \in [DOMAIN inputs -> Elem], RedrawWeights(w)
      PROVE  RecoderInv'
  <2>1. DOMAIN inputs = 1..Len(inputs)
    BY <1>5, InputsType DEF RedrawWeights, RecoderInv, RecoderTypeOK
  <2>2. QED
    BY <1>5, <2>1, RecoderAssumption
    DEF RedrawWeights, RecoderInv, RecoderTypeOK, RecodedIsCode
<1>6. CASE GiveUpWeights \/ AcceptWeights
  <2>1. /\ out_coeffs = ZeroVector /\ rec_i = 1 /\ Len(inputs) \in Nat \ {0}
        /\ weights \in [1..Len(inputs) -> Elem]
    <3>1. inputs \in InputsFrom(CodedPackets)
      BY <1>6 DEF GiveUpWeights, AcceptWeights, RecoderInv, RecoderTypeOK
    <3>2. QED
      BY <1>6, <3>1, InputsType, RecoderAssumption
      DEF GiveUpWeights, AcceptWeights, RecoderInv, RecoderTypeOK
  <2>2. weights' \in [1..Len(inputs) -> Elem]
    BY <1>6, <2>1, FieldAssumption DEF GiveUpWeights, AcceptWeights
  <2> DEFINE t == [m \in 0..0 |-> ZeroVector]
  <2>3. t \in [0..0 -> Vector] /\ SumTrail(t, 0)'
    BY <1>6, <2>1, ZeroTypes DEF SumTrail, GiveUpWeights, AcceptWeights
  <2>4. rec_i' - 1 = 0
    BY <1>6, <2>1 DEF GiveUpWeights, AcceptWeights
  <2>5. \E w \in [0..(rec_i' - 1) -> Vector] : SumTrail(w, rec_i - 1)'
    BY <2>3, <2>4
  <2>6. QED
    BY <1>6, <2>1, <2>2, <2>5
    DEF GiveUpWeights, AcceptWeights, RecoderInv, RecoderTypeOK, RecodedIsCode
<1>7. CASE AddCoefficients
  BY <1>7, AddCoefficientsInv
<1>8. CASE NextPass
  <2>1. Len(inputs) \in Nat \ {0} /\ rec_i = Len(inputs) + 1
    <3>1. inputs \in InputsFrom(CodedPackets)
      BY <1>8 DEF NextPass, RecoderInv, RecoderTypeOK
    <3>2. QED
      BY <1>8, <3>1, InputsType, RecoderAssumption DEF NextPass
  <2>2. PICK t \in [0..Len(inputs) -> Vector] : SumTrail(t, Len(inputs))
    BY <1>8, <2>1 DEF NextPass, RecoderInv
  <2>3. SumTrail(t, Len(inputs))' /\ out_payload' = Code(t[rec_i' - 1])
    BY <1>8, <2>2, CodeOfZero DEF NextPass, RecoderInv, SumTrail
  <2>4. \E w \in [0..Len(inputs') -> Vector] :
          SumTrail(w, Len(inputs))' /\ out_payload' = Code(w[rec_i' - 1])
    <3>1. inputs' = inputs
      BY <1>8 DEF NextPass
    <3>2. QED
      BY <2>2, <2>3, <3>1
  <2>5. QED
    BY <1>8, <2>1, <2>4 DEF NextPass, RecoderInv, RecoderTypeOK, RecodedIsCode
<1>9. CASE AddPayload
  BY <1>9, AddPayloadInv
<1>10. CASE FinishRecode
  <2>1. out_coeffs \in Vector /\ out_payload \in Payload
    BY DEF RecoderInv, RecoderTypeOK
  <2>2. out_payload = Code(out_coeffs)
    <3>1. Len(inputs) \in Nat
      BY <1>10, InputsType, RecoderAssumption DEF FinishRecode, RecoderInv, RecoderTypeOK
    <3>2. QED
      BY <1>10, <3>1 DEF FinishRecode, RecoderInv, SumTrail
  <2>3. QED
    BY <1>10, <2>1, <2>2, RecodeReturnsInv DEF FinishRecode
<1>11. QED
  BY <1>1, <1>2, <1>3, <1>4, <1>5, <1>6, <1>7, <1>8, <1>9, <1>10
  DEF RecoderNext, RecoderCall, RecoderStep

LEMMA RecoderInitInv == RecoderInit => RecoderInv
BY ZeroTypes, RecoderAssumption
DEF RecoderInit, RecoderInv, RecoderTypeOK, RecodedIsCode, NoWeights

THEOREM RecoderInvariance == RecoderSpec => []RecoderInv
BY RecoderInitInv, RecoderStepInv, PTL DEF RecoderSpec

(***************************************************************************)
(* For all draws and every choice of coded packets a relay makes,          *)
(* the packets of recode have a payload that is the code of their          *)
(* coefficients.                                                           *)
(***************************************************************************)
THEOREM RecodedPacketsAreCodes == RecoderSpec => []RecodedIsCode
<1>1. RecoderInv => RecodedIsCode
  BY DEF RecoderInv
<1>2. QED
  BY <1>1, RecoderInvariance, PTL

LEMMA InputsLength == RecoderInv => Len(inputs) \in Nat
<1> SUFFICES ASSUME RecoderInv
             PROVE  Len(inputs) \in Nat
  OBVIOUS
<1>1. inputs \in InputsFrom(CodedPackets) \/ inputs = <<>>
  BY DEF RecoderInv, RecoderTypeOK
<1>2. QED
  BY <1>1, InputsType, RecoderAssumption

LEMMA RecodeStepsLeftType == RecoderInv => RecodeStepsLeft \in Countdowns(2)
<1> SUFFICES ASSUME RecoderInv
             PROVE  RecodeStepsLeft \in Countdowns(2)
  OBVIOUS
<1>1. Len(inputs) \in Nat
  BY InputsLength
<1>2. /\ rec_pc \in {"idle", "draw", "coefficients", "payload"}
      /\ RecMaxRetries - rec_retries \in Nat /\ Len(inputs) + 1 - rec_i \in Nat
  BY <1>1, RecoderAssumption DEF RecoderInv, RecoderTypeOK
<1>3. QED
  BY <1>2, PairType DEF RecodeStepsLeft

LEMMA RecodeDescends ==
  ASSUME RecoderInv, RecoderStep
  PROVE  LET m == RecodeStepsLeft'
             n == RecodeStepsLeft
         IN  m[1] < n[1] \/ (m[1] = n[1] /\ m[2] < n[2])
<1> DEFINE left == Len(inputs) + 1 - rec_i
<1>0. /\ RecMaxRetries \in Nat /\ rec_retries \in Nat
      /\ Len(inputs) \in Nat /\ rec_i \in Nat
  BY InputsLength, RecoderAssumption DEF RecoderInv, RecoderTypeOK
<1>1. ASSUME NEW w \in [DOMAIN inputs -> Elem], RedrawWeights(w)
      PROVE  /\ RecodeStepsLeft = <<3, RecMaxRetries - rec_retries>>
             /\ RecodeStepsLeft' = <<3, RecMaxRetries - (rec_retries + 1)>>
  BY <1>1 DEF RedrawWeights, RecodeStepsLeft
<1>2. CASE GiveUpWeights \/ AcceptWeights
  <2>1. RecodeStepsLeft = <<3, RecMaxRetries - rec_retries>> /\ RecodeStepsLeft' = <<2, left'>>
    BY <1>2 DEF GiveUpWeights, AcceptWeights, RecodeStepsLeft
  <2>2. QED
    BY <2>1
<1>3. CASE AddCoefficients
  <2>1. RecodeStepsLeft = <<2, left>> /\ RecodeStepsLeft' = <<2, Len(inputs) + 1 - (rec_i + 1)>>
    BY <1>3 DEF AddCoefficients, RecodeStepsLeft
  <2>2. QED
    BY <1>0, <2>1
<1>4. CASE NextPass
  <2>1. RecodeStepsLeft = <<2, left>> /\ RecodeStepsLeft' = <<1, left'>>
    BY <1>4 DEF NextPass, RecodeStepsLeft
  <2>2. QED
    BY <2>1
<1>5. CASE AddPayload
  <2>1. RecodeStepsLeft = <<1, left>> /\ RecodeStepsLeft' = <<1, Len(inputs) + 1 - (rec_i + 1)>>
    BY <1>5 DEF AddPayload, RecodeStepsLeft
  <2>2. QED
    BY <1>0, <2>1
<1>6. CASE FinishRecode
  <2>1. RecodeStepsLeft = <<1, left>> /\ RecodeStepsLeft' = <<0, 0>>
    BY <1>6 DEF FinishRecode, RecodeReturns, RecodeStepsLeft
  <2>2. QED
    BY <2>1
<1>7. QED
  BY <1>0, <1>1, <1>2, <1>3, <1>4, <1>5, <1>6 DEF RecoderStep

(***************************************************************************)
(* Every step of recode descends, in the retry loop and in both passes.    *)
(***************************************************************************)
THEOREM RecoderCountsDown == RecoderSpec => RecodeCountsDown
<1> DEFINE Typed == RecodeStepsLeft \in Countdowns(2)
<1>1. RecoderInv /\ Typed /\ Typed' /\ [RecoderNext]_recoderVars
        => [rec_pc # "idle" => Nearer(2, RecodeStepsLeft', RecodeStepsLeft)]_recoderVars
  <2> SUFFICES ASSUME RecoderInv, Typed, Typed', RecoderNext, rec_pc # "idle"
               PROVE  Nearer(2, RecodeStepsLeft', RecodeStepsLeft)
    OBVIOUS
  <2>1. ~RecoderCall(CodedPackets)
    BY DEF RecoderCall, RecodeNothing, RecodeMismatch, BeginRecode
  <2>2. QED
    BY <2>1, RecodeDescends, NearerPair DEF RecoderNext
<1>2. RecoderInv => Typed
  BY RecodeStepsLeftType
<1> HIDE DEF Typed
<1>3. QED
  BY <1>1, <1>2, RecoderInvariance, PTL DEF RecoderSpec, RecodeCountsDown

-----------------------------------------------------------------------------
LEMMA InputsMonotone == \A S, T : S \subseteq T => InputsFrom(S) \subseteq InputsFrom(T)
BY DEF InputsFrom

(***************************************************************************)
(* A step of the pipeline keeps all packets coded, and is a step of the    *)
(* decoder's specification or leaves the decoder alone.                    *)
(***************************************************************************)
LEMMA PipelineStep ==
  ASSUME PipelineInv, [PipelineNext]_pipelineVars
  PROVE  PipelineInv' /\ [Next]_vars
<1> USE DEF PipelineInv
<1>1. CASE UNCHANGED pipelineVars
  <2>1. UNCHANGED vars /\ UNCHANGED encoderVars /\ UNCHANGED recoderVars /\ net' = net
    BY <1>1 DEF pipelineVars
  <2>2. EncoderInv' /\ RecoderInv'
    BY <2>1, EncoderStepInv, RecoderStepInv
  <2>3. QED
    BY <2>1, <2>2 DEF NetworkIsCoded
<1>2. CASE EncoderMoves
  <2>1. EncoderInv'
    BY <1>2, EncoderStepInv DEF EncoderMoves
  <2>2. RecoderInv'
    BY <1>2, RecoderStepInv DEF EncoderMoves
  <2>3. QED
    BY <1>2, <2>1, <2>2 DEF EncoderMoves, NetworkIsCoded
<1>3. CASE RecoderMoves
  <2>1. RecoderNext
    BY <1>3, InputsMonotone DEF RecoderMoves, RecoderNext, RecoderCall, NetworkIsCoded
  <2>2. RecoderInv'
    BY <2>1, RecoderStepInv
  <2>3. EncoderInv'
    BY <1>3, EncoderStepInv DEF RecoderMoves
  <2>4. QED
    BY <1>3, <2>2, <2>3 DEF RecoderMoves, NetworkIsCoded
<1>4. CASE SendEncoded
  <2>1. PacketOf(coeffs, enc_payload) \in CodedPackets
    BY <1>4 DEF SendEncoded, EncoderInv, EncoderTypeOK, EncodedIsCode, CodedPackets
  <2>2. EncoderInv' /\ RecoderInv'
    BY <1>4, EncoderStepInv, RecoderStepInv DEF SendEncoded
  <2>3. QED
    BY <1>4, <2>1, <2>2 DEF SendEncoded, NetworkIsCoded
<1>5. CASE SendRecoded
  <2>1. PacketOf(out_coeffs, out_payload) \in CodedPackets
    BY <1>5 DEF SendRecoded, RecoderInv, RecoderTypeOK, RecodedIsCode, CodedPackets
  <2>2. EncoderInv' /\ RecoderInv'
    BY <1>5, EncoderStepInv, RecoderStepInv DEF SendRecoded
  <2>3. QED
    BY <1>5, <2>1, <2>2 DEF SendRecoded, NetworkIsCoded
<1>6. CASE Deliver
  <2>1. PICK p \in net : ReceivePacket(p.coefficients, p.payload)
    BY <1>6 DEF Deliver
  <2>2. PICK c \in Vector : p = PacketOf(c, Code(c))
    BY DEF NetworkIsCoded, CodedPackets
  <2>3. p.coefficients = c /\ p.payload = Code(c)
    BY <2>2 DEF PacketOf
  <2>4. Receive(c)
    BY <2>1, <2>3 DEF Receive
  <2>5. EncoderInv' /\ RecoderInv'
    BY <1>6, EncoderStepInv, RecoderStepInv DEF Deliver
  <2>6. QED
    BY <1>6, <2>4, <2>5 DEF Deliver, NetworkIsCoded, Next, Call
<1>7. CASE DecoderMoves
  <2>1. Next
    BY <1>7 DEF DecoderMoves, Next, Call
  <2>2. EncoderInv' /\ RecoderInv'
    BY <1>7, EncoderStepInv, RecoderStepInv DEF DecoderMoves
  <2>3. QED
    BY <1>7, <2>1, <2>2 DEF DecoderMoves, NetworkIsCoded
<1>8. CASE Lose
  <2>1. EncoderInv' /\ RecoderInv'
    BY <1>8, EncoderStepInv, RecoderStepInv DEF Lose
  <2>2. QED
    BY <1>8, <2>1 DEF Lose, NetworkIsCoded
<1>9. QED
  BY <1>1, <1>2, <1>3, <1>4, <1>5, <1>6, <1>7, <1>8 DEF PipelineNext

LEMMA PipelineStart == PipelineInit => PipelineInv /\ Init
BY EncoderInitInv, RecoderInitInv DEF PipelineInit, PipelineInv, NetworkIsCoded

(***************************************************************************)
(* Every packet in flight is coded, whatever the generators draw, through  *)
(* any number of relays, and with every component stepping at will.        *)
(***************************************************************************)
THEOREM NetworkStaysCoded == PipelineSpec => []NetworkIsCoded
<1>1. PipelineInv => NetworkIsCoded
  BY DEF PipelineInv
<1>2. QED
  BY <1>1, PipelineStart, PipelineStep, PTL DEF PipelineSpec

(***************************************************************************)
(* The pipeline implements the decoder's specification, in which payloads  *)
(* are coded by assumption: encoder, recoder and network discharge it.     *)
(***************************************************************************)
THEOREM PipelineServesDecoder == PipelineSpec => DecoderIsServed
<1>1. PipelineSpec => Init /\ [][Next]_vars
  BY PipelineStart, PipelineStep, PTL DEF PipelineSpec
<1>2. QED
  BY <1>1 DEF DecoderIsServed, Spec

(***************************************************************************)
(* End to end: whatever was lost, repeated, reordered or recoded on the    *)
(* way, the symbols decode returns are the source symbols.                 *)
(***************************************************************************)
THEOREM PipelineDelivers == PipelineSpec => []DecodedIsSource
BY PipelineServesDecoder, DecodeReturnsSource DEF DecoderIsServed

-----------------------------------------------------------------------------
(***************************************************************************)
(* Both ends compared. Every packet a component holds combines what the    *)
(* encoder has sent; a sum of such packets is one, because sent is a       *)
(* space, and sending only makes it larger.                                *)
(***************************************************************************)
SentInv ==
  /\ Space(sent)
  /\ NothingInvented
  /\ \A n \in 1..Len(inputs) : inputs[n].coefficients \in sent
  /\ out_coeffs \in sent
  /\ packet \in sent

PromisedInv ==
  /\ PipelineInv /\ IInv /\ SpanInv
  /\ SentInv
  /\ symbols # None => span = Vector

LEMMA PromisedStart == PromisedInit => PromisedInv
<1> SUFFICES ASSUME PromisedInit
             PROVE  PromisedInv
  OBVIOUS
<1>1. PipelineInv /\ Init /\ HInit
  BY PipelineStart DEF PromisedInit, HInit
<1>2. IInv /\ SpanInv /\ Space(span)
  BY <1>1, InitIInv, InitSpanInv DEF SpanInv, RowsRepresentSpan
<1>3. sent = span /\ span = {ZeroVector} /\ net = {} /\ inputs = <<>> /\ out_coeffs = ZeroVector
      /\ packet = ZeroVector /\ symbols = None
  BY DEF PromisedInit, PipelineInit, RecoderInit, Init
<1>4. QED
  BY <1>1, <1>2, <1>3 DEF PromisedInv, SentInv, NothingInvented

(***************************************************************************)
(* A step of the pipeline is one of the decoder with its history.          *)
(***************************************************************************)
LEMMA PromisedIsHistory ==
  ASSUME PromisedInv, [PromisedNext]_promiseVars
  PROVE  /\ [PipelineNext]_pipelineVars
         /\ [Next]_vars
         /\ [HNext]_<<vars, span>>
<1>1. [PipelineNext]_pipelineVars
  BY DEF PromisedNext, PipelineNext, promiseVars
<1>2. [Next]_vars
  BY <1>1, PipelineStep DEF PromisedInv
<1>3. ASSUME History
      PROVE  [HNext]_<<vars, span>>
  <2>1. CASE Next
    BY <1>3, <2>1 DEF HNext, HStep, Next
  <2>2. CASE UNCHANGED vars
    <3>1. span' = span
      BY <1>3, <2>2 DEF History, Answered, vars
    <3>2. QED
      BY <2>2, <3>1
  <2>3. QED
    BY <1>2, <2>1, <2>2
<1>4. ASSUME SendEncoded, UNCHANGED span
      PROVE  UNCHANGED <<vars, span>>
  BY <1>4 DEF SendEncoded
<1>5. ASSUME UNCHANGED promiseVars
      PROVE  UNCHANGED <<vars, span>>
  BY <1>5 DEF promiseVars, pipelineVars
<1>6. [HNext]_<<vars, span>>
  BY <1>3, <1>4, <1>5 DEF PromisedNext
<1>7. QED
  BY <1>1, <1>2, <1>6

(* The decoder's part of a step: what it holds comes from the network.     *)
LEMMA PacketFromNet ==
  ASSUME PromisedInv, UNCHANGED sent,
         \/ EncoderMoves \/ RecoderMoves \/ SendRecoded \/ Deliver \/ DecoderMoves \/ Lose
  PROVE  packet' \in sent
<1>0. ZeroVector \in sent /\ packet \in sent
  BY DEF PromisedInv, SentInv, Space
<1>1. CASE EncoderMoves \/ RecoderMoves \/ SendRecoded \/ Lose
  BY <1>0, <1>1 DEF EncoderMoves, RecoderMoves, SendRecoded, Lose, vars
<1>2. CASE Deliver
  <2>1. PICK p \in net : packet' = p.coefficients
    BY <1>2 DEF Deliver, ReceivePacket
  <2>2. QED
    BY <2>1 DEF PromisedInv, SentInv, NothingInvented
<1>3. CASE DecoderMoves
  <2>1. packet' = packet \/ packet' = ZeroVector
    BY <1>3 DEF DecoderMoves, Step, ReceiveWhenComplete, BeginReduce, Reduce, Dependent,
                BeginPayload, ReducePayload, Normalise, Insert, BackSubstitute, NextPivot,
                FinishDecode, DecodeIncomplete, DecodeAgain, BeginDecode, ReceiveMismatch, Return
  <2>2. QED
    BY <1>0, <2>1
<1>4. QED
  BY <1>1, <1>2, <1>3

(* The relay's part: a sum of packets it was given, or none.               *)
LEMMA RecodedFromNet ==
  ASSUME PromisedInv, RecoderMoves
  PROVE  /\ \A n \in 1..Len(inputs') : inputs'[n].coefficients \in sent
         /\ out_coeffs' \in sent
<1>0. /\ RecoderInv /\ Space(sent) /\ ZeroVector \in sent /\ out_coeffs \in sent
      /\ net \subseteq CodedPackets
      /\ \A p \in net : p.coefficients \in sent
      /\ \A n \in 1..Len(inputs) : inputs[n].coefficients \in sent
  BY DEF PromisedInv, SentInv, Space, NothingInvented, PipelineInv, NetworkIsCoded
<1>1. ASSUME NEW c, NEW p, NEW v, RecodeReturns(c, p, v), c \in sent
      PROVE  /\ \A n \in 1..Len(inputs') : inputs'[n].coefficients \in sent
             /\ out_coeffs' \in sent
  <2>1. Len(inputs') = 0 /\ out_coeffs' = c
    BY <1>1 DEF RecodeReturns
  <2>2. QED
    BY <1>1, <2>1
<1>2. ASSUME NEW ins \in InputsFrom(net), NEW w, BeginRecode(ins, w)
      PROVE  /\ \A n \in 1..Len(inputs') : inputs'[n].coefficients \in sent
             /\ out_coeffs' \in sent
  <2>1. inputs' = ins /\ out_coeffs' = ZeroVector
    BY <1>2 DEF BeginRecode
  <2>2. PICK n \in 1..MaxInputs : ins \in [1..n -> net]
    BY <1>2 DEF InputsFrom
  <2>3. n \in Nat /\ Len(ins) = n
    BY <2>2, RecoderAssumption
  <2>4. QED
    BY <1>0, <2>1, <2>2, <2>3
<1>3. CASE AddCoefficients
  <2>1. inputs' = inputs /\ out_coeffs' = Axpy(weights[rec_i], inputs[rec_i].coefficients, out_coeffs)
        /\ rec_i <= Len(inputs) /\ inputs # <<>>
    BY <1>0, <1>3 DEF AddCoefficients, RecoderInv
  <2>2. /\ Len(inputs) \in Nat /\ rec_i \in 1..Len(inputs) /\ weights[rec_i] \in Elem
    <3>1. inputs \in InputsFrom(CodedPackets)
      BY <1>0, <2>1 DEF RecoderInv, RecoderTypeOK
    <3>2. Len(inputs) \in Nat
      BY <3>1, InputsType, RecoderAssumption
    <3>3. QED
      BY <1>0, <2>1, <3>2 DEF RecoderInv, RecoderTypeOK
  <2>3. QED
    BY <1>0, <2>1, <2>2 DEF Space
<1>4. CASE UNCHANGED <<inputs, out_coeffs>>
  BY <1>0, <1>4
<1>5. CASE RecoderCall(net)
  BY <1>0, <1>1, <1>2, <1>5 DEF RecoderCall, RecodeNothing, RecodeMismatch
<1>6. CASE RecoderStep
  <2>1. CASE FinishRecode
    BY <1>0, <1>1, <2>1 DEF FinishRecode
  <2>2. CASE ~FinishRecode /\ ~AddCoefficients
    BY <1>4, <1>6, <2>2 DEF RecoderStep, RedrawWeights, GiveUpWeights, AcceptWeights,
                            NextPass, AddPayload
  <2>3. QED
    BY <1>3, <2>1, <2>2
<1>7. QED
  BY <1>5, <1>6 DEF RecoderMoves

LEMMA SentInvStep ==
  ASSUME PromisedInv, [PromisedNext]_promiseVars
  PROVE  SentInv'
<1>0. /\ Space(sent) /\ span \subseteq sent
      /\ \A p \in net : p.coefficients \in sent
      /\ \A n \in 1..Len(inputs) : inputs[n].coefficients \in sent
      /\ out_coeffs \in sent /\ packet \in sent
  BY DEF PromisedInv, SentInv, NothingInvented
<1>1. CASE SendEncoded /\ sent' = Promise!Extend(sent, coeffs) /\ UNCHANGED span
  <2>1. coeffs \in Vector
    BY DEF PromisedInv, PipelineInv, EncoderInv, EncoderTypeOK
  <2>2. /\ sent' = Extend(sent, coeffs)
        /\ net' = net \cup {PacketOf(coeffs, enc_payload)}
        /\ UNCHANGED <<span, inputs, out_coeffs, packet>>
    BY <1>1, SameNotions DEF SendEncoded, vars, recoderVars
  <2>3. Space(sent') /\ sent \subseteq sent' /\ coeffs \in sent'
    BY <1>0, <2>1, <2>2, ExtendIsSpace
  <2>4. PacketOf(coeffs, enc_payload).coefficients = coeffs
    BY DEF PacketOf
  <2>5. NothingInvented'
    BY <1>0, <2>2, <2>3, <2>4 DEF NothingInvented
  <2>6. QED
    BY <1>0, <2>2, <2>3, <2>5 DEF SentInv, Space
<1>2. ASSUME EncoderMoves \/ RecoderMoves \/ SendRecoded \/ Deliver \/ DecoderMoves \/ Lose,
             History, UNCHANGED sent
      PROVE  SentInv'
  <2>1. packet' \in sent
    BY <1>2, PacketFromNet
  <2>2. /\ \A n \in 1..Len(inputs') : inputs'[n].coefficients \in sent
        /\ out_coeffs' \in sent
    <3>1. CASE RecoderMoves
      BY <3>1, RecodedFromNet
    <3>2. CASE UNCHANGED recoderVars
      BY <1>0, <3>2 DEF recoderVars
    <3>3. QED
      BY <1>2, <3>1, <3>2 DEF EncoderMoves, SendRecoded, Deliver, DecoderMoves, Lose
  <2>3. \A p \in net' : p.coefficients \in sent
    <3>1. CASE SendRecoded
      <4>1. net' = net \cup {PacketOf(out_coeffs, out_payload)}
        BY <3>1 DEF SendRecoded
      <4>2. QED
        BY <1>0, <4>1 DEF PacketOf
    <3>2. CASE net' \subseteq net
      BY <1>0, <3>2
    <3>3. QED
      BY <1>2, <3>1, <3>2 DEF EncoderMoves, RecoderMoves, Deliver, DecoderMoves, Lose
  <2>4. span' \subseteq sent
    <3>1. CASE span' = span
      BY <1>0, <3>1
    <3>2. CASE span' = Promise!Extend(span, packet)
      <4>1. span' = Extend(span, packet)
        BY <3>2, SameNotions
      <4>2. QED
        BY <1>0, <4>1 DEF Extend, Space
    <3>3. QED
      BY <1>2, <3>1, <3>2 DEF History
  <2>5. NothingInvented'
    BY <1>2, <2>3, <2>4 DEF NothingInvented
  <2>6. QED
    BY <1>0, <1>2, <2>1, <2>2, <2>5 DEF SentInv, Space
<1>3. CASE UNCHANGED promiseVars
  BY <1>0, <1>3 DEF promiseVars, pipelineVars, vars, recoderVars, SentInv, NothingInvented, Space
<1>4. QED
  BY <1>1, <1>2, <1>3 DEF PromisedNext

LEMMA PromisedStep ==
  ASSUME PromisedInv, [PromisedNext]_promiseVars
  PROVE  PromisedInv' /\ [Promise!Next]_(Promise!specVars)
<1>1. /\ [PipelineNext]_pipelineVars /\ [Next]_vars /\ [HNext]_<<vars, span>>
  BY PromisedIsHistory
<1>2. PipelineInv'
  BY <1>1, PipelineStep DEF PromisedInv
<1>3. IInv'
  BY <1>1, StepIInv DEF PromisedInv
<1>4. SpanInv'
  BY <1>1, SpanInvStep DEF PromisedInv
<1>5. SentInv'
  BY SentInvStep
<1>6. [Promise!Next]_(Promise!specVars)
  BY <1>1, <1>3, StepImplements DEF PromisedInv
<1>7. (symbols # None => span = Vector)'
  <2>1. span = Vector => span' = Vector
    <3>1. CASE Promise!Innovative
      BY <3>1 DEF Promise!Innovative, PromisedInv, IInv, TypeOK
    <3>2. CASE UNCHANGED span
      BY <3>2
    <3>3. QED
      BY <1>6, <3>1, <3>2
      DEF Promise!Next, Promise!specVars, Promise!Receive, Promise!Refuse, Promise!Redundant,
          Promise!DecodeNothing, Promise!DecodeAll
  <2>2. symbols' = symbols \/ span' = Vector
    BY <1>6, SameNotions
    DEF Promise!Next, Promise!specVars, Promise!Receive, Promise!Refuse, Promise!Innovative,
        Promise!Redundant, Promise!DecodeNothing, Promise!DecodeAll
  <2>3. QED
    BY <2>1, <2>2 DEF PromisedInv, Vector, Cols
<1>8. QED
  BY <1>2, <1>3, <1>4, <1>5, <1>6, <1>7 DEF PromisedInv

LEMMA PromisedInvariance == PromisedSpec => []PromisedInv
BY PromisedStart, PromisedStep, PTL DEF PromisedSpec

(***************************************************************************)
(* Relays and network invent nothing: every packet in flight and all that  *)
(* the decoder has counted combine what the encoder has sent.              *)
(***************************************************************************)
THEOREM NothingIsInvented == PromisedSpec => []NothingInvented
<1>1. PromisedInv => NothingInvented
  BY DEF PromisedInv, SentInv
<1>2. QED
  BY <1>1, PromisedInvariance, PTL

(***************************************************************************)
(* Symbols come out of the decoder only when what has arrived spans        *)
(* everything, and that is part of what has been sent.                     *)
(***************************************************************************)
THEOREM DecodedHasBeenSent == PromisedSpec => []DecodedWasSent
<1>1. PromisedInv => DecodedWasSent
  BY DEF PromisedInv, SentInv, NothingInvented, Space, DecodedWasSent
<1>2. QED
  BY <1>1, PromisedInvariance, PTL

(***************************************************************************)
(* The pipeline implements DecoderSpec: encoders, relays and a network     *)
(* that loses, repeats and reorders keep, at its far end, the promise that *)
(* the decoder makes to a correct sender.                                  *)
(***************************************************************************)
THEOREM PipelineKeepsPromise == PromisedSpec => PromiseSafety
<1>1. PromisedInit => Promise!Init
  BY SameNotions DEF PromisedInit, PipelineInit, Init, Promise!Init
<1>2. QED
  BY <1>1, PromisedInvariance, PromisedStep, PTL DEF PromisedSpec, PromiseSafety

-----------------------------------------------------------------------------
LEMMA HighestBit ==
  ASSUME NEW n \in Nat, NEW S, S \subseteq 0..n, S # {}
  PROVE  \E m \in S : \A i \in S : i <= m
<1> DEFINE T == {i \in 0..n : n - i \in S}
<1>1. T \subseteq Nat /\ T # {}
  <2>1. PICK i \in S : TRUE
    OBVIOUS
  <2>2. n - i \in 0..n /\ n - (n - i) = i
    BY <2>1
  <2>3. n - i \in T
    BY <2>1, <2>2
  <2>4. T \subseteq Nat
    OBVIOUS
  <2> HIDE DEF T
  <2>5. QED
    BY <2>3, <2>4
<1>2. PICK m \in T : \A i \in T : m <= i
  BY <1>1, LeastElement
<1>3. ASSUME NEW i \in S
      PROVE  i <= n - m
  <2>1. n - i \in 0..n /\ n - (n - i) = i
    BY <1>3
  <2>2. n - i \in T
    BY <1>3, <2>1
  <2>3. m <= n - i /\ m \in 0..n
    BY <1>2, <2>2
  <2>4. QED
    BY <1>3, <2>3
<1>4. n - m \in S
  BY <1>2
<1>5. QED
  BY <1>3, <1>4

(***************************************************************************)
(* Shifting left moves the lowest bit, so the xor keeps it.                *)
(***************************************************************************)
LEMMA XorShlNonzero ==
  ASSUME NEW a \in SUBSET WordBits, a # {}, NEW n \in Nat \ {0}
  PROVE  Xor(a, Shl(a, n)) \in SUBSET WordBits /\ Xor(a, Shl(a, n)) # {}
<1>1. a \subseteq Nat
  BY WordAssumption DEF WordBits
<1>2. PICK m \in a : \A i \in a : m <= i
  BY <1>1, LeastElement
<1>3. m - n \notin a
  BY <1>1, <1>2
<1>4. m \in Xor(a, Shl(a, n))
  BY <1>3 DEF Xor, Shl
<1>5. QED
  BY <1>4 DEF Xor, Shl

(***************************************************************************)
(* Shifting right moves the highest bit, so the xor keeps it.              *)
(***************************************************************************)
LEMMA XorShrNonzero ==
  ASSUME NEW a \in SUBSET WordBits, a # {}, NEW n \in Nat \ {0}
  PROVE  Xor(a, Shr(a, n)) \in SUBSET WordBits /\ Xor(a, Shr(a, n)) # {}
<1>1. a \subseteq 0..(W - 1) /\ W - 1 \in Nat
  BY WordAssumption DEF WordBits
<1>2. PICK m \in a : \A i \in a : i <= m
  BY <1>1, HighestBit
<1>3. m + n \notin a
  BY <1>1, <1>2
<1>4. m \in Xor(a, Shr(a, n))
  BY <1>3 DEF Xor, Shr
<1>5. QED
  BY <1>4 DEF Xor, Shr

LEMMA ShiftedNonzero ==
  ASSUME NEW a \in SUBSET WordBits, a # {}
  PROVE  Shifted(a) \in SUBSET WordBits /\ Shifted(a) # {}
<1> DEFINE b == Xor(a, Shl(a, Left1))
           c == Xor(b, Shr(b, Right))
<1>1. b \in SUBSET WordBits /\ b # {}
  BY XorShlNonzero, WordAssumption
<1> HIDE DEF b
<1>2. c \in SUBSET WordBits /\ c # {}
  BY <1>1, XorShrNonzero, WordAssumption
<1> HIDE DEF c
<1>3. Xor(c, Shl(c, Left2)) \in SUBSET WordBits /\ Xor(c, Shl(c, Left2)) # {}
  BY <1>2, XorShlNonzero, WordAssumption
<1>4. QED
  BY <1>3 DEF Shifted, b, c

LEMMA SeededNonzero ==
  ASSUME NEW seed \in Seeds
  PROVE  Seeded(seed) \in SUBSET WordBits /\ Seeded(seed) # {}
BY WordAssumption DEF Seeded, PlusOne, WordBits

(***************************************************************************)
(* The state is never 0: new maps the one seed whose successor is 0 to the *)
(* golden ratio, and none of the three xorshifts of next_u8 can clear the  *)
(* last bit.                                                               *)
(***************************************************************************)
THEOREM NeverZero == RngSpec => []StateNeverZero
<1> DEFINE Inv == state \in SUBSET WordBits /\ state # {}
<1>1. RngInit => Inv
  BY SeededNonzero DEF RngInit
<1>2. Inv /\ [NextU8]_state => Inv'
  BY ShiftedNonzero DEF NextU8
<1>3. Inv => StateNeverZero
  BY DEF StateNeverZero
<1>4. QED
  BY <1>1, <1>2, <1>3, PTL DEF RngSpec

-----------------------------------------------------------------------------
LEMMA XorLaws ==
  ASSUME NEW a, NEW b, NEW c
  PROVE  /\ Xor(a, {}) = a
         /\ Xor(a, a) = {}
         /\ Xor(a, b) = Xor(b, a)
         /\ Xor(Xor(a, c), Xor(b, c)) = Xor(a, b)
         /\ Xor(Xor(a, c), b) = Xor(Xor(a, b), c)
         /\ Xor(a, Xor(b, c)) = Xor(Xor(a, b), c)
BY DEF Xor

LEMMA XorSwap ==
  ASSUME NEW a, NEW b, NEW c, NEW d
  PROVE  Xor(Xor(a, b), Xor(c, d)) = Xor(Xor(a, c), Xor(b, d))
BY DEF Xor

LEMMA ShiftsAreLinear ==
  ASSUME NEW a \in SUBSET WordBits, NEW b \in SUBSET WordBits, NEW n \in Nat
  PROVE  /\ Xor(a, b) \in SUBSET WordBits
         /\ Shl(a, n) \in SUBSET WordBits
         /\ Shr(a, n) \in SUBSET WordBits
         /\ Shl(Xor(a, b), n) = Xor(Shl(a, n), Shl(b, n))
         /\ Shr(Xor(a, b), n) = Xor(Shr(a, n), Shr(b, n))
BY DEF Xor, Shl, Shr

(***************************************************************************)
(* Each line of next_u8 is linear over xor, and so is next_u8.             *)
(***************************************************************************)
LEMMA XorShlLinear ==
  ASSUME NEW a \in SUBSET WordBits, NEW b \in SUBSET WordBits, NEW n \in Nat
  PROVE  Xor(Xor(a, b), Shl(Xor(a, b), n)) = Xor(Xor(a, Shl(a, n)), Xor(b, Shl(b, n)))
<1>1. Shl(Xor(a, b), n) = Xor(Shl(a, n), Shl(b, n))
  BY ShiftsAreLinear
<1>2. Xor(Xor(a, b), Xor(Shl(a, n), Shl(b, n))) = Xor(Xor(a, Shl(a, n)), Xor(b, Shl(b, n)))
  BY XorSwap
<1>3. QED
  BY <1>1, <1>2

LEMMA XorShrLinear ==
  ASSUME NEW a \in SUBSET WordBits, NEW b \in SUBSET WordBits, NEW n \in Nat
  PROVE  Xor(Xor(a, b), Shr(Xor(a, b), n)) = Xor(Xor(a, Shr(a, n)), Xor(b, Shr(b, n)))
<1>1. Shr(Xor(a, b), n) = Xor(Shr(a, n), Shr(b, n))
  BY ShiftsAreLinear
<1>2. Xor(Xor(a, b), Xor(Shr(a, n), Shr(b, n))) = Xor(Xor(a, Shr(a, n)), Xor(b, Shr(b, n)))
  BY XorSwap
<1>3. QED
  BY <1>1, <1>2

LEMMA ShiftedLinear ==
  ASSUME NEW a \in SUBSET WordBits, NEW b \in SUBSET WordBits
  PROVE  /\ Shifted(a) \in SUBSET WordBits
         /\ Shifted(Xor(a, b)) = Xor(Shifted(a), Shifted(b))
<1> DEFINE L(x) == Xor(x, Shl(x, Left1))
           R(x) == Xor(x, Shr(x, Right))
           M(x) == Xor(x, Shl(x, Left2))
<1>1. ASSUME NEW x \in SUBSET WordBits, NEW y \in SUBSET WordBits
      PROVE  /\ L(x) \in SUBSET WordBits /\ R(x) \in SUBSET WordBits /\ M(x) \in SUBSET WordBits
             /\ L(Xor(x, y)) = Xor(L(x), L(y))
             /\ R(Xor(x, y)) = Xor(R(x), R(y))
             /\ M(Xor(x, y)) = Xor(M(x), M(y))
  <2>1. Left1 \in Nat /\ Right \in Nat /\ Left2 \in Nat
    BY WordAssumption
  <2>2. L(x) \in SUBSET WordBits /\ R(x) \in SUBSET WordBits /\ M(x) \in SUBSET WordBits
    BY <1>1, <2>1 DEF Xor, Shl, Shr
  <2>3. L(Xor(x, y)) = Xor(L(x), L(y)) /\ M(Xor(x, y)) = Xor(M(x), M(y))
    BY <1>1, <2>1, XorShlLinear
  <2>4. R(Xor(x, y)) = Xor(R(x), R(y))
    BY <1>1, <2>1, XorShrLinear
  <2>5. QED
    BY <2>2, <2>3, <2>4
<1>2. \A x : Shifted(x) = M(R(L(x)))
  BY DEF Shifted
<1> HIDE DEF L, R, M
<1>3. /\ L(a) \in SUBSET WordBits /\ L(b) \in SUBSET WordBits
      /\ L(Xor(a, b)) = Xor(L(a), L(b))
  BY <1>1
<1>4. /\ R(L(a)) \in SUBSET WordBits /\ R(L(b)) \in SUBSET WordBits
      /\ R(Xor(L(a), L(b))) = Xor(R(L(a)), R(L(b)))
  BY <1>1, <1>3
<1>5. /\ M(R(L(a))) \in SUBSET WordBits
      /\ M(Xor(R(L(a)), R(L(b)))) = Xor(M(R(L(a))), M(R(L(b))))
  BY <1>1, <1>4
<1>6. QED
  BY <1>2, <1>3, <1>4, <1>5

LEMMA ShiftedZero == Shifted({}) = {}
BY DEF Shifted, Xor, Shl, Shr

(***************************************************************************)
(* Sets of words closed under xor. What every such set has to contain that *)
(* contains the basis is the span of the basis.                            *)
(***************************************************************************)
XorClosed(C) ==
  /\ C \subseteq SUBSET WordBits
  /\ {} \in C
  /\ \A a, b \in C : Xor(a, b) \in C

Spanned(B, s) == \A C : XorClosed(C) /\ B \subseteq C => s \in C

LEMMA SpannedByNothing ==
  ASSUME NEW s, Spanned({}, s)
  PROVE  s = {}
<1>1. XorClosed({{}})
  BY XorLaws DEF XorClosed
<1>2. QED
  BY <1>1 DEF Spanned

(***************************************************************************)
(* The single bits span all words: a word is built one bit at a time.      *)
(***************************************************************************)
LEMMA BitsSpan ==
  ASSUME NEW s \in SUBSET WordBits
  PROVE  Spanned({{i} : i \in WordBits}, s)
<1> SUFFICES ASSUME NEW C, XorClosed(C), {{i} : i \in WordBits} \subseteq C
             PROVE  s \in C
  BY DEF Spanned
<1> DEFINE T == {n \in Nat : \A t \in SUBSET WordBits : (\A i \in t : i < n) => t \in C}
<1>1. 0 \in T
  <2>1. \A t \in SUBSET WordBits : (\A i \in t : i < 0) => t = {}
    BY WordAssumption DEF WordBits
  <2>2. QED
    BY <2>1 DEF XorClosed
<1>2. ASSUME NEW n \in Nat, n \in T
      PROVE  n + 1 \in T
  <2> SUFFICES ASSUME NEW t \in SUBSET WordBits, \A i \in t : i < n + 1
               PROVE  t \in C
    OBVIOUS
  <2>1. \A i \in t \ {n} : i < n
    BY WordAssumption DEF WordBits
  <2>2. t \ {n} \in C
    BY <1>2, <2>1
  <2>3. CASE n \in t
    <3>1. {n} \in C
      BY <2>3
    <3>2. Xor(t \ {n}, {n}) = t
      BY <2>3 DEF Xor
    <3>3. QED
      BY <2>2, <3>1, <3>2 DEF XorClosed
  <2>4. CASE n \notin t
    <3>1. t \ {n} = t
      BY <2>4
    <3>2. QED
      BY <2>2, <3>1
  <2>5. QED
    BY <2>3, <2>4
<1> HIDE DEF T
<1>3. Nat \subseteq T
  BY <1>1, <1>2, SetInduction
<1>4. W \in T /\ \A i \in s : i < W
  BY <1>3, WordAssumption DEF WordBits
<1>5. QED
  BY <1>4 DEF T

(***************************************************************************)
(* A draw moves what is spanned as it moves the basis.                     *)
(***************************************************************************)
LEMMA DrawSpans ==
  ASSUME NEW B \in SUBSET SUBSET WordBits, NEW s \in SUBSET WordBits, Spanned(B, s)
  PROVE  Spanned({Shifted(a) : a \in B}, Shifted(s))
<1> SUFFICES ASSUME NEW C, XorClosed(C), {Shifted(a) : a \in B} \subseteq C
             PROVE  Shifted(s) \in C
  BY DEF Spanned
<1> DEFINE D == {x \in SUBSET WordBits : Shifted(x) \in C}
<1>1. XorClosed(D)
  <2>1. {} \in D
    BY ShiftedZero DEF XorClosed
  <2>2. ASSUME NEW a \in D, NEW b \in D
        PROVE  Xor(a, b) \in D
    <3>1. Xor(a, b) \in SUBSET WordBits
      BY DEF Xor
    <3>2. Xor(Shifted(a), Shifted(b)) \in C
      BY DEF XorClosed
    <3>3. QED
      BY <3>1, <3>2, ShiftedLinear
  <2>3. QED
    BY <2>1, <2>2 DEF XorClosed
<1>2. B \subseteq D
  OBVIOUS
<1>3. s \in D
  BY <1>1, <1>2 DEF Spanned
<1>4. QED
  BY <1>3

LEMMA WithoutWords ==
  ASSUME NEW B \in SUBSET SUBSET WordBits, NEW n
  PROVE  Without(n, B) \in SUBSET SUBSET WordBits
<1>1. CASE \A a \in B : n \notin a
  BY <1>1 DEF Without
<1>2. CASE \E a \in B : n \in a
  <2> DEFINE p == CHOOSE a \in B : n \in a
  <2>1. p \in SUBSET WordBits
    BY <1>2
  <2>2. Without(n, B) = {IF n \in a THEN Xor(a, p) ELSE a : a \in B \ {p}}
    BY <1>2 DEF Without
  <2> HIDE DEF p
  <2>3. \A a \in SUBSET WordBits : Xor(a, p) \in SUBSET WordBits
    BY <2>1 DEF Xor
  <2>4. QED
    BY <2>2, <2>3
<1>3. QED
  BY <1>1, <1>2

(***************************************************************************)
(* Elimination of a bit keeps what has that bit zero.                      *)
(***************************************************************************)
LEMMA WithoutSpans ==
  ASSUME NEW B \in SUBSET SUBSET WordBits, NEW n, NEW s, Spanned(B, s), n \notin s
  PROVE  Spanned(Without(n, B), s)
<1>1. CASE \A a \in B : n \notin a
  BY <1>1 DEF Without
<1>2. CASE \E a \in B : n \in a
  <2> DEFINE p == CHOOSE a \in B : n \in a
             Clear(a) == IF n \in a THEN Xor(a, p) ELSE a
  <2>1. p \in B /\ n \in p /\ p \in SUBSET WordBits
    BY <1>2
  <2>2. Without(n, B) = {Clear(a) : a \in B \ {p}}
    BY <1>2 DEF Without
  <2> HIDE DEF p
  <2>3. \A a \in SUBSET WordBits : Clear(a) \in SUBSET WordBits
    BY <2>1 DEF Xor
  <2>4. ASSUME NEW C, XorClosed(C), {Clear(a) : a \in B \ {p}} \subseteq C
        PROVE  s \in C
    <3> DEFINE D == {a \in SUBSET WordBits : Clear(a) \in C}
    <3>1. Clear({}) = {} /\ {} \in C
      BY <2>4 DEF XorClosed
    <3>2. ASSUME NEW a \in D, NEW b \in D
          PROVE  Xor(a, b) \in D
      <4>1. Xor(Clear(a), Clear(b)) \in C
        BY <2>4 DEF XorClosed
      <4>2. Clear(Xor(a, b)) = Xor(Clear(a), Clear(b))
        <5>1. n \in Xor(a, b) <=> (n \in a) # (n \in b)
          BY DEF Xor
        <5>2. CASE n \in a /\ n \in b
          BY <5>1, <5>2, XorLaws
        <5>3. CASE n \in a /\ n \notin b
          BY <5>1, <5>3, XorLaws
        <5>4. CASE n \notin a /\ n \in b
          BY <5>1, <5>4, XorLaws
        <5>5. CASE n \notin a /\ n \notin b
          BY <5>1, <5>5
        <5>6. QED
          BY <5>2, <5>3, <5>4, <5>5
      <4>3. Xor(a, b) \in SUBSET WordBits
        BY DEF Xor
      <4> HIDE DEF Clear
      <4>4. QED
        BY <4>1, <4>2, <4>3
    <3>3. XorClosed(D)
      BY <3>1, <3>2 DEF XorClosed
    <3>4. Clear(p) = {}
      BY <2>1, XorLaws
    <3>5. B \subseteq D
      <4> SUFFICES ASSUME NEW a \in B
                   PROVE  Clear(a) \in C
        OBVIOUS
      <4> HIDE DEF Clear
      <4>1. CASE a = p
        BY <3>1, <3>4, <4>1
      <4>2. CASE a # p
        BY <2>4, <4>2
      <4>3. QED
        BY <4>1, <4>2
    <3>6. s \in D
      BY <3>3, <3>5 DEF Spanned
    <3>7. QED
      BY <3>6
  <2> HIDE DEF Clear
  <2>5. QED
    BY <2>2, <2>3, <2>4 DEF Spanned
<1>3. QED
  BY <1>1, <1>2

(***************************************************************************)
(* The elimination in which a run of zero bytes is looked for loses no     *)
(* state: for every width, shifts and seed, when its basis is empty the    *)
(* generator has drawn a byte other than zero.                             *)
(***************************************************************************)
THEOREM EmptyBasisIsEnough == ZeroSpec => []EmptyBasisEndsZeros
<1> DEFINE Inv ==
      /\ state \in SUBSET WordBits /\ state # {}
      /\ basis \in SUBSET SUBSET WordBits
      /\ zeros \in BOOLEAN
      /\ zeros => Spanned(basis, state)
<1>1. ZeroInit => Inv
  BY SeededNonzero, BitsSpan DEF ZeroInit, RngInit
<1>2. Inv /\ [ZeroNext]_zeroVars => Inv'
  <2> SUFFICES ASSUME Inv, [ZeroNext]_zeroVars
               PROVE  Inv'
    OBVIOUS
  <2>1. CASE Draw
    <3>1. /\ state' = Shifted(state)
          /\ basis' = {Shifted(a) : a \in basis}
          /\ zeros' = zeros
      BY <2>1 DEF Draw, NextU8
    <3>2. state' \in SUBSET WordBits /\ state' # {}
      BY <3>1, ShiftedNonzero
    <3>3. basis' \in SUBSET SUBSET WordBits
      BY <3>1, ShiftedLinear
    <3>4. zeros => Spanned(basis', state')
      BY <3>1, DrawSpans
    <3>5. QED
      BY <3>1, <3>2, <3>3, <3>4
  <2>2. CASE LookAt
    <3>1. /\ state' = state
          /\ basis' = Without(bit, basis)
          /\ zeros' = (zeros /\ bit \notin state)
      BY <2>2 DEF LookAt
    <3>2. basis' \in SUBSET SUBSET WordBits
      BY <3>1, WithoutWords
    <3>3. zeros' => Spanned(basis', state)
      BY <3>1, WithoutSpans
    <3>4. QED
      BY <3>1, <3>2, <3>3
  <2>3. CASE UNCHANGED zeroVars
    BY <2>3 DEF zeroVars
  <2>4. QED
    BY <2>1, <2>2, <2>3 DEF ZeroNext
<1>3. Inv => EmptyBasisEndsZeros
  BY SpannedByNothing DEF EmptyBasisEndsZeros
<1>4. QED
  BY <1>1, <1>2, <1>3, PTL DEF ZeroSpec
=============================================================================
