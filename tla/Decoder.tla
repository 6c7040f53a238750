------------------------------ MODULE Decoder ------------------------------
(***************************************************************************)
(* The decoder of rlnc-simdx (decoder.rs): Gaussian elimination in place,  *)
(* one packet at a time. Coefficients and payloads are stored apart, and a *)
(* packet's payload is touched only once its coefficients have shown it to *)
(* be innovative, by replaying the recorded elimination_factors.           *)
(*                                                                         *)
(* A call is a sequence of steps, one per iteration of its loops, so that  *)
(* the loop invariants of the code are invariants of the specification.    *)
(* The methods take &mut self: there is one call at a time.                *)
(***************************************************************************)
EXTENDS LinearAlgebra

CONSTANT None  \* Option::None, in pivot_col and before the first decode

ASSUME NoneAssumption == None \notin Cols

VARIABLES
  \* The fields of the decoder.
  coefficient_rows,     \* Vec of rank vectors, indexed from 0
  payload_rows,         \* Vec of rank payloads, indexed from 0
  pivot_col,            \* K slots, None beyond rank
  elimination_factors,  \* K slots, overwritten by each receive
  rank,
  decoded,
  \* The call in progress.
  pc,                   \* where the call is; "idle" between calls
  packet,               \* the coefficient vector the caller passed
  coefficients,         \* the packet's coefficients, reduced in place
  payload,              \* the packet's payload, reduced in place
  r, r2,                \* loop indices
  ret,                  \* what the last call returned; "busy" during receive
  symbols               \* what the last successful decode returned

fields == <<coefficient_rows, payload_rows, pivot_col, elimination_factors,
            rank, decoded>>
locals == <<packet, coefficients, payload, r, r2>>
vars   == <<coefficient_rows, payload_rows, pivot_col, elimination_factors,
            rank, decoded, pc, packet, coefficients, payload, r, r2, ret,
            symbols>>

TypeOK ==
  /\ rank \in 0..K
  /\ coefficient_rows \in [0..(rank - 1) -> Vector]
  /\ payload_rows \in [0..(rank - 1) -> Payload]
  /\ pivot_col \in [Cols -> Cols \cup {None}]
  /\ elimination_factors \in [Cols -> Elem]
  /\ decoded \in BOOLEAN
  /\ pc \in {"idle", "receive", "reduce", "payload", "insert", "backsub"}
  /\ packet \in Vector
  /\ coefficients \in Vector
  /\ payload \in Payload
  /\ r \in 0..K
  /\ r2 \in 0..K
  /\ ret \in {"new", "busy", "mismatch", "innovative", "dependent",
              "incomplete", "symbols"}
  /\ symbols \in [Cols -> Payload] \cup {None}

-----------------------------------------------------------------------------
(* Decoder::new *)
Init ==
  /\ coefficient_rows = [i \in 0..(-1) |-> ZeroVector]
  /\ payload_rows = [i \in 0..(-1) |-> ZeroPayload]
  /\ pivot_col = [i \in Cols |-> None]
  /\ elimination_factors = [i \in Cols |-> Zero]
  /\ rank = 0
  /\ decoded = FALSE
  /\ pc = "idle"
  /\ packet = ZeroVector
  /\ coefficients = ZeroVector
  /\ payload = ZeroPayload
  /\ r = 0
  /\ r2 = 0
  /\ ret = "new"
  /\ symbols = None

IsComplete == rank = K

(* The call returns v, and its locals go out of scope. *)
Return(v) ==
  /\ pc' = "idle"
  /\ ret' = v
  /\ packet' = ZeroVector
  /\ coefficients' = ZeroVector
  /\ payload' = ZeroPayload
  /\ r' = 0
  /\ r2' = 0

-----------------------------------------------------------------------------
(* receive *)

(* A packet of the wrong shape is refused before anything is touched. The  *)
(* shape is what the guard compares, so a packet is its two lengths here.   *)
ReceiveMismatch(coeffs_len, payload_len) ==
  /\ pc = "idle"
  /\ coeffs_len # K \/ payload_len # N
  /\ Return("mismatch")
  /\ UNCHANGED <<fields, symbols>>

(* A well-shaped packet arrives: coefficients c, payload p. *)
ReceivePacket(c, p) ==
  /\ pc = "idle"
  /\ pc' = "receive"
  /\ packet' = c
  /\ coefficients' = c
  /\ payload' = p
  /\ ret' = "busy"
  /\ UNCHANGED <<fields, r, r2, symbols>>

(* A packet of a correct sender: its payload is the code of its coefficients. *)
Receive(c) == ReceivePacket(c, Code(c))

(* Mutant: the last missing packet is refused. *)
ReceiveWhenNearlyComplete ==
  /\ pc = "receive"
  /\ rank >= K - 1
  /\ Return("dependent")
  /\ UNCHANGED <<fields, symbols>>

ReceiveWhenComplete ==
  /\ pc = "receive"
  /\ IsComplete
  /\ Return("dependent")
  /\ UNCHANGED <<fields, symbols>>

BeginReduce ==
  /\ pc = "receive"
  /\ ~IsComplete
  /\ pc' = "reduce"
  /\ r' = 0
  /\ UNCHANGED <<fields, packet, coefficients, payload, r2, ret, symbols>>

(* Mutants of Reduce: a zero coefficient leaves the factor of an earlier    *)
(* packet in place; the suffix starts one column late; continue without     *)
(* advancing the loop.                                                      *)
ReduceMutant(store(_), from, next(_)) ==
  /\ pc = "reduce"
  /\ r < rank
  /\ LET coeff == coefficients[pivot_col[r]]
     IN  /\ elimination_factors' = IF store(coeff)
                                   THEN [elimination_factors EXCEPT ![r] = coeff]
                                   ELSE elimination_factors
         /\ coefficients' = AxpyFrom(pivot_col[r] + from, coeff,
                                     coefficient_rows[r], coefficients)
         /\ r' = r + next(coeff)
  /\ UNCHANGED <<coefficient_rows, payload_rows, pivot_col, rank, decoded, pc,
                 packet, payload, r2, ret, symbols>>
ReduceKeepingOldFactor ==
  LET nonzero(a) == a # Zero
      one(a) == 1
  IN  ReduceMutant(nonzero, 0, one)
ReduceOneColumnLate ==
  LET always(a) == TRUE
      one(a) == 1
  IN  ReduceMutant(always, 1, one)
ReduceStuckOnZero ==
  LET always(a) == TRUE
      step(a) == IF a = Zero THEN 0 ELSE 1
  IN  ReduceMutant(always, 0, step)

(* One iteration of the coefficient loop: subtract row r, remembering the   *)
(* factor. Only the suffix from the pivot column on is touched. A row       *)
(* without a pivot would be passed over, and its factor left as it was.     *)
Reduce ==
  /\ pc = "reduce"
  /\ r < rank
  /\ LET col   == pivot_col[r]
         coeff == coefficients[col]
     IN  IF col = None THEN UNCHANGED <<elimination_factors, coefficients>>
         ELSE
         /\ elimination_factors' = [elimination_factors EXCEPT ![r] = coeff]
         /\ coefficients' =
              IF coeff = Zero THEN coefficients
              ELSE AxpyFrom(col, coeff, coefficient_rows[r], coefficients)
  /\ r' = r + 1
  /\ UNCHANGED <<coefficient_rows, payload_rows, pivot_col, rank, decoded, pc,
                 packet, payload, r2, ret, symbols>>

(* Nothing is left of the coefficients: Ok(false), the payload untouched.   *)
Dependent ==
  /\ pc = "reduce"
  /\ r = rank
  /\ coefficients = ZeroVector
  /\ Return("dependent")
  /\ UNCHANGED <<fields, symbols>>

BeginPayload ==
  /\ pc = "reduce"
  /\ r = rank
  /\ coefficients # ZeroVector
  /\ pc' = "payload"
  /\ r' = 0
  /\ UNCHANGED <<fields, packet, coefficients, payload, r2, ret, symbols>>

(* One iteration of the payload loop: replay the recorded factor of row r.  *)
ReducePayload ==
  /\ pc = "payload"
  /\ r < rank
  /\ payload' = IF elimination_factors[r] = Zero THEN payload
                ELSE Axpy(elimination_factors[r], payload_rows[r], payload)
  /\ r' = r + 1
  /\ UNCHANGED <<fields, pc, packet, coefficients, r2, ret, symbols>>

(* position(|&b| b != 0) *)
PivotOf(c) == CHOOSE p \in Cols : c[p] # Zero /\ \A j \in 0..(p - 1) : c[j] = Zero

(* Mutant: only the coefficients are divided. *)
NormaliseCoefficientsOnly ==
  /\ pc = "payload"
  /\ r = rank
  /\ pc' = "insert"
  /\ coefficients' = Scale(Reciprocal(coefficients[PivotOf(coefficients)]), coefficients)
  /\ UNCHANGED <<fields, packet, payload, r, r2, ret, symbols>>

(* Divide the new row by its leading coefficient. *)
Normalise ==
  /\ pc = "payload"
  /\ r = rank
  /\ pc' = "insert"
  /\ LET pivot == PivotOf(coefficients)
         inv   == Reciprocal(coefficients[pivot])
     IN  IF coefficients[pivot] = One
         THEN UNCHANGED <<coefficients, payload>>
         ELSE /\ coefficients' = ScaleFrom(pivot, inv, coefficients)
              /\ payload' = Scale(inv, payload)
  /\ UNCHANGED <<fields, packet, r, r2, ret, symbols>>

(* Mutant: rows stay in order of arrival. *)
InsertLast(p) == rank

(* The first stored row whose pivot is beyond p, or rank. *)
PivotBeyond(i, p) == pivot_col[i] # None /\ pivot_col[i] > p

InsertAt(p) ==
  IF \E i \in 0..(rank - 1) : PivotBeyond(i, p)
  THEN CHOOSE i \in 0..(rank - 1) :
         PivotBeyond(i, p) /\ \A h \in 0..(i - 1) : ~PivotBeyond(h, p)
  ELSE rank

(* Push x at the end of the first rank slots and swap it down to slot at.   *)
Inserted(rows, at, x) ==
  [i \in 0..rank |-> IF i < at THEN rows[i]
                     ELSE IF i = at THEN x ELSE rows[i - 1]]

Insert ==
  /\ pc = "insert"
  /\ LET pivot == PivotOf(coefficients)
         at    == InsertAt(pivot)
     IN  /\ coefficient_rows' = Inserted(coefficient_rows, at, coefficients)
         /\ payload_rows' = Inserted(payload_rows, at, payload)
         /\ pivot_col' = [i \in Cols |-> IF i <= rank
                                         THEN Inserted(pivot_col, at, pivot)[i]
                                         ELSE pivot_col[i]]
  /\ rank' = rank + 1
  /\ decoded' = FALSE
  /\ Return("innovative")
  /\ UNCHANGED <<elimination_factors, symbols>>

-----------------------------------------------------------------------------
(* decode *)

DecodeIncomplete ==
  /\ pc = "idle"
  /\ ~IsComplete
  /\ Return("incomplete")
  /\ UNCHANGED <<fields, symbols>>

(* extract_symbols, without a second back-substitution. *)
DecodeAgain ==
  /\ pc = "idle"
  /\ IsComplete
  /\ decoded
  /\ symbols' = payload_rows
  /\ Return("symbols")
  /\ UNCHANGED fields

BeginDecode ==
  /\ pc = "idle"
  /\ IsComplete
  /\ ~decoded
  /\ pc' = "backsub"
  /\ r' = K - 1
  /\ r2' = 0
  /\ UNCHANGED <<fields, packet, coefficients, payload, ret, symbols>>

(* Mutant: the payload of row r2 is left as it was. *)
BackSubstituteCoefficientsOnly ==
  /\ pc = "backsub"
  /\ r2 < r
  /\ coefficient_rows' = [coefficient_rows EXCEPT ![r2] =
       Axpy(@[pivot_col[r]], coefficient_rows[r], @)]
  /\ r2' = r2 + 1
  /\ UNCHANGED <<payload_rows, pivot_col, elimination_factors, rank, decoded, pc,
                 packet, coefficients, payload, r, ret, symbols>>

(* One iteration of the inner loop: clear column pivot_col[r] of row r2.    *)
BackSubstitute ==
  /\ pc = "backsub"
  /\ r2 < r
  /\ LET col   == pivot_col[r]
         coeff == coefficient_rows[r2][col]
     IN  IF col = None \/ coeff = Zero
         THEN UNCHANGED <<coefficient_rows, payload_rows>>
         ELSE /\ coefficient_rows' = [coefficient_rows EXCEPT ![r2] =
                   AxpyFrom(col, coeff, coefficient_rows[r], @)]
              /\ payload_rows' = [payload_rows EXCEPT ![r2] =
                   Axpy(coeff, payload_rows[r], @)]
  /\ r2' = r2 + 1
  /\ UNCHANGED <<pivot_col, elimination_factors, rank, decoded, pc, packet,
                 coefficients, payload, r, ret, symbols>>

NextPivot ==
  /\ pc = "backsub"
  /\ r2 = r
  /\ r > 0
  /\ r' = r - 1
  /\ r2' = 0
  /\ UNCHANGED <<fields, pc, packet, coefficients, payload, ret, symbols>>

FinishDecode ==
  /\ pc = "backsub"
  /\ r2 = r
  /\ r = 0
  /\ decoded' = TRUE
  /\ symbols' = payload_rows
  /\ Return("symbols")
  /\ UNCHANGED <<coefficient_rows, payload_rows, pivot_col,
                 elimination_factors, rank>>

-----------------------------------------------------------------------------
(* The caller may call either method at any time with any packet. *)
Call ==
  \/ \E c \in Vector : Receive(c)
  \/ \E cl \in 0..(K + 1), pl \in 0..(N + 1) : ReceiveMismatch(cl, pl)
  \/ DecodeIncomplete
  \/ DecodeAgain
  \/ BeginDecode

(* The steps of a call that has begun. *)
Step ==
  \/ ReceiveWhenComplete \/ BeginReduce \/ Reduce \/ Dependent
  \/ BeginPayload \/ ReducePayload \/ Normalise \/ Insert
  \/ BackSubstitute \/ NextPivot \/ FinishDecode

Next == Call \/ Step

Spec == Init /\ [][Next]_vars

(* A call that has begun runs on; nothing obliges anyone to make a call. *)
FairSpec == Spec /\ WF_vars(Step)
=============================================================================
