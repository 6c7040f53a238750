---------------------------- MODULE DecoderProofs ----------------------------
(***************************************************************************)
(* The decoder is correct for every generation size, symbol size, field    *)
(* and source: IInv is an inductive invariant of Spec, and the properties  *)
(* of module DecoderInvariant follow from it.                              *)
(***************************************************************************)
EXTENDS DecoderInvariant, LinearAlgebraProofs

(***************************************************************************)
(* A nonzero vector has a leading column, and PivotOf finds it.            *)
(***************************************************************************)
LEMMA PivotExists ==
  ASSUME NEW c \in Vector, c # ZeroVector
  PROVE  /\ PivotOf(c) \in Cols
         /\ c[PivotOf(c)] # Zero
         /\ \A j \in Cols : j < PivotOf(c) => c[j] = Zero
<1> DEFINE S == {j \in Cols : c[j] # Zero}
<1>1. S \subseteq Nat
  BY SizeAssumption DEF Cols
<1>2. S # {}
  BY DEF Vector, ZeroVector
<1>3. PICK m \in S : \A n \in S : m <= n
  BY <1>1, <1>2, LeastElement
<1>4. m \in Cols /\ c[m] # Zero /\ \A j \in 0..(m - 1) : c[j] = Zero
  BY <1>3, SizeAssumption DEF Cols
<1>5. /\ PivotOf(c) \in Cols
      /\ c[PivotOf(c)] # Zero
      /\ \A j \in 0..(PivotOf(c) - 1) : c[j] = Zero
  BY <1>4 DEF PivotOf
<1>6. QED
  BY <1>5, SizeAssumption DEF Cols

LEMMA PivotUnique ==
  ASSUME NEW c \in Vector, NEW p \in Cols, c[p] # Zero,
         \A j \in Cols : j < p => c[j] = Zero
  PROVE  c # ZeroVector /\ PivotOf(c) = p
<1>1. c # ZeroVector
  BY DEF ZeroVector
<1>2. PivotOf(c) \in Cols /\ ~(PivotOf(c) < p) /\ ~(p < PivotOf(c))
  BY <1>1, PivotExists
<1>3. QED
  BY <1>1, <1>2, SizeAssumption DEF Cols

(***************************************************************************)
(* The insertion point splits the stored pivots into those before and      *)
(* those beyond the new one.                                               *)
(***************************************************************************)
LEMMA InsertionPoint ==
  ASSUME TypeOK, PivotInv, NEW p \in Cols, \A i \in Rows : pivot_col[i] # p
  PROVE  /\ InsertAt(p) \in 0..rank
         /\ \A i \in Rows : i < InsertAt(p) => pivot_col[i] < p
         /\ \A i \in Rows : i >= InsertAt(p) => p < pivot_col[i]
<1> DEFINE beyond(i) == PivotBeyond(i, p)
           S == {i \in Rows : beyond(i)}
<1>1. rank \in Nat /\ Rows = 0..(rank - 1) /\ p \in Nat
  BY SizeAssumption DEF TypeOK, Rows, Cols
<1>2. \A i \in Rows : pivot_col[i] \in Nat /\ pivot_col[i] # None
  BY SizeAssumption, NoneAssumption DEF PivotInv, Cols
<1>3. CASE S = {}
  <2>1. ~ \E i \in 0..(rank - 1) : beyond(i)
    BY <1>1, <1>3
  <2>2. InsertAt(p) = rank
    BY <2>1 DEF InsertAt
  <2>3. QED
    BY <1>1, <1>2, <2>1, <2>2 DEF PivotBeyond
<1>4. CASE S # {}
  <2>0. S \subseteq Nat
    BY <1>1
  <2>1. PICK m \in S : \A n \in S : m <= n
    BY <2>0, <1>4, LeastElement
  <2>2. m \in 0..(rank - 1) /\ beyond(m) /\ \A h \in 0..(m - 1) : ~beyond(h)
    BY <1>1, <2>0, <2>1
  <2> DEFINE at == InsertAt(p)
  <2>3. at \in 0..(rank - 1) /\ beyond(at) /\ \A h \in 0..(at - 1) : ~beyond(h)
    BY <2>2 DEF InsertAt
  <2> HIDE DEF at
  <2>4. \A i \in Rows : i < at => pivot_col[i] < p
    BY <1>1, <1>2, <2>3 DEF PivotBeyond
  <2>5. \A i \in Rows : i >= at => p < pivot_col[i]
    <3> SUFFICES ASSUME NEW i \in Rows, i >= at
                 PROVE  p < pivot_col[i]
      OBVIOUS
    <3>1. i = at \/ pivot_col[i] - pivot_col[at] >= i - at
      BY <1>1, <2>3 DEF PivotInv
    <3>2. QED
      BY <1>1, <1>2, <2>3, <3>1 DEF PivotBeyond
  <2>6. QED
    BY <1>1, <2>3, <2>4, <2>5 DEF at
<1>5. QED
  BY <1>3, <1>4

(***************************************************************************)
(* The parts of the invariant that speak of the stored rows alone survive  *)
(* every step that leaves the fields of the decoder alone.                 *)
(***************************************************************************)
LEMMA FieldsUnchanged ==
  ASSUME PivotInv, RowInv, PayloadsFollowCoefficients, UNCHANGED fields
  PROVE  PivotInv' /\ RowInv' /\ PayloadsFollowCoefficients'
BY DEF PivotInv, RowInv, PayloadsFollowCoefficients, Rows, fields

(***************************************************************************)
(* K pivots that ascend among K columns are the identity.                  *)
(***************************************************************************)
LEMMA FullRankPivots ==
  ASSUME PivotInv, rank = K
  PROVE  \A i \in Cols : pivot_col[i] = i
<1> SUFFICES ASSUME NEW i \in Cols
             PROVE  pivot_col[i] = i
  OBVIOUS
<1>1. /\ K \in Nat /\ i \in 0..(K - 1)
      /\ pivot_col[i] \in 0..(K - 1)
      /\ pivot_col[0] \in 0..(K - 1)
      /\ pivot_col[K - 1] \in 0..(K - 1)
  BY SizeAssumption DEF Cols, Rows, PivotInv
<1>2. pivot_col[i] >= i
  <2>1. i = 0 \/ pivot_col[i] - pivot_col[0] >= i - 0
    BY SizeAssumption DEF Cols, Rows, PivotInv
  <2>2. QED
    BY <1>1, <2>1
<1>3. pivot_col[i] <= i
  <2>1. i = K - 1 \/ pivot_col[K - 1] - pivot_col[i] >= K - 1 - i
    BY SizeAssumption DEF Cols, Rows, PivotInv
  <2>2. QED
    BY <1>1, <2>1
<1>4. QED
  BY <1>1, <1>2, <1>3

(***************************************************************************)
(* Once nothing is left above the diagonal, the payload rows are the       *)
(* source symbols.                                                         *)
(***************************************************************************)
LEMMA ClearedIsIdentity ==
  ASSUME TypeOK, PivotInv, RowInv, PayloadsFollowCoefficients, rank = K,
         \A i, j \in Cols : i < j => coefficient_rows[i][j] = Zero
  PROVE  /\ \A i \in Cols : coefficient_rows[i] = Unit(i)
         /\ payload_rows = Source
<1>1. \A i \in Cols : pivot_col[i] = i
  BY FullRankPivots
<1>2. ASSUME NEW i \in Cols
      PROVE  coefficient_rows[i] = Unit(i)
  <2>1. coefficient_rows[i] \in Vector
    BY DEF TypeOK, Cols
  <2>2. ASSUME NEW j \in Cols
        PROVE  coefficient_rows[i][j] = IF j = i THEN One ELSE Zero
    BY <1>1, SizeAssumption DEF RowInv, Rows, Cols
  <2>3. QED
    BY <2>1, <2>2 DEF Unit, Vector
<1>3. payload_rows = Source
  <2>1. payload_rows \in [Cols -> Payload]
    BY DEF TypeOK, Cols
  <2>2. \A i \in Cols : payload_rows[i] = Code(Unit(i))
    BY <1>2 DEF PayloadsFollowCoefficients, Rows, Cols
  <2>3. QED
    BY <2>1, <2>2 DEF Source
<1>4. QED
  BY <1>2, <1>3

-----------------------------------------------------------------------------
(* The steps that leave the fields alone and only move the call along. *)

LEMMA InitIInv == Init => IInv
<1> SUFFICES ASSUME Init
             PROVE  IInv
  OBVIOUS
<1> USE DEF Init
<1>1. TypeOK
  BY FieldAssumption, SizeAssumption
  DEF TypeOK, Vector, Payload, ZeroVector, ZeroPayload, Cols
<1>2. ControlInv /\ RemainderInv /\ ReplayInv /\ BacksubInv /\ DecodedIsSource
  BY SizeAssumption
  DEF ControlInv, RemainderInv, ReplayInv, BacksubInv, DecodedIsSource,
      IsComplete
<1>3. PivotInv /\ RowInv /\ PayloadsFollowCoefficients
  BY DEF PivotInv, RowInv, PayloadsFollowCoefficients, Rows, Cols
<1>4. QED
  BY <1>1, <1>2, <1>3 DEF IInv

(***************************************************************************)
(* A return with the fields unchanged, other than the end of a decode.     *)
(***************************************************************************)
LEMMA PlainReturn ==
  ASSUME IInv, NEW v \in {"mismatch", "dependent", "incomplete"}, Return(v),
         UNCHANGED <<fields, symbols>>
  PROVE  IInv'
<1> USE DEF IInv, Return, fields
<1>1. TypeOK'
  BY ZeroTypes, SizeAssumption DEF TypeOK
<1>2. ControlInv' /\ RemainderInv' /\ ReplayInv' /\ DecodedIsSource'
  BY DEF ControlInv, RemainderInv, ReplayInv, DecodedIsSource, IsComplete
<1>3. PivotInv' /\ RowInv' /\ PayloadsFollowCoefficients'
  BY FieldsUnchanged
<1>4. BacksubInv'
  BY DEF BacksubInv
<1>5. QED
  BY <1>1, <1>2, <1>3, <1>4

LEMMA ReceiveIInv ==
  ASSUME IInv, NEW c \in Vector, Receive(c)
  PROVE  IInv'
<1> USE DEF IInv, Receive, ReceivePacket, fields
<1>1. TypeOK'
  BY CodeAssumption DEF TypeOK
<1>2. ControlInv' /\ RemainderInv' /\ DecodedIsSource'
  BY DEF ControlInv, RemainderInv, DecodedIsSource, IsComplete
<1>3. PivotInv' /\ RowInv' /\ PayloadsFollowCoefficients'
  BY FieldsUnchanged
<1>4. ReplayInv' /\ BacksubInv'
  BY DEF ReplayInv, BacksubInv
<1>5. QED
  BY <1>1, <1>2, <1>3, <1>4

LEMMA BeginReduceIInv ==
  ASSUME IInv, BeginReduce
  PROVE  IInv'
<1> USE DEF IInv, BeginReduce, fields
<1>1. TypeOK'
  BY SizeAssumption DEF TypeOK
<1>2. ControlInv' /\ RemainderInv' /\ DecodedIsSource'
  BY SizeAssumption
  DEF ControlInv, RemainderInv, DecodedIsSource, IsComplete, TypeOK, Rows
<1>3. PivotInv' /\ RowInv' /\ PayloadsFollowCoefficients'
  BY FieldsUnchanged
<1>4. ReplayInv'
  <2> DEFINE t == [q \in 0..0 |-> packet]
  <2>1. t \in [0..0 -> Vector] /\ t[0] = packet
    BY DEF TypeOK
  <2>2. Trail(t, 0)'
    BY <2>1 DEF Trail, ReplayInv
  <2>3. QED
    BY <2>1, <2>2 DEF ReplayInv
<1>5. BacksubInv'
  BY DEF BacksubInv
<1>6. QED
  BY <1>1, <1>2, <1>3, <1>4, <1>5

-----------------------------------------------------------------------------
(* The elimination loops of receive. *)

(***************************************************************************)
(* Reduce subtracts a whole multiple of row r, although it touches a       *)
(* suffix only, and that clears column pivot_col[r].                       *)
(***************************************************************************)
LEMMA ReduceEffect ==
  ASSUME TypeOK, PivotInv, RowInv, Reduce
  PROVE  LET col   == pivot_col[r]
             coeff == coefficients[col]
         IN  /\ r \in Rows /\ col \in Cols /\ coeff \in Elem
             /\ elimination_factors' = [elimination_factors EXCEPT ![r] = coeff]
             /\ coefficients' = Axpy(coeff, coefficient_rows[r], coefficients)
             /\ coefficients' \in Vector
             /\ coefficients'[col] = Zero
             /\ \A j \in Cols : j < col => coefficients'[j] = coefficients[j]
<1> DEFINE col   == pivot_col[r]
           coeff == coefficients[col]
           row   == coefficient_rows[r]
<1>1. r \in Rows /\ r \in Cols
  BY SizeAssumption DEF Reduce, TypeOK, Rows, Cols
<1>2. col \in Cols /\ col \in Nat /\ col # None
  BY <1>1, NoneAssumption, SizeAssumption DEF PivotInv, Cols
<1>3. coeff \in Elem /\ row \in Vector /\ coefficients \in Vector
  BY <1>1, <1>2 DEF TypeOK, Vector, Rows
<1>4. /\ elimination_factors' = [elimination_factors EXCEPT ![r] = coeff]
      /\ coefficients' = IF coeff = Zero THEN coefficients
                         ELSE AxpyFrom(col, coeff, row, coefficients)
  BY <1>2 DEF Reduce
<1>5. row[col] = One /\ \A j \in Cols : j < col => row[j] = Zero
  BY <1>1 DEF RowInv
<1>6. AxpyFrom(col, coeff, row, coefficients) = Axpy(coeff, row, coefficients)
  BY <1>2, <1>3, <1>5, AxpySuffix
<1>7. coefficients' = AxpyFrom(col, coeff, row, coefficients)
  <2>1. CASE coeff = Zero
    <3>1. Axpy(coeff, row, coefficients) = coefficients
      BY <2>1, <1>3, AxpyZero
    <3>2. QED
      BY <2>1, <3>1, <1>4, <1>6
  <2>2. CASE coeff # Zero
    BY <2>2, <1>4
  <2>3. QED
    BY <2>1, <2>2
<1>8. /\ coefficients' \in Vector
      /\ \A j \in Cols : coefficients'[j] =
           IF j >= col THEN Plus(coefficients[j], Times(coeff, row[j]))
           ELSE coefficients[j]
  BY <1>2, <1>3, <1>7, AxpyFromType
<1>9. Plus(coeff, Times(coeff, One)) = Zero
  BY <1>3, FieldAssumption
<1>10. coefficients'[col] = Zero
  BY <1>2, <1>5, <1>8, <1>9
<1>11. \A j \in Cols : j < col => coefficients'[j] = coefficients[j]
  BY <1>2, <1>8, SizeAssumption DEF Cols
<1>12. QED
  BY <1>1, <1>2, <1>3, <1>4, <1>6, <1>7, <1>8, <1>10, <1>11

LEMMA ReduceIInv ==
  ASSUME IInv, Reduce
  PROVE  IInv'
<1> DEFINE col   == pivot_col[r]
           coeff == coefficients[col]
<1> USE DEF IInv
<1>1. /\ r \in Rows /\ col \in Cols /\ coeff \in Elem
      /\ elimination_factors' = [elimination_factors EXCEPT ![r] = coeff]
      /\ coefficients' = Axpy(coeff, coefficient_rows[r], coefficients)
      /\ coefficients' \in Vector
      /\ coefficients'[col] = Zero
      /\ \A j \in Cols : j < col => coefficients'[j] = coefficients[j]
  BY ReduceEffect
<1>2. /\ pc = "reduce" /\ r' = r + 1 /\ rank \in Nat /\ rank < K /\ r \in Nat
      /\ r < rank
      /\ UNCHANGED <<coefficient_rows, payload_rows, pivot_col, rank, decoded,
                     pc, packet, payload, r2, ret, symbols>>
  BY SizeAssumption DEF Reduce, TypeOK, ControlInv
<1>3. TypeOK'
  <2>1. r' \in 0..K
    BY <1>2, SizeAssumption
  <2>2. elimination_factors' \in [Cols -> Elem]
    BY <1>1 DEF TypeOK
  <2>3. QED
    BY <1>1, <1>2, <2>1, <2>2 DEF TypeOK
<1>4. ControlInv' /\ DecodedIsSource'
  BY <1>2 DEF ControlInv, DecodedIsSource, IsComplete
<1>5. PivotInv' /\ RowInv' /\ PayloadsFollowCoefficients'
  BY <1>2 DEF PivotInv, RowInv, PayloadsFollowCoefficients, Rows
<1>6. RemainderInv'
  <2> SUFFICES ASSUME NEW q \in Rows, q < r + 1
               PROVE  coefficients'[pivot_col[q]] = Zero
    BY <1>2 DEF RemainderInv, Rows
  <2>1. CASE q = r
    BY <2>1, <1>1
  <2>2. CASE q < r
    <3>1. pivot_col[q] \in Cols /\ pivot_col[q] < col
      BY <2>2, <1>1, <1>2, SizeAssumption DEF PivotInv, Rows, Cols
    <3>2. coefficients[pivot_col[q]] = Zero
      BY <2>2, <1>2 DEF RemainderInv
    <3>3. QED
      BY <3>1, <3>2, <1>1
  <2>3. QED
    BY <2>1, <2>2, <1>2 DEF Rows
<1>7. ReplayInv'
  <2>1. PICK t \in [0..r -> Vector] : Trail(t, r)
    BY <1>2 DEF ReplayInv
  <2>2. PICK u \in [0..(r + 1) -> Vector] :
          \A q \in 0..(r + 1) : u[q] = IF q <= r THEN t[q] ELSE coefficients'
    <3> DEFINE w == [q \in 0..(r + 1) |-> IF q <= r THEN t[q] ELSE coefficients']
    <3>1. w \in [0..(r + 1) -> Vector]
      BY <1>1, <1>2
    <3>2. QED
      BY <3>1
  <2>3. u[0] = packet /\ u[r + 1] = coefficients'
    BY <1>2, <2>1, <2>2 DEF Trail
  <2>4. ASSUME NEW q \in 0..r
        PROVE  u[q + 1] = Axpy(elimination_factors'[q], coefficient_rows[q], u[q])
    <3>1. CASE q = r
      <4>1. elimination_factors'[q] = coeff
        BY <3>1, <1>1, <1>2, SizeAssumption DEF TypeOK, Cols
      <4>2. u[q] = coefficients /\ u[q + 1] = coefficients'
        BY <3>1, <1>2, <2>1, <2>2 DEF Trail
      <4>3. QED
        BY <3>1, <4>1, <4>2, <1>1
    <3>2. CASE q < r
      <4>1. elimination_factors'[q] = elimination_factors[q]
        BY <3>2, <1>1, <1>2 DEF TypeOK, Cols
      <4>2. q \in 0..(r - 1) /\ u[q] = t[q] /\ u[q + 1] = t[q + 1]
        BY <3>2, <1>2, <2>2
      <4>3. QED
        BY <4>1, <4>2, <2>1 DEF Trail
    <3>3. QED
      BY <3>1, <3>2, <1>2
  <2>5. Trail(u, r)'
    <3>1. r' - 1 = r
      BY <1>2
    <3>2. QED
      BY <1>2, <2>3, <2>4, <3>1 DEF Trail
  <2>6. u \in [0..r' -> Vector]
    BY <1>2
  <2>7. QED
    BY <1>2, <2>5, <2>6 DEF ReplayInv
<1>8. BacksubInv'
  BY <1>2 DEF BacksubInv
<1>9. QED
  BY <1>3, <1>4, <1>5, <1>6, <1>7, <1>8

LEMMA BeginPayloadIInv ==
  ASSUME IInv, BeginPayload
  PROVE  IInv'
<1> USE DEF IInv, BeginPayload, fields
<1>1. TypeOK'
  BY SizeAssumption DEF TypeOK
<1>2. ControlInv' /\ DecodedIsSource' /\ BacksubInv'
  BY DEF ControlInv, DecodedIsSource, BacksubInv, IsComplete, TypeOK
<1>3. PivotInv' /\ RowInv' /\ PayloadsFollowCoefficients'
  BY FieldsUnchanged
<1>4. RemainderInv'
  BY DEF RemainderInv, Rows, TypeOK
<1>5. ReplayInv'
  <2>1. PICK t \in [0..rank -> Vector] : Trail(t, rank)
    BY DEF ReplayInv
  <2>2. payload' = Code(t[0]) /\ Trail(t, rank)'
    BY <2>1 DEF Trail, ReplayInv
  <2>3. QED
    BY <2>1, <2>2 DEF ReplayInv
<1>6. QED
  BY <1>1, <1>2, <1>3, <1>4, <1>5

LEMMA ReducePayloadIInv ==
  ASSUME IInv, ReducePayload
  PROVE  IInv'
<1> USE DEF IInv
<1>1. /\ pc = "payload" /\ r \in Rows /\ r \in Cols /\ r' = r + 1
      /\ r \in Nat /\ rank \in Nat /\ r < rank /\ rank < K
      /\ payload' = IF elimination_factors[r] = Zero THEN payload
                    ELSE Axpy(elimination_factors[r], payload_rows[r], payload)
      /\ UNCHANGED <<fields, pc, packet, coefficients, r2, ret, symbols>>
  BY SizeAssumption DEF ReducePayload, TypeOK, ControlInv, Rows, Cols
<1>2. PICK t \in [0..rank -> Vector] : Trail(t, rank) /\ payload = Code(t[r])
  BY <1>1 DEF ReplayInv
<1>3. payload' = Code(t[r + 1])
  <2> DEFINE factor == elimination_factors[r]
  <2>1. /\ factor \in Elem /\ coefficient_rows[r] \in Vector
        /\ t[r] \in Vector
    BY <1>1, <1>2 DEF TypeOK, Rows
  <2>2. t[r + 1] = Axpy(factor, coefficient_rows[r], t[r])
    BY <1>1, <1>2 DEF Trail
  <2>3. payload_rows[r] = Code(coefficient_rows[r])
    BY <1>1 DEF PayloadsFollowCoefficients
  <2>4. CASE factor = Zero
    BY <1>1, <1>2, <2>1, <2>2, <2>4, AxpyZero
  <2>5. CASE factor # Zero
    BY <1>1, <1>2, <2>1, <2>2, <2>3, <2>5, CodeAssumption
  <2>6. QED
    BY <2>4, <2>5
<1>4. TypeOK'
  <2>1. payload' \in Payload
    BY <1>1, <1>2, <1>3, CodeAssumption
  <2>2. r' \in 0..K
    BY <1>1, SizeAssumption
  <2>3. QED
    BY <1>1, <2>1, <2>2 DEF TypeOK, fields
<1>5. ControlInv' /\ DecodedIsSource' /\ BacksubInv'
  BY <1>1 DEF ControlInv, DecodedIsSource, BacksubInv, IsComplete, fields
<1>6. PivotInv' /\ RowInv' /\ PayloadsFollowCoefficients'
  BY <1>1, FieldsUnchanged
<1>7. RemainderInv'
  BY <1>1 DEF RemainderInv, Rows, fields
<1>8. ReplayInv'
  BY <1>1, <1>2, <1>3 DEF ReplayInv, Trail, fields
<1>9. QED
  BY <1>4, <1>5, <1>6, <1>7, <1>8

LEMMA NormaliseIInv ==
  ASSUME IInv, Normalise
  PROVE  IInv'
<1> DEFINE pivot == PivotOf(coefficients)
           inv   == Reciprocal(coefficients[pivot])
<1> USE DEF IInv
<1>1. /\ pc = "payload" /\ r = rank /\ pc' = "insert"
      /\ UNCHANGED <<fields, packet, r, r2, ret, symbols>>
  BY DEF Normalise
<1>2. coefficients \in Vector /\ coefficients # ZeroVector
  BY <1>1 DEF TypeOK, RemainderInv
<1>3. /\ pivot \in Cols /\ coefficients[pivot] # Zero
      /\ coefficients[pivot] \in Elem
      /\ \A j \in Cols : j < pivot => coefficients[j] = Zero
  BY <1>2, PivotExists DEF Vector
<1>4. inv \in Elem /\ Times(inv, coefficients[pivot]) = One
  BY <1>3, FieldAssumption
<1>5. payload = Code(coefficients)
  BY <1>1 DEF ReplayInv, Trail
<1>6. /\ coefficients' \in Vector /\ payload' \in Payload
      /\ payload' = Code(coefficients')
      /\ coefficients'[pivot] = One
      /\ \A j \in Cols : coefficients[j] = Zero => coefficients'[j] = Zero
  <2>1. CASE coefficients[pivot] = One
    <3>1. UNCHANGED <<coefficients, payload>>
      BY <2>1 DEF Normalise
    <3>2. QED
      BY <2>1, <3>1, <1>2, <1>5, CodeAssumption
  <2>2. CASE coefficients[pivot] # One
    <3>1. /\ coefficients' = ScaleFrom(pivot, inv, coefficients)
          /\ payload' = Scale(inv, payload)
      BY <2>2 DEF Normalise
    <3>2. coefficients' = Scale(inv, coefficients)
      BY <3>1, <1>2, <1>3, <1>4, ScaleSuffix
    <3>3. payload' = Code(coefficients')
      BY <3>1, <3>2, <1>2, <1>4, <1>5, CodeAssumption
    <3>4. /\ coefficients' \in Vector
          /\ \A j \in Cols : coefficients'[j] =
               IF j >= pivot THEN Times(inv, coefficients[j])
               ELSE coefficients[j]
      BY <3>1, <1>2, <1>3, <1>4, ScaleFromType, SizeAssumption DEF Cols
    <3>5. coefficients'[pivot] = One
      BY <3>4, <1>3, <1>4, SizeAssumption DEF Cols
    <3>6. Times(inv, Zero) = Zero
      BY <1>4, FieldAssumption
    <3>7. QED
      BY <3>3, <3>4, <3>5, <3>6, CodeAssumption
  <2>3. QED
    BY <2>1, <2>2
<1>7. One # Zero
  BY FieldAssumption
<1>8. coefficients' # ZeroVector /\ PivotOf(coefficients') = pivot
  BY <1>3, <1>6, <1>7, PivotUnique
<1>9. TypeOK'
  BY <1>1, <1>6 DEF TypeOK, fields
<1>10. ControlInv' /\ DecodedIsSource' /\ BacksubInv'
  BY <1>1 DEF ControlInv, DecodedIsSource, BacksubInv, IsComplete, fields
<1>11. PivotInv' /\ RowInv' /\ PayloadsFollowCoefficients'
  BY <1>1, FieldsUnchanged
<1>12. RemainderInv'
  <2>1. \A q \in Rows : pivot_col[q] \in Cols /\ coefficients[pivot_col[q]] = Zero
    BY <1>1 DEF RemainderInv, PivotInv
  <2>2. \A q \in Rows : coefficients'[pivot_col[q]] = Zero
    BY <2>1, <1>6
  <2>3. coefficients'[PivotOf(coefficients')] = One
    BY <1>6, <1>8
  <2>4. Rows' = Rows /\ pivot_col' = pivot_col
    BY <1>1 DEF Rows, fields
  <2>5. QED
    BY <1>1, <1>8, <2>2, <2>3, <2>4 DEF RemainderInv, PivotOf
<1>13. ReplayInv'
  BY <1>1, <1>6 DEF ReplayInv
<1>14. QED
  BY <1>9, <1>10, <1>11, <1>12, <1>13

-----------------------------------------------------------------------------
(* The insertion of an innovative row. *)

LEMMA InsertIInv ==
  ASSUME IInv, Insert
  PROVE  IInv'
<1> DEFINE pivot == PivotOf(coefficients)
           at    == InsertAt(pivot)
<1> USE DEF IInv
<1>1. /\ pc = "insert" /\ rank \in Nat /\ rank < K /\ K \in Nat
      /\ rank' = rank + 1 /\ decoded' = FALSE
      /\ pc' = "idle" /\ ret' = "innovative"
      /\ UNCHANGED <<elimination_factors, symbols>>
  BY SizeAssumption DEF Insert, Return, TypeOK, ControlInv
<1>2. /\ pivot \in Cols /\ pivot \in Nat
      /\ coefficients[pivot] = One
      /\ \A j \in Cols : j < pivot => coefficients[j] = Zero
      /\ \A q \in Rows : pivot_col[q] # pivot
  <2>1. coefficients \in Vector /\ coefficients # ZeroVector
    BY <1>1 DEF TypeOK, RemainderInv
  <2>2. /\ pivot \in Cols /\ coefficients[pivot] # Zero
        /\ \A j \in Cols : j < pivot => coefficients[j] = Zero
    BY <2>1, PivotExists
  <2>3. \A q \in Rows : coefficients[pivot_col[q]] = Zero
    BY <1>1 DEF RemainderInv
  <2>4. coefficients[pivot] = One
    BY <1>1 DEF RemainderInv
  <2>5. QED
    BY <2>2, <2>3, <2>4, SizeAssumption DEF Cols
<1>3. /\ at \in 0..rank
      /\ \A i \in Rows : i < at => pivot_col[i] < pivot
      /\ \A i \in Rows : i >= at => pivot < pivot_col[i]
  BY <1>2, InsertionPoint
<1>4. /\ coefficient_rows' = Inserted(coefficient_rows, at, coefficients)
      /\ payload_rows' = Inserted(payload_rows, at, payload)
      /\ pivot_col' = [i \in Cols |-> IF i <= rank
                                      THEN Inserted(pivot_col, at, pivot)[i]
                                      ELSE pivot_col[i]]
  BY DEF Insert
<1> HIDE DEF pivot, at
<1>5. Rows' = 0..rank /\ Rows = 0..(rank - 1)
  BY <1>1 DEF Rows
<1>6. \A i \in 0..rank :
        /\ i < at => i \in Rows
        /\ i > at => i - 1 \in Rows
  BY <1>1, <1>3, <1>5
<1>7. \A i \in 0..rank :
        /\ coefficient_rows'[i] =
             IF i < at THEN coefficient_rows[i]
             ELSE IF i = at THEN coefficients ELSE coefficient_rows[i - 1]
        /\ payload_rows'[i] =
             IF i < at THEN payload_rows[i]
             ELSE IF i = at THEN payload ELSE payload_rows[i - 1]
        /\ pivot_col'[i] =
             IF i < at THEN pivot_col[i]
             ELSE IF i = at THEN pivot ELSE pivot_col[i - 1]
  BY <1>1, <1>4 DEF Inserted, Cols
<1>8. TypeOK'
  <2>1. coefficient_rows' \in [0..(rank' - 1) -> Vector]
    <3>1. \A i \in 0..rank : coefficient_rows'[i] \in Vector
      BY <1>1, <1>3, <1>5, <1>6, <1>7 DEF TypeOK
    <3>2. QED
      BY <1>1, <1>4, <3>1 DEF Inserted
  <2>2. payload_rows' \in [0..(rank' - 1) -> Payload]
    <3>1. \A i \in 0..rank : payload_rows'[i] \in Payload
      BY <1>1, <1>3, <1>5, <1>6, <1>7 DEF TypeOK
    <3>2. QED
      BY <1>1, <1>4, <3>1 DEF Inserted
  <2>3. pivot_col' \in [Cols -> Cols \cup {None}]
    <3>1. \A i \in Rows : pivot_col[i] \in Cols
      BY DEF PivotInv
    <3>2. \A i \in 0..rank : pivot_col'[i] \in Cols
      BY <1>1, <1>2, <1>3, <1>6, <1>7, <3>1
    <3>3. \A i \in Cols : ~(i <= rank) => pivot_col'[i] = pivot_col[i]
      BY <1>4
    <3>4. \A i \in Cols : i <= rank => i \in 0..rank
      BY <1>1 DEF Cols
    <3>5. QED
      BY <1>4, <3>2, <3>3, <3>4 DEF TypeOK
  <2>4. rank' \in 0..K
    BY <1>1
  <2>5. /\ pc' = "idle" /\ ret' = "innovative" /\ decoded' = FALSE
        /\ packet' \in Vector /\ coefficients' \in Vector
        /\ payload' \in Payload /\ r' \in 0..K /\ r2' \in 0..K
    BY <1>1, ZeroTypes DEF Insert, Return
  <2>6. /\ elimination_factors' \in [Cols -> Elem]
        /\ symbols' \in [Cols -> Payload] \cup {None}
    BY <1>1 DEF TypeOK
  <2>7. QED
    BY <2>1, <2>2, <2>3, <2>4, <2>5, <2>6 DEF TypeOK
<1>9. ControlInv' /\ DecodedIsSource' /\ RemainderInv' /\ ReplayInv' /\ BacksubInv'
  BY <1>1
  DEF ControlInv, DecodedIsSource, RemainderInv, ReplayInv, BacksubInv,
      IsComplete
<1>10. PivotInv'
  <2>1. \A i \in Rows : pivot_col[i] \in Cols /\ pivot_col[i] \in Int
    BY SizeAssumption DEF PivotInv, Cols
  <2>2. ASSUME NEW i \in 0..rank
        PROVE  pivot_col'[i] \in Cols
    BY <1>1, <1>2, <1>3, <1>6, <1>7, <2>1
  <2>3. ASSUME NEW i \in 0..rank, NEW j \in 0..rank, i < j
        PROVE  pivot_col'[j] - pivot_col'[i] >= j - i
    \* The distances to and from the new pivot add up across it.
    <3>1. \A h \in Rows : h < at => pivot - pivot_col[h] >= at - h
      <4> SUFFICES ASSUME NEW h \in Rows, h < at
                   PROVE  pivot - pivot_col[h] >= at - h
        OBVIOUS
      <4>1. at - 1 \in Rows /\ pivot_col[at - 1] < pivot
        BY <1>1, <1>3, <1>5
      <4>2. h = at - 1 \/ pivot_col[at - 1] - pivot_col[h] >= (at - 1) - h
        BY <1>1, <1>3, <1>5, <4>1 DEF PivotInv
      <4>3. QED
        BY <1>1, <1>2, <1>3, <1>5, <2>1, <4>1, <4>2
    <3>2. \A h \in Rows : h >= at => pivot_col[h] - pivot >= h + 1 - at
      <4> SUFFICES ASSUME NEW h \in Rows, h >= at
                   PROVE  pivot_col[h] - pivot >= h + 1 - at
        OBVIOUS
      <4>1. at \in Rows /\ pivot < pivot_col[at]
        BY <1>1, <1>3, <1>5
      <4>2. h = at \/ pivot_col[h] - pivot_col[at] >= h - at
        BY <1>1, <1>3, <1>5, <4>1 DEF PivotInv
      <4>3. QED
        BY <1>1, <1>2, <1>3, <1>5, <2>1, <4>1, <4>2
    <3>3. CASE j < at
      <4>1. i \in Rows /\ j \in Rows
        BY <3>3, <1>1, <1>3, <1>5, <2>3
      <4>2. pivot_col'[i] = pivot_col[i] /\ pivot_col'[j] = pivot_col[j]
        BY <3>3, <1>1, <1>3, <1>7, <2>3
      <4>3. QED
        BY <4>1, <4>2, <2>3 DEF PivotInv
    <3>4. CASE j = at
      <4>1. i \in Rows /\ i < at
        BY <3>4, <1>1, <1>3, <1>5, <2>3
      <4>2. pivot_col'[i] = pivot_col[i] /\ pivot_col'[j] = pivot
        BY <3>4, <4>1, <1>1, <1>3, <1>7
      <4>3. QED
        BY <3>1, <3>4, <4>1, <4>2
    <3>5. CASE j > at
      <4>1. j - 1 \in Rows /\ j - 1 >= at /\ pivot_col'[j] = pivot_col[j - 1]
        BY <3>5, <1>1, <1>3, <1>5, <1>7
      <4>2. pivot_col[j - 1] - pivot >= j - at
        BY <3>2, <4>1, <1>1, <1>2, <1>3, <2>1
      <4>3. CASE i < at
        <5>1. i \in Rows /\ pivot_col'[i] = pivot_col[i]
          BY <4>3, <1>1, <1>3, <1>5, <1>7
        <5>2. pivot - pivot_col[i] >= at - i
          BY <3>1, <4>3, <5>1
        <5>3. QED
          BY <4>1, <4>2, <5>1, <5>2, <1>1, <1>2, <1>3, <2>1
      <4>4. CASE i = at
        BY <4>1, <4>2, <4>4, <1>7
      <4>5. CASE i > at
        <5>1. i - 1 \in Rows /\ pivot_col'[i] = pivot_col[i - 1]
          BY <4>5, <1>1, <1>3, <1>5, <1>7
        <5>2. pivot_col[j - 1] - pivot_col[i - 1] >= (j - 1) - (i - 1)
          BY <4>1, <5>1, <2>3 DEF PivotInv
        <5>3. QED
          BY <4>1, <5>1, <5>2
      <4>6. QED
        BY <4>3, <4>4, <4>5, <1>3
    <3>6. QED
      BY <3>3, <3>4, <3>5, <1>3
  <2>4. ASSUME NEW i \in Cols \ (0..rank)
        PROVE  pivot_col'[i] = None
    <3>1. i \notin Rows /\ ~(i <= rank)
      BY <1>1, <1>5 DEF Cols
    <3>2. QED
      BY <1>4, <3>1 DEF PivotInv
  <2>5. QED
    BY <1>5, <2>2, <2>3, <2>4 DEF PivotInv
<1>11. RowInv'
  <2> SUFFICES ASSUME NEW i \in 0..rank
               PROVE  /\ coefficient_rows'[i][pivot_col'[i]] = One
                      /\ \A j \in Cols : j < pivot_col'[i] =>
                           coefficient_rows'[i][j] = Zero
    BY <1>5 DEF RowInv
  <2>1. CASE i = at
    BY <2>1, <1>2, <1>7 DEF pivot
  <2>2. CASE i < at
    BY <2>2, <1>6, <1>7 DEF RowInv
  <2>3. CASE i > at
    <3>1. /\ coefficient_rows'[i] = coefficient_rows[i - 1]
          /\ pivot_col'[i] = pivot_col[i - 1] /\ i - 1 \in Rows
      BY <2>3, <1>1, <1>3, <1>6, <1>7
    <3>2. QED
      BY <3>1 DEF RowInv
  <2>4. QED
    BY <2>1, <2>2, <2>3, <1>3
<1>12. PayloadsFollowCoefficients'
  <2> SUFFICES ASSUME NEW i \in 0..rank
               PROVE  payload_rows'[i] = Code(coefficient_rows'[i])
    BY <1>5 DEF PayloadsFollowCoefficients
  <2>1. payload = Code(coefficients)
    BY <1>1 DEF ReplayInv
  <2>2. CASE i = at
    BY <2>1, <2>2, <1>3, <1>7
  <2>3. CASE i < at
    BY <2>3, <1>6, <1>7 DEF PayloadsFollowCoefficients
  <2>4. CASE i > at
    <3>1. /\ coefficient_rows'[i] = coefficient_rows[i - 1]
          /\ payload_rows'[i] = payload_rows[i - 1] /\ i - 1 \in Rows
      BY <2>4, <1>1, <1>3, <1>6, <1>7
    <3>2. QED
      BY <3>1 DEF PayloadsFollowCoefficients
  <2>5. QED
    BY <2>2, <2>3, <2>4, <1>3
<1>13. QED
  BY <1>8, <1>9, <1>10, <1>11, <1>12

-----------------------------------------------------------------------------
(* decode. *)

(***************************************************************************)
(* decode returns the payload rows once the rows are cleared.              *)
(***************************************************************************)
LEMMA ReturnSymbols ==
  ASSUME IInv, rank = K, Return("symbols"), symbols' = payload_rows,
         UNCHANGED <<coefficient_rows, payload_rows, pivot_col,
                     elimination_factors, rank>>,
         decoded' = TRUE,
         \A i, j \in Cols : i < j => coefficient_rows[i][j] = Zero
  PROVE  IInv'
<1> USE DEF IInv
<1>1. payload_rows = Source
  BY ClearedIsIdentity
<1>2. /\ pc' = "idle" /\ ret' = "symbols"
      /\ packet' \in Vector /\ coefficients' \in Vector
      /\ payload' \in Payload /\ r' \in 0..K /\ r2' \in 0..K
  BY ZeroTypes, SizeAssumption DEF Return
<1>3. symbols' \in [Cols -> Payload]
  BY DEF TypeOK, Cols
<1>4. TypeOK'
  BY <1>2, <1>3 DEF TypeOK
<1>5. ControlInv' /\ RemainderInv' /\ ReplayInv' /\ BacksubInv'
  BY <1>2 DEF ControlInv, RemainderInv, ReplayInv, BacksubInv, IsComplete
<1>6. PivotInv' /\ RowInv' /\ PayloadsFollowCoefficients'
  BY DEF PivotInv, RowInv, PayloadsFollowCoefficients, Rows
<1>7. DecodedIsSource'
  BY <1>1 DEF DecodedIsSource, Source
<1>8. QED
  BY <1>4, <1>5, <1>6, <1>7

LEMMA DecodeAgainIInv ==
  ASSUME IInv, DecodeAgain
  PROVE  IInv'
<1>1. rank = K /\ Return("symbols") /\ symbols' = payload_rows /\ decoded
      /\ UNCHANGED fields
  BY DEF DecodeAgain, IsComplete
<1>2. \A i, j \in Cols : i < j => coefficient_rows[i][j] = Zero
  BY <1>1 DEF IInv, BacksubInv
<1>3. decoded' = TRUE
  BY <1>1 DEF fields, IInv, TypeOK
<1>4. QED
  BY <1>1, <1>2, <1>3, ReturnSymbols DEF fields

LEMMA FinishDecodeIInv ==
  ASSUME IInv, FinishDecode
  PROVE  IInv'
<1>1. /\ pc = "backsub" /\ r = 0 /\ r2 = r
      /\ Return("symbols") /\ symbols' = payload_rows /\ decoded' = TRUE
      /\ UNCHANGED <<coefficient_rows, payload_rows, pivot_col,
                     elimination_factors, rank>>
  BY DEF FinishDecode
<1>2. rank = K
  BY <1>1 DEF IInv, ControlInv, IsComplete
<1>3. \A i, j \in Cols : i < j => coefficient_rows[i][j] = Zero
  BY <1>1, SizeAssumption DEF IInv, BacksubInv, Cols
<1>4. QED
  BY <1>1, <1>2, <1>3, ReturnSymbols

LEMMA BeginDecodeIInv ==
  ASSUME IInv, BeginDecode
  PROVE  IInv'
<1> USE DEF IInv, BeginDecode, fields
<1>1. TypeOK'
  BY SizeAssumption DEF TypeOK
<1>2. ControlInv' /\ RemainderInv' /\ ReplayInv' /\ DecodedIsSource'
  BY SizeAssumption
  DEF ControlInv, RemainderInv, ReplayInv, DecodedIsSource, IsComplete
<1>3. PivotInv' /\ RowInv' /\ PayloadsFollowCoefficients'
  BY FieldsUnchanged
<1>4. BacksubInv'
  BY SizeAssumption DEF BacksubInv, ControlInv, Cols
<1>5. QED
  BY <1>1, <1>2, <1>3, <1>4

LEMMA NextPivotIInv ==
  ASSUME IInv, NextPivot
  PROVE  IInv'
<1> USE DEF IInv, NextPivot, fields
<1>1. TypeOK'
  BY SizeAssumption DEF TypeOK
<1>2. ControlInv' /\ RemainderInv' /\ ReplayInv' /\ DecodedIsSource'
  BY SizeAssumption
  DEF ControlInv, RemainderInv, ReplayInv, DecodedIsSource, IsComplete, TypeOK
<1>3. PivotInv' /\ RowInv' /\ PayloadsFollowCoefficients'
  BY FieldsUnchanged
<1>4. BacksubInv'
  BY SizeAssumption DEF BacksubInv, ControlInv, Cols, TypeOK
<1>5. QED
  BY <1>1, <1>2, <1>3, <1>4

(***************************************************************************)
(* Row r is a unit vector by the time it is used as a pivot row, so        *)
(* subtracting it from row r2 changes column r alone, and clears it.       *)
(***************************************************************************)
LEMMA BackSubstituteEffect ==
  ASSUME IInv, BackSubstitute
  PROVE  /\ r \in Cols /\ r2 \in Cols /\ r2 < r
         /\ coefficient_rows' \in [Cols -> Vector]
         /\ payload_rows' \in [Cols -> Payload]
         /\ \A i \in Cols : payload_rows'[i] = Code(coefficient_rows'[i])
         /\ \A i, j \in Cols : coefficient_rows'[i][j] =
              IF i = r2 /\ j = r THEN Zero ELSE coefficient_rows[i][j]
<1> DEFINE coeff == coefficient_rows[r2][r]
           row   == coefficient_rows[r]
           above == coefficient_rows[r2]
<1> USE DEF IInv
<1>1. /\ r \in Cols /\ r2 \in Cols /\ r2 < r /\ rank = K
      /\ r \in Nat /\ r2 \in Nat /\ Rows = Cols /\ pc = "backsub"
  BY SizeAssumption
  DEF BackSubstitute, ControlInv, TypeOK, Cols, Rows, IsComplete
<1>2. \A i \in Cols : pivot_col[i] = i
  BY <1>1, FullRankPivots
<1>3. /\ coefficient_rows \in [Cols -> Vector]
      /\ payload_rows \in [Cols -> Payload]
  BY <1>1 DEF TypeOK, Cols
<1>4. row \in Vector /\ above \in Vector /\ coeff \in Elem
  BY <1>1, <1>3 DEF Vector
<1>5. \A j \in Cols : row[j] = IF j = r THEN One ELSE Zero
  <2> TAKE j \in Cols
  <2>1. j < r => row[j] = Zero
    BY <1>1, <1>2 DEF RowInv
  <2>2. j > r => row[j] = Zero
    BY <1>1 DEF BacksubInv
  <2>3. row[r] = One
    BY <1>1, <1>2 DEF RowInv
  <2>4. QED
    BY <2>1, <2>2, <2>3, <1>1, SizeAssumption DEF Cols
<1>6. r # None
  BY <1>1, NoneAssumption
<1>7. IF coeff = Zero THEN UNCHANGED <<coefficient_rows, payload_rows>>
      ELSE /\ coefficient_rows' = [coefficient_rows EXCEPT ![r2] =
                                    AxpyFrom(r, coeff, row, above)]
           /\ payload_rows' = [payload_rows EXCEPT ![r2] =
                                Axpy(coeff, payload_rows[r], payload_rows[r2])]
  BY <1>1, <1>2, <1>6 DEF BackSubstitute
<1>8. CASE coeff = Zero
  BY <1>1, <1>3, <1>7, <1>8 DEF PayloadsFollowCoefficients
<1>9. CASE coeff # Zero
  <2> DEFINE new == AxpyFrom(r, coeff, row, above)
  <2>1. new \in Vector /\ new = Axpy(coeff, row, above)
    BY <1>1, <1>4, <1>5, AxpyFromType, AxpySuffix, SizeAssumption DEF Cols
  <2>2. Axpy(coeff, payload_rows[r], payload_rows[r2]) = Code(new)
    BY <1>1, <1>4, <2>1, CodeAssumption DEF PayloadsFollowCoefficients
  <2>3. \A j \in Cols : new[j] = IF j = r THEN Zero ELSE above[j]
    <3> TAKE j \in Cols
    <3>1. new[j] = IF j >= r THEN Plus(above[j], Times(coeff, row[j])) ELSE above[j]
      BY <1>1, <1>4, AxpyFromType
    <3>2. above[j] \in Elem
      BY <1>4 DEF Vector
    <3>3. Plus(coeff, Times(coeff, One)) = Zero
      BY <1>4, FieldAssumption
    <3>4. Plus(above[j], Times(coeff, Zero)) = above[j]
      BY <1>4, <3>2, FieldAssumption
    <3>5. QED
      BY <3>1, <3>3, <3>4, <1>1, <1>5
  <2>4. /\ coefficient_rows' = [coefficient_rows EXCEPT ![r2] = new]
        /\ payload_rows' = [payload_rows EXCEPT ![r2] = Code(new)]
    BY <1>7, <1>9, <2>2
  <2> HIDE DEF new
  <2>5. /\ coefficient_rows' \in [Cols -> Vector]
        /\ payload_rows' \in [Cols -> Payload]
    BY <1>3, <2>1, <2>4, CodeAssumption
  <2>6. \A i \in Cols : payload_rows'[i] = Code(coefficient_rows'[i])
    BY <1>1, <1>3, <2>4 DEF PayloadsFollowCoefficients
  <2>7. \A i, j \in Cols : coefficient_rows'[i][j] =
          IF i = r2 /\ j = r THEN Zero ELSE coefficient_rows[i][j]
    BY <1>1, <1>3, <2>3, <2>4
  <2>8. QED
    BY <1>1, <2>5, <2>6, <2>7
<1>10. QED
  BY <1>8, <1>9

LEMMA BackSubstituteIInv ==
  ASSUME IInv, BackSubstitute
  PROVE  IInv'
<1> USE DEF IInv
<1>1. /\ r \in Cols /\ r2 \in Cols /\ r2 < r
      /\ coefficient_rows' \in [Cols -> Vector]
      /\ payload_rows' \in [Cols -> Payload]
      /\ \A i \in Cols : payload_rows'[i] = Code(coefficient_rows'[i])
      /\ \A i, j \in Cols : coefficient_rows'[i][j] =
           IF i = r2 /\ j = r THEN Zero ELSE coefficient_rows[i][j]
  BY BackSubstituteEffect
<1>2. /\ pc = "backsub" /\ r2' = r2 + 1 /\ rank = K
      /\ UNCHANGED <<pivot_col, elimination_factors, rank, decoded, pc, packet,
                     coefficients, payload, r, ret, symbols>>
      /\ Rows = Cols /\ Rows' = Cols
  BY DEF BackSubstitute, ControlInv, IsComplete, Rows, Cols
<1>3. TypeOK'
  <2>1. r2' \in 0..K
    BY <1>1, <1>2, SizeAssumption DEF Cols
  <2>2. QED
    BY <1>1, <1>2, <2>1 DEF TypeOK, Cols
<1>4. ControlInv' /\ RemainderInv' /\ ReplayInv' /\ DecodedIsSource'
  BY <1>1, <1>2, SizeAssumption
  DEF ControlInv, RemainderInv, ReplayInv, DecodedIsSource, IsComplete, Cols
<1>5. PivotInv' /\ PayloadsFollowCoefficients'
  BY <1>1, <1>2 DEF PivotInv, PayloadsFollowCoefficients
<1>6. RowInv'
  <2>1. \A i \in Cols : pivot_col[i] = i
    BY <1>2, FullRankPivots
  <2>2. QED
    BY <1>1, <1>2, <2>1, SizeAssumption DEF RowInv, Cols
<1>7. BacksubInv'
  BY <1>1, <1>2, SizeAssumption DEF BacksubInv, Cols
<1>8. QED
  BY <1>3, <1>4, <1>5, <1>6, <1>7

-----------------------------------------------------------------------------
(* The theorems. *)

LEMMA StepIInv == IInv /\ [Next]_vars => IInv'
<1> SUFFICES ASSUME IInv, [Next]_vars
             PROVE  IInv'
  OBVIOUS
<1>1. CASE UNCHANGED vars
  <2> USE <1>1 DEF IInv, vars
  <2>1. TypeOK' /\ ControlInv' /\ DecodedIsSource' /\ BacksubInv'
    BY DEF TypeOK, ControlInv, DecodedIsSource, BacksubInv, IsComplete
  <2>2. PivotInv' /\ RowInv' /\ PayloadsFollowCoefficients'
    BY FieldsUnchanged DEF fields
  <2>3. RemainderInv' /\ ReplayInv'
    BY DEF RemainderInv, ReplayInv, Trail, Rows, PivotOf
  <2>4. QED
    BY <2>1, <2>2, <2>3
<1>2. ASSUME NEW c \in Vector, Receive(c)
      PROVE  IInv'
  BY <1>2, ReceiveIInv
<1>3. ASSUME NEW cl \in 0..(K + 1), NEW pl \in 0..(N + 1), ReceiveMismatch(cl, pl)
      PROVE  IInv'
  BY <1>3, PlainReturn DEF ReceiveMismatch
<1>4. CASE DecodeIncomplete
  BY <1>4, PlainReturn DEF DecodeIncomplete
<1>5. CASE DecodeAgain
  BY <1>5, DecodeAgainIInv
<1>6. CASE BeginDecode
  BY <1>6, BeginDecodeIInv
<1>7. CASE ReceiveWhenComplete
  BY <1>7, PlainReturn DEF ReceiveWhenComplete
<1>8. CASE BeginReduce
  BY <1>8, BeginReduceIInv
<1>9. CASE Reduce
  BY <1>9, ReduceIInv
<1>10. CASE Dependent
  BY <1>10, PlainReturn DEF Dependent
<1>11. CASE BeginPayload
  BY <1>11, BeginPayloadIInv
<1>12. CASE ReducePayload
  BY <1>12, ReducePayloadIInv
<1>13. CASE Normalise
  BY <1>13, NormaliseIInv
<1>14. CASE Insert
  BY <1>14, InsertIInv
<1>15. CASE BackSubstitute
  BY <1>15, BackSubstituteIInv
<1>16. CASE NextPivot
  BY <1>16, NextPivotIInv
<1>17. CASE FinishDecode
  BY <1>17, FinishDecodeIInv
<1>18. QED
  BY <1>1, <1>2, <1>3, <1>4, <1>5, <1>6, <1>7, <1>8, <1>9, <1>10, <1>11,
     <1>12, <1>13, <1>14, <1>15, <1>16, <1>17 DEF Next, Call, Step

(***************************************************************************)
(* The inductive invariant holds throughout: at every point of every call  *)
(* of receive and decode the decoder is where its loops expect it to be.   *)
(***************************************************************************)
THEOREM DecoderInvariance == Spec => []IInv
<1>1. QED
  BY InitIInv, StepIInv, PTL DEF Spec

(***************************************************************************)
(* Every field and local of the decoder keeps its type; in particular rank *)
(* never exceeds K and no index leaves its vector.                         *)
(***************************************************************************)
THEOREM TypeCorrect == Spec => []TypeOK
<1>1. IInv => TypeOK
  BY DEF IInv
<1>2. QED
  BY <1>1, DecoderInvariance, PTL

(***************************************************************************)
(* The stored rows are always in row echelon form (decoder.rs:183).        *)
(***************************************************************************)
THEOREM EchelonForm == Spec => []RowsInEchelonForm
<1>1. IInv => RowsInEchelonForm
  <2> SUFFICES ASSUME IInv
               PROVE  RowsInEchelonForm
    OBVIOUS
  <2> USE DEF IInv
  <2>1. \A i \in Rows :
          /\ pivot_col[i] \in Cols
          /\ coefficient_rows[i][pivot_col[i]] = One
          /\ \A j \in 0..(pivot_col[i] - 1) : coefficient_rows[i][j] = Zero
    BY SizeAssumption DEF PivotInv, RowInv, Cols
  <2>2. ASSUME NEW i \in Rows, NEW j \in Rows, i < j
        PROVE  pivot_col[i] < pivot_col[j]
    <3>1. pivot_col[j] - pivot_col[i] >= j - i
      BY <2>2 DEF PivotInv
    <3>2. pivot_col[i] \in Int /\ pivot_col[j] \in Int /\ i \in Int /\ j \in Int
      BY SizeAssumption DEF PivotInv, Cols, Rows, TypeOK
    <3>3. QED
      BY <2>2, <3>1, <3>2
  <2>3. \A i \in Cols \ Rows : pivot_col[i] = None
    BY DEF PivotInv
  <2>4. QED
    BY <2>1, <2>2, <2>3 DEF RowsInEchelonForm
<1>2. QED
  BY <1>1, DecoderInvariance, PTL

(***************************************************************************)
(* A complete decoder has pivot i in row i (decoder.rs:203).               *)
(***************************************************************************)
THEOREM CompleteIsIdentity == Spec => []FullRankIsIdentity
<1>1. IInv => FullRankIsIdentity
  BY FullRankPivots DEF IInv, FullRankIsIdentity, IsComplete
<1>2. QED
  BY <1>1, DecoderInvariance, PTL

(***************************************************************************)
(* The payload of every stored row is the code of its coefficients.        *)
(***************************************************************************)
THEOREM PayloadsFollow == Spec => []PayloadsFollowCoefficients
<1>1. IInv => PayloadsFollowCoefficients
  BY DEF IInv
<1>2. QED
  BY <1>1, DecoderInvariance, PTL

(***************************************************************************)
(* decode skips back-substitution only when there is nothing left to do.   *)
(***************************************************************************)
THEOREM FlagIsValid == Spec => []DecodedFlagIsValid
<1>1. IInv => DecodedFlagIsValid
  BY ClearedIsIdentity DEF IInv, DecodedFlagIsValid, ControlInv, BacksubInv,
     IsComplete
<1>2. QED
  BY <1>1, DecoderInvariance, PTL

(***************************************************************************)
(* Functional correctness: whatever packets of one sender the decoder is   *)
(* given, what decode returns are that sender's source symbols.            *)
(***************************************************************************)
THEOREM DecodeReturnsSource == Spec => []DecodedIsSource
<1>1. IInv => DecodedIsSource
  BY DEF IInv
<1>2. QED
  BY <1>1, DecoderInvariance, PTL
-----------------------------------------------------------------------------
LEMMA NearerTriple ==
  ASSUME NEW m \in Countdowns(3), NEW n \in Countdowns(3),
         m[1] < n[1] \/ (m[1] = n[1] /\ (m[2] < n[2] \/ (m[2] = n[2] /\ m[3] < n[3])))
  PROVE  Nearer(3, m, n)
<1>1. \E j \in 1..3 : /\ \A i \in 1..(j - 1) : m[i] = n[i]
                      /\ <<m[j], n[j]>> \in OpToRel(<, Nat)
  BY DEF OpToRel, Countdowns
<1>2. QED
  BY <1>1 DEF Nearer, Descent, LexProductOrdering, Countdowns

(***************************************************************************)
(* The order of module Countdown is well-founded for tuples of any length, *)
(* so that nothing descends in it for ever. It says nothing of a program:  *)
(* that each step descends is shown of each component by itself.           *)
(***************************************************************************)
LEMMA CountdownsEnd == \A d \in Nat : IsWellFoundedOn(Descent(d), Countdowns(d))
BY NatLessThanWellFounded, WFLexProductOrdering DEF Descent, Countdowns

LEMMA StepsLeftType == IInv => StepsLeft \in Countdowns(3)
<1> SUFFICES ASSUME IInv
             PROVE  StepsLeft \in Countdowns(3)
  OBVIOUS
<1>1. /\ K \in Nat /\ rank \in 0..K /\ r \in 0..K /\ r2 \in 0..K
      /\ pc \in {"reduce", "payload"} => rank - r \in Nat
      /\ pc = "backsub" => r - r2 \in Nat
      /\ pc \in {"idle", "receive", "reduce", "payload", "insert", "backsub"}
  BY SizeAssumption DEF IInv, TypeOK, ControlInv
<1>2. \A x, y, z \in Nat : <<x, y, z>> \in Countdowns(3)
  BY DEF Countdowns
<1>3. CASE pc \in {"reduce", "payload"}
  BY <1>1, <1>2, <1>3 DEF StepsLeft
<1>4. CASE pc = "backsub"
  BY <1>1, <1>2, <1>4 DEF StepsLeft
<1>5. CASE pc \in {"idle", "receive", "insert"}
  BY <1>1, <1>2, <1>5 DEF StepsLeft
<1>6. QED
  BY <1>1, <1>3, <1>4, <1>5

(***************************************************************************)
(* Each step of a call is nearer to the end of the call.                   *)
(***************************************************************************)
LEMMA StepDescends ==
  ASSUME IInv, StepsLeft \in Countdowns(3), StepsLeft' \in Countdowns(3), Step
  PROVE  Nearer(3, StepsLeft', StepsLeft)
<1> DEFINE m == StepsLeft'
           n == StepsLeft
<1> SUFFICES m[1] < n[1] \/ (m[1] = n[1] /\ (m[2] < n[2] \/ (m[2] = n[2] /\ m[3] < n[3])))
  BY NearerTriple
<1>0. /\ K \in Nat /\ rank \in 0..K /\ r \in 0..K /\ r2 \in 0..K
      /\ pc \in {"reduce", "payload"} => r <= rank
      /\ pc = "backsub" => r2 <= r
  BY SizeAssumption DEF IInv, TypeOK, ControlInv
<1>1. CASE ReceiveWhenComplete
  <2>1. StepsLeft = <<4, 0, 0>> /\ StepsLeft' = <<0, 0, 0>>
    BY <1>1 DEF StepsLeft, ReceiveWhenComplete, Return
  <2>2. QED
    BY <2>1
<1>2. CASE BeginReduce
  <2>1. StepsLeft = <<4, 0, 0>> /\ StepsLeft' = <<3, rank, 0>>
    BY <1>0, <1>2 DEF StepsLeft, BeginReduce, fields
  <2>2. QED
    BY <1>0, <2>1
<1>3. CASE Reduce
  <2>1. StepsLeft = <<3, rank - r, 0>> /\ StepsLeft' = <<3, rank - (r + 1), 0>>
    BY <1>3 DEF StepsLeft, Reduce
  <2>2. rank - r \in Nat /\ rank - (r + 1) \in Nat /\ rank - (r + 1) < rank - r
    BY <1>0, <1>3 DEF Reduce
  <2>3. QED
    BY <2>1, <2>2
<1>4. CASE Dependent
  <2>1. StepsLeft = <<3, rank - r, 0>> /\ StepsLeft' = <<0, 0, 0>>
    BY <1>4 DEF StepsLeft, Dependent, Return
  <2>2. rank - r \in Nat
    BY <1>0, <1>4 DEF Dependent
  <2>3. QED
    BY <2>1, <2>2
<1>5. CASE BeginPayload
  <2>1. StepsLeft = <<3, rank - r, 0>> /\ StepsLeft' = <<2, rank, 0>>
    BY <1>0, <1>5 DEF StepsLeft, BeginPayload, fields
  <2>2. rank - r \in Nat
    BY <1>0, <1>5 DEF BeginPayload
  <2>3. QED
    BY <1>0, <2>1, <2>2
<1>6. CASE ReducePayload
  <2>1. StepsLeft = <<2, rank - r, 0>> /\ StepsLeft' = <<2, rank - (r + 1), 0>>
    BY <1>6 DEF StepsLeft, ReducePayload, fields
  <2>2. rank - r \in Nat /\ rank - (r + 1) \in Nat /\ rank - (r + 1) < rank - r
    BY <1>0, <1>6 DEF ReducePayload
  <2>3. QED
    BY <2>1, <2>2
<1>7. CASE Normalise
  <2>1. StepsLeft = <<2, rank - r, 0>> /\ StepsLeft' = <<1, 0, 0>>
    BY <1>7 DEF StepsLeft, Normalise
  <2>2. rank - r \in Nat
    BY <1>0, <1>7 DEF Normalise
  <2>3. QED
    BY <2>1, <2>2
<1>8. CASE Insert
  <2>1. StepsLeft = <<1, 0, 0>> /\ StepsLeft' = <<0, 0, 0>>
    BY <1>8 DEF StepsLeft, Insert, Return
  <2>2. QED
    BY <2>1
<1>9. CASE BackSubstitute
  <2>1. StepsLeft = <<1, r, r - r2>> /\ StepsLeft' = <<1, r, r - (r2 + 1)>>
    BY <1>9 DEF StepsLeft, BackSubstitute
  <2>2. r - r2 \in Nat /\ r - (r2 + 1) \in Nat /\ r - (r2 + 1) < r - r2
    BY <1>0, <1>9 DEF BackSubstitute
  <2>3. QED
    BY <1>0, <2>1, <2>2
<1>10. CASE NextPivot
  <2>1. StepsLeft = <<1, r, r - r2>> /\ StepsLeft' = <<1, r - 1, r - 1>>
    BY <1>0, <1>10 DEF StepsLeft, NextPivot
  <2>2. r - r2 \in Nat /\ r - 1 \in Nat /\ r - 1 < r
    BY <1>0, <1>10 DEF NextPivot
  <2>3. QED
    BY <1>0, <2>1, <2>2
<1>11. CASE FinishDecode
  <2>1. StepsLeft = <<1, r, r - r2>> /\ StepsLeft' = <<0, 0, 0>>
    BY <1>11 DEF StepsLeft, FinishDecode, Return
  <2>2. r - r2 \in Nat
    BY <1>0, <1>11 DEF FinishDecode
  <2>3. QED
    BY <1>0, <2>1, <2>2
<1>12. QED
  BY <1>1, <1>2, <1>3, <1>4, <1>5, <1>6, <1>7, <1>8, <1>9, <1>10, <1>11 DEF Step

(***************************************************************************)
(* receive and decode never go round in circles: every step of a call      *)
(* descends in an order in which nothing descends for ever. That the call  *)
(* is given its steps is all that is left to fairness.                     *)
(***************************************************************************)
THEOREM DecoderCountsDown == Spec => StepsCountDown
<1> DEFINE Typed == StepsLeft \in Countdowns(3)
<1>1. IInv /\ Typed /\ Typed' /\ [Next]_vars
        => [pc # "idle" => Nearer(3, StepsLeft', StepsLeft)]_vars
  <2> SUFFICES ASSUME IInv, Typed, Typed', Next, pc # "idle"
               PROVE  Nearer(3, StepsLeft', StepsLeft)
    OBVIOUS
  <2>1. ~Call
    BY DEF Call, Receive, ReceivePacket, ReceiveMismatch, DecodeIncomplete, DecodeAgain,
           BeginDecode
  <2>2. QED
    BY <2>1, StepDescends DEF Next
<1>2. IInv => Typed
  BY StepsLeftType
<1> HIDE DEF Typed
<1>3. QED
  BY <1>1, <1>2, DecoderInvariance, PTL DEF Spec, StepsCountDown
=============================================================================
