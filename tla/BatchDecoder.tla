---------------------------- MODULE BatchDecoder ----------------------------
(***************************************************************************)
(* The decoder of the multithreaded benchmark (rlnc-simdx-mt-bench,        *)
(* DecodeState): all the packets of a generation at once, coefficients and *)
(* payloads in separate rows, forward elimination and then back            *)
(* substitution. A worker decodes its fixture over and over in the same    *)
(* rows.                                                                   *)
(***************************************************************************)
EXTENDS LinearAlgebra, Countdown

CONSTANT Fixtures  \* the coefficients of a generation of packets

ASSUME FixturesAssumption == Fixtures \subseteq [Cols -> Vector]

VARIABLES
  fixture,       \* the coefficients; packet i carries Code(fixture[i])
  coefficient_rows, payload_rows,
  dec_pc,        \* "idle", "pivot", "clear" (below a pivot), "back"
  column, rank,  \* rank is the pivot's row, in "back" too
  target,
  decoded        \* what the last decode returned: "none", "true", "false"

batchVars == <<fixture, coefficient_rows, payload_rows, dec_pc, column, rank,
               target, decoded>>

(* Fixture::new and DecodeState::new. *)
BatchInit ==
  /\ fixture \in Fixtures
  /\ coefficient_rows = [i \in Cols |-> ZeroVector]
  /\ payload_rows = [i \in Cols |-> ZeroPayload]
  /\ dec_pc = "idle"
  /\ column = 0 /\ rank = 0 /\ target = 0
  /\ decoded = "none"

Returns(answer) ==
  /\ dec_pc' = "idle"
  /\ column' = 0 /\ rank' = 0 /\ target' = 0
  /\ decoded' = answer

(* Mutant: the payloads of the last decode are still there. *)
BeginWithoutPayloads ==
  /\ dec_pc = "idle"
  /\ dec_pc' = "pivot"
  /\ coefficient_rows' = fixture
  /\ decoded' = "none"
  /\ UNCHANGED <<fixture, payload_rows, column, rank, target>>

BeginBatch ==
  /\ dec_pc = "idle"
  /\ dec_pc' = "pivot"
  /\ coefficient_rows' = fixture
  /\ payload_rows' = [i \in Cols |-> Code(fixture[i])]
  /\ decoded' = "none"
  /\ UNCHANGED <<fixture, column, rank, target>>

-----------------------------------------------------------------------------
(* rows.swap(a, b) *)
Swap(rows, a, b) == [rows EXCEPT ![a] = rows[b], ![b] = rows[a]]

PivotRows == {i \in rank..(K - 1) : coefficient_rows[i][column] # Zero}

(* continue *)
SkipColumn ==
  /\ dec_pc = "pivot" /\ column < K
  /\ PivotRows = {}
  /\ column' = column + 1
  /\ UNCHANGED <<fixture, coefficient_rows, payload_rows, dec_pc, rank, target, decoded>>

(* The first row with an entry in the column goes to rank and is divided by *)
(* the entry, if that is not 1: its coefficients from the column on, and    *)
(* all of its payload.                                                      *)
TakePivotRow ==
  /\ dec_pc = "pivot" /\ column < K
  /\ \E pivot \in PivotRows :
       /\ \A i \in PivotRows : pivot <= i
       /\ LET crows == Swap(coefficient_rows, rank, pivot)
              prows == Swap(payload_rows, rank, pivot)
              value == crows[rank][column]
          IN  IF value = One
              THEN coefficient_rows' = crows /\ payload_rows' = prows
              ELSE /\ coefficient_rows' =
                        [crows EXCEPT ![rank] = ScaleFrom(column, Reciprocal(value), @)]
                   /\ payload_rows' =
                        [prows EXCEPT ![rank] = Scale(Reciprocal(value), @)]
  /\ dec_pc' = "clear"
  /\ target' = rank + 1
  /\ UNCHANGED <<fixture, column, rank, decoded>>

(* Both axpy_rows, of row source into row target, when there is something   *)
(* to clear. The coefficients begin at the column start.                    *)
Eliminate(source, start) ==
  LET c == coefficient_rows[target][start]
  IN  IF c = Zero THEN UNCHANGED <<coefficient_rows, payload_rows>>
      ELSE /\ coefficient_rows' =
                [coefficient_rows EXCEPT
                   ![target] = AxpyFrom(start, c, coefficient_rows[source], @)]
           /\ payload_rows' =
                [payload_rows EXCEPT ![target] = Axpy(c, payload_rows[source], @)]

ClearBelow ==
  /\ dec_pc = "clear" /\ target < K
  /\ Eliminate(rank, column)
  /\ target' = target + 1
  /\ UNCHANGED <<fixture, dec_pc, column, rank, decoded>>

(* The loop ends early at full rank.                                        *)
NextPivotColumn ==
  /\ dec_pc = "clear" /\ target = K
  /\ target' = 0
  /\ IF rank + 1 = K
     THEN dec_pc' = "back" /\ UNCHANGED rank
     ELSE dec_pc' = "pivot" /\ rank' = rank + 1
  /\ column' = column + 1
  /\ UNCHANGED <<fixture, coefficient_rows, payload_rows, decoded>>

RankDeficient ==
  /\ dec_pc = "pivot" /\ column = K
  /\ Returns("false")
  /\ UNCHANGED <<fixture, coefficient_rows, payload_rows>>

-----------------------------------------------------------------------------
ClearAbove ==
  /\ dec_pc = "back" /\ target < rank
  /\ Eliminate(rank, rank)
  /\ target' = target + 1
  /\ UNCHANGED <<fixture, dec_pc, column, rank, decoded>>

(* Mutant: the loop over the pivots ends before pivot 1. *)
PreviousPivotShort ==
  /\ dec_pc = "back" /\ target = rank
  /\ IF rank > 2
     THEN /\ rank' = rank - 1 /\ target' = 0
          /\ UNCHANGED <<dec_pc, column, decoded>>
     ELSE Returns("true")
  /\ UNCHANGED <<fixture, coefficient_rows, payload_rows>>

PreviousPivot ==
  /\ dec_pc = "back" /\ target = rank
  /\ IF rank > 0
     THEN /\ rank' = rank - 1 /\ target' = 0
          /\ UNCHANGED <<dec_pc, column, decoded>>
     ELSE Returns("true")
  /\ UNCHANGED <<fixture, coefficient_rows, payload_rows>>

BatchNext ==
  \/ BeginBatch
  \/ SkipColumn \/ TakePivotRow \/ ClearBelow \/ NextPivotColumn \/ RankDeficient
  \/ ClearAbove \/ PreviousPivot

BatchSpec == BatchInit /\ [][BatchNext]_batchVars

-----------------------------------------------------------------------------
(* The rows of a matrix m are linearly independent.                         *)
Independent(m) ==
  LET Combination(a) ==
        LET sum[n \in 0..K] == IF n = 0 THEN ZeroVector
                               ELSE Axpy(a[n - 1], m[n - 1], sum[n - 1])
        IN  sum[K]
  IN  \A a \in Vector : Combination(a) = ZeroVector => a = ZeroVector

(* decode returns true exactly for independent packets, and then, even in   *)
(* the rows a former decode has used, payload row i is source symbol i.     *)
BatchIsExact ==
  /\ decoded = "true" => Independent(fixture) /\ payload_rows = Source
  /\ decoded = "false" => ~Independent(fixture)

(* At every step a payload row is what its coefficients say, although the   *)
(* two are swapped, scaled and added to in separate calls.                  *)
RowsBelongTogether ==
  \A i \in Cols : payload_rows[i] = Code(coefficient_rows[i])

(* How far decode is from its end: back substitution to come; the columns,  *)
(* or the pivots to substitute, left; and the rows left to clear, after a   *)
(* pivot has been looked for.                                               *)
BatchStepsLeft ==
  CASE dec_pc = "idle"  -> <<0, 0, 0>>
    [] dec_pc = "pivot" -> <<2, K - column, K + 1>>
    [] dec_pc = "clear" -> <<2, K - column, K - target>>
    [] dec_pc = "back"  -> <<1, rank, rank - target>>

(* Every iteration of decode brings its end nearer: skipped columns, the    *)
(* early end at full rank and back substitution included.                   *)
BatchCountsDown ==
  [][dec_pc # "idle" => Nearer(3, BatchStepsLeft', BatchStepsLeft)]_batchVars
=============================================================================
