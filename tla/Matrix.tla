------------------------------- MODULE Matrix -------------------------------
(***************************************************************************)
(* GfMatrix of rlnc-simdx (matrix.rs): rows padded to a multiple of the    *)
(* alignment in one flat buffer, the elementary row operations on it, and  *)
(* gaussian_elimination, one step for each iteration of its loops. Every   *)
(* row operation of the elimination starts at the pivot's column rounded   *)
(* down to the alignment.                                                  *)
(***************************************************************************)
EXTENDS Field, Countdown

CONSTANTS
  MatRows, MatCols,  \* rows, cols
  Align,             \* ALIGN of aligned.rs, 64
  NoRank             \* no elimination has ended since the last change

ASSUME MatrixAssumption ==
  /\ MatRows \in Nat \ {0} /\ MatCols \in Nat \ {0} /\ Align \in Nat \ {0}
  /\ NoRank \notin Nat

VARIABLES
  data,       \* the buffer, rows * stride bytes
  mat_pc,     \* "idle" between calls, "find" and "clear" in the elimination
  col, pivot_row, row,  \* its loop indices
  mat_rank,   \* what the last elimination returned
  made        \* history: the matrix as the caller made it

matrixVars == <<data, mat_pc, col, pivot_row, row, mat_rank, made>>

RowIds == 0..(MatRows - 1)
ColIds == 0..(MatCols - 1)

(* padded_stride: cols rounded up to a multiple of ALIGN. *)
Stride == ((MatCols + Align - 1) \div Align) * Align
Buffer == [0..(MatRows * Stride - 1) -> Elem]

(* Mutant: rows are addressed as if they were not padded. *)
AtUnpadded(r, j) == r * MatCols + j

At(r, j) == r * Stride + j

(* Mutant: rounded up. *)
OperationStartRoundedUp(c) == ((c + Align - 1) \div Align) * Align

(* col & !(ALIGN - 1) *)
OperationStart(c) == (c \div Align) * Align

MatrixTypeOK ==
  /\ data \in Buffer /\ made \in Buffer
  /\ mat_pc \in {"idle", "find", "clear"}
  /\ col \in 0..MatCols
  /\ pivot_row \in 0..MatRows
  /\ row \in 0..MatRows
  /\ mat_rank \in 0..MatRows \cup {NoRank}

-----------------------------------------------------------------------------
(* The row operations, on a buffer d. *)

(* The slice off + start..off + cols of row r; the padding is beyond it. *)
Slice(r, start) == At(r, start)..(At(r, MatCols) - 1)

(* row_axpy_from *)
RowAxpyFrom(d, dst, c, src, start) ==
  [i \in DOMAIN d |->
     IF i \in Slice(dst, start)
     THEN Plus(d[i], Times(c, d[At(src, i - At(dst, 0))])) ELSE d[i]]

(* row_scale_from *)
RowScaleFrom(d, r, c, start) ==
  [i \in DOMAIN d |-> IF i \in Slice(r, start) THEN Times(c, d[i]) ELSE d[i]]

(* swap_rows exchanges whole strides. *)
Swapped(d, a, b) ==
  [i \in DOMAIN d |->
     CASE i \div Stride = a -> d[At(b, i % Stride)]
       [] i \div Stride = b /\ a # b -> d[At(a, i % Stride)]
       [] OTHER -> d[i]]

-----------------------------------------------------------------------------
(* zeros, or identity for a square matrix *)
ZeroBuffer == [i \in 0..(MatRows * Stride - 1) |-> Zero]

Identity ==
  [i \in 0..(MatRows * Stride - 1) |->
     IF \E r \in RowIds : i = r * Stride + r THEN One ELSE Zero]

MatrixInit ==
  /\ data = ZeroBuffer \/ (MatRows = MatCols /\ data = Identity)
  /\ made = data
  /\ mat_pc = "idle"
  /\ col = 0 /\ pivot_row = 0 /\ row = 0
  /\ mat_rank = NoRank

(* A method that leaves the buffer as d. *)
Change(d) ==
  /\ mat_pc = "idle"
  /\ data' = d
  /\ made' = d
  /\ mat_rank' = NoRank
  /\ UNCHANGED <<mat_pc, col, pivot_row, row>>

(* A write through row_mut. *)
Write(r, j, v) == Change([data EXCEPT ![At(r, j)] = v])

(* row_axpy asserts that dst and src differ. *)
RowAxpy(dst, c, src) == dst # src /\ Change(RowAxpyFrom(data, dst, c, src, 0))

RowScale(r, c) == Change(RowScaleFrom(data, r, c, 0))

SwapRows(a, b) == Change(Swapped(data, a, b))

-----------------------------------------------------------------------------
(* gaussian_elimination *)

BeginElimination ==
  /\ mat_pc = "idle"
  /\ mat_pc' = "find"
  /\ col' = 0 /\ pivot_row' = 0
  /\ made' = data
  /\ mat_rank' = NoRank
  /\ UNCHANGED <<data, row>>

(* The rows find looks through that have an entry in the column. *)
Candidates == {r \in pivot_row..(MatRows - 1) : data[At(r, col)] # Zero}

(* Mutant: a column without a pivot is counted. *)
NoPivotCounted ==
  /\ mat_pc = "find"
  /\ col < MatCols
  /\ Candidates = {}
  /\ col' = col + 1
  /\ pivot_row' = pivot_row + 1
  /\ UNCHANGED <<data, mat_pc, row, mat_rank, made>>

NoPivot ==
  /\ mat_pc = "find"
  /\ col < MatCols
  /\ Candidates = {}
  /\ col' = col + 1
  /\ UNCHANGED <<data, mat_pc, pivot_row, row, mat_rank, made>>

(* Move the first candidate to pivot_row and divide it by its pivot. *)
TakePivot ==
  /\ mat_pc = "find"
  /\ col < MatCols
  /\ \E r \in Candidates :
       /\ \A q \in Candidates : r <= q
       /\ LET d     == Swapped(data, r, pivot_row)
              pivot == d[At(pivot_row, col)]
          IN  data' = IF pivot = One THEN d
                      ELSE RowScaleFrom(d, pivot_row, Reciprocal(pivot),
                                        OperationStart(col))
  /\ mat_pc' = "clear"
  /\ row' = 0
  /\ UNCHANGED <<col, pivot_row, mat_rank, made>>

(* Mutant: only the rows below the pivot are cleared. *)
ClearRowBelow ==
  /\ mat_pc = "clear"
  /\ row < MatRows
  /\ data' = IF row <= pivot_row THEN data
             ELSE RowAxpyFrom(data, row, data[At(row, col)], pivot_row,
                              OperationStart(col))
  /\ row' = row + 1
  /\ UNCHANGED <<mat_pc, col, pivot_row, mat_rank, made>>

(* One iteration of the loop over r2. *)
ClearRow ==
  /\ mat_pc = "clear"
  /\ row < MatRows
  /\ LET coeff == data[At(row, col)]
     IN  data' = IF row = pivot_row \/ coeff = Zero THEN data
                 ELSE RowAxpyFrom(data, row, coeff, pivot_row, OperationStart(col))
  /\ row' = row + 1
  /\ UNCHANGED <<mat_pc, col, pivot_row, mat_rank, made>>

NextColumn ==
  /\ mat_pc = "clear"
  /\ row = MatRows
  /\ mat_pc' = "find"
  /\ pivot_row' = pivot_row + 1
  /\ col' = col + 1
  /\ row' = 0
  /\ UNCHANGED <<data, mat_rank, made>>

FinishElimination ==
  /\ mat_pc = "find"
  /\ col = MatCols
  /\ mat_pc' = "idle"
  /\ mat_rank' = pivot_row
  /\ col' = 0 /\ pivot_row' = 0
  /\ UNCHANGED <<data, row, made>>

-----------------------------------------------------------------------------
MatrixCall ==
  \/ \E r \in RowIds, j \in ColIds, v \in Elem : Write(r, j, v)
  \/ \E dst, src \in RowIds, c \in Elem : RowAxpy(dst, c, src)
  \/ \E r \in RowIds, c \in Elem : RowScale(r, c)
  \/ \E a, b \in RowIds : SwapRows(a, b)
  \/ BeginElimination

MatrixStep ==
  NoPivot \/ TakePivot \/ ClearRow \/ NextColumn \/ FinishElimination

MatrixNext == MatrixCall \/ MatrixStep

MatrixSpec == MatrixInit /\ [][MatrixNext]_matrixVars

(* Mutant: the last row is not looked at. *)
IsFullRankButLast ==
  \A r \in 0..(MatRows - 2) : \E j \in ColIds : data[At(r, j)] # Zero

(* is_full_rank *)
IsFullRank == \A r \in RowIds : \E j \in ColIds : data[At(r, j)] # Zero

-----------------------------------------------------------------------------
(* The span of the rows of d, one row after the other. *)
RowSpace(d) ==
  LET span[n \in 0..MatRows] ==
        IF n = 0 THEN {[j \in ColIds |-> Zero]}
        ELSE {[j \in ColIds |-> Plus(u[j], Times(a, d[At(n - 1, j)]))] :
                a \in Elem, u \in span[n - 1]}
  IN  span[MatRows]

(***************************************************************************)
(* At every step of the elimination the rows of the buffer span what the   *)
(* caller's rows span: no swap, scaling or partial axpy loses or adds      *)
(* anything, although each leaves out the columns before the aligned start.*)
(***************************************************************************)
RowSpaceKept == RowSpace(data) = RowSpace(made)

(***************************************************************************)
(* The rank returned is the dimension of the space of the caller's rows:   *)
(* that space has a member for each choice of rank elements.               *)
(***************************************************************************)
RankIsRowRank ==
  mat_rank # NoRank =>
    Cardinality(RowSpace(made)) = Cardinality([0..(mat_rank - 1) -> Elem])

(***************************************************************************)
(* The elimination leaves the reduced row echelon form: pivots ascend and  *)
(* are alone in their columns, and the rows from rank on are zero.         *)
(***************************************************************************)
FullyReduced ==
  mat_rank # NoRank =>
    \E p \in [0..(mat_rank - 1) -> ColIds] :
      /\ \A r, q \in DOMAIN p : r < q => p[r] < p[q]
      /\ \A r \in DOMAIN p :
           /\ \A j \in ColIds : j < p[r] => data[At(r, j)] = Zero
           /\ \A q \in RowIds :
                data[At(q, p[r])] = IF q = r THEN One ELSE Zero
      /\ \A r \in mat_rank..(MatRows - 1), j \in ColIds : data[At(r, j)] = Zero

(* Some row of d is in the span of the others.                             *)
Without(d, r) == [i \in DOMAIN d |-> IF i \div Stride = r THEN Zero ELSE d[i]]

DependentRows(d) ==
  \E r \in RowIds : [j \in ColIds |-> d[At(r, j)]] \in RowSpace(Without(d, r))

(***************************************************************************)
(* is_full_rank only looks for a row of zeros. Its no is right of any      *)
(* matrix, in any sequence of calls; its yes may only be believed of an    *)
(* eliminated one, whose rows have pivots or are zero: there the answer is *)
(* whether the rank is full and no row is in the span of the others.       *)
(***************************************************************************)
ZeroRowMeansDependent ==
  /\ ~IsFullRank => DependentRows(data)
  /\ mat_rank # NoRank =>
       (IsFullRank <=> mat_rank = MatRows /\ ~DependentRows(data))

(***************************************************************************)
(* The bytes between the columns and the stride are always zero            *)
(* (matrix.rs:22), whatever rows are swapped, scaled and added.            *)
(***************************************************************************)
PaddingIsZero ==
  \A r \in RowIds, j \in MatCols..(Stride - 1) : data[At(r, j)] = Zero

(* How far gaussian_elimination is from its end: the columns left, and in a *)
(* column the rows left to clear, after a pivot has been looked for.        *)
EliminationStepsLeft ==
  CASE mat_pc = "idle"  -> <<0, 0>>
    [] mat_pc = "find"  -> <<MatCols - col + 1, MatRows + 1>>
    [] mat_pc = "clear" -> <<MatCols - col + 1, MatRows - row>>

(***************************************************************************)
(* Every iteration of the elimination brings its end nearer, those that    *)
(* find no pivot and go on to the next column included.                    *)
(***************************************************************************)
EliminationCountsDown ==
  [][mat_pc # "idle" =>
       Nearer(2, EliminationStepsLeft', EliminationStepsLeft)]_matrixVars
=============================================================================
