-------------------------- MODULE DecoderInvariant --------------------------
(***************************************************************************)
(* What the decoder guarantees, and the inductive invariant behind it.     *)
(***************************************************************************)
EXTENDS Decoder, Countdown

Rows == 0..(rank - 1)

(***************************************************************************)
(* The stored rows are in row echelon form: pivots strictly ascend, every  *)
(* row starts with a one at its pivot, and no slot beyond rank is in use.  *)
(* receive asserts the order after every insertion (decoder.rs:183), and   *)
(* both elimination loops rely on the rest.                                *)
(***************************************************************************)
RowsInEchelonForm ==
  /\ \A i \in Rows :
       /\ pivot_col[i] \in Cols
       /\ coefficient_rows[i][pivot_col[i]] = One
       /\ \A j \in 0..(pivot_col[i] - 1) : coefficient_rows[i][j] = Zero
  /\ \A i, j \in Rows : i < j => pivot_col[i] < pivot_col[j]
  /\ \A i \in Cols \ Rows : pivot_col[i] = None

(***************************************************************************)
(* A complete decoder has pivot i in row i. decode asserts it              *)
(* (decoder.rs:203) and returns payload row i as source symbol i.          *)
(***************************************************************************)
FullRankIsIdentity == IsComplete => \A i \in Cols : pivot_col[i] = i

(***************************************************************************)
(* Coefficients and payload never come apart: although receive reduces     *)
(* them in two separate loops, the second from factors remembered by the   *)
(* first in a buffer that outlives the call, and insertion and             *)
(* back-substitution move them separately, the payload of every stored row *)
(* is the payload a sender would compute for its coefficients.             *)
(***************************************************************************)
PayloadsFollowCoefficients ==
  \A i \in Rows : payload_rows[i] = Code(coefficient_rows[i])

(***************************************************************************)
(* Whatever packets arrived, in whatever order and however often, the      *)
(* symbols decode returns are the sender's source symbols.                 *)
(***************************************************************************)
DecodedIsSource == ret = "symbols" => symbols = Source

(***************************************************************************)
(* The decoded flag, which lets decode skip back-substitution, is set only *)
(* while the stored coefficients are the identity matrix.                  *)
(***************************************************************************)
DecodedFlagIsValid ==
  decoded => IsComplete /\ \A i \in Cols : coefficient_rows[i] = Unit(i)

(***************************************************************************)
(* Every call comes back: no loop of receive or decode runs for ever.      *)
(***************************************************************************)
CallReturns == (pc # "idle") ~> (pc = "idle")

(* What is left of a call: phases, then rows, then rows above the pivot. *)
StepsLeft ==
  CASE pc = "receive" -> <<4, 0, 0>>
    [] pc = "reduce"  -> <<3, rank - r, 0>>
    [] pc = "payload" -> <<2, rank - r, 0>>
    [] pc = "insert"  -> <<1, 0, 0>>
    [] pc = "backsub" -> <<1, r, r - r2>>
    [] pc = "idle"    -> <<0, 0, 0>>

(***************************************************************************)
(* Each step of receive and decode is one the call does not have to make   *)
(* again, whatever the packet and the rows are: no loop index stands still *)
(* or is set back but by an outer loop that has moved on.                  *)
(***************************************************************************)
StepsCountDown == [][pc # "idle" => Nearer(3, StepsLeft', StepsLeft)]_vars

-----------------------------------------------------------------------------
(* The inductive invariant, one definition for each part. *)

(* Which values of the fields go with which point of a call. *)
ControlInv ==
  /\ ret = "busy" <=> pc \in {"receive", "reduce", "payload", "insert"}
  /\ pc \in {"reduce", "payload", "insert"} => rank < K
  /\ pc \in {"reduce", "payload"} => r <= rank
  /\ pc = "backsub" => IsComplete /\ r < K /\ r2 <= r
  /\ decoded => IsComplete

(* Row j lies at least as many columns beyond row i as it lies rows below. *)
PivotInv ==
  /\ \A i \in Rows : pivot_col[i] \in Cols
  /\ \A i, j \in Rows : i < j => pivot_col[j] - pivot_col[i] >= j - i
  /\ \A i \in Cols \ Rows : pivot_col[i] = None

RowInv ==
  \A i \in Rows :
    /\ coefficient_rows[i][pivot_col[i]] = One
    /\ \A j \in Cols : j < pivot_col[i] => coefficient_rows[i][j] = Zero

(* The packet being received has nothing left in the columns reduced so far.*)
RemainderInv ==
  /\ pc = "reduce" =>
       \A q \in Rows : q < r => coefficients[pivot_col[q]] = Zero
  /\ pc \in {"payload", "insert"} =>
       /\ \A q \in Rows : coefficients[pivot_col[q]] = Zero
       /\ coefficients # ZeroVector
  /\ pc = "insert" => coefficients[PivotOf(coefficients)] = One

(* t is what the first n iterations of Reduce made of the packet. *)
Trail(t, n) ==
  /\ t[0] = packet
  /\ t[n] = coefficients
  /\ \A q \in 0..(n - 1) :
       t[q + 1] = Axpy(elimination_factors[q], coefficient_rows[q], t[q])

(* The payload lags behind the coefficients by the factors not yet replayed. *)
ReplayInv ==
  /\ pc \in {"receive", "reduce"} => payload = Code(packet)
  /\ pc = "receive" => coefficients = packet
  /\ pc = "reduce" => \E t \in [0..r -> Vector] : Trail(t, r)
  /\ pc = "payload" =>
       \E t \in [0..rank -> Vector] : Trail(t, rank) /\ payload = Code(t[r])
  /\ pc = "insert" => payload = Code(coefficients)

(* Back-substitution has cleared the columns right of r above the diagonal, *)
(* and column r in the rows before r2.                                      *)
BacksubInv ==
  /\ pc = "backsub" =>
       \A i, j \in Cols :
         i < j /\ (j > r \/ (j = r /\ i < r2)) => coefficient_rows[i][j] = Zero
  /\ decoded =>
       \A i, j \in Cols : i < j => coefficient_rows[i][j] = Zero

IInv ==
  /\ TypeOK
  /\ ControlInv
  /\ PivotInv
  /\ RowInv
  /\ RemainderInv
  /\ PayloadsFollowCoefficients
  /\ ReplayInv
  /\ BacksubInv
  /\ DecodedIsSource
=============================================================================
