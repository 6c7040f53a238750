------------------------------ MODULE MCMatrix ------------------------------
(***************************************************************************)
(* Matrix over the field of MCField. To keep the instance small the        *)
(* caller's matrices have any bytes in their first row and bits in the     *)
(* others.                                                                 *)
(***************************************************************************)
EXTENDS Matrix, MCField

MCNext ==
  /\ MatrixNext
  /\ \A r \in RowIds \ {0}, j \in ColIds : made'[At(r, j)] \in MCBits

MCSpec == MatrixInit /\ [][MCNext]_matrixVars
=============================================================================
