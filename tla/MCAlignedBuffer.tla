-------------------------- MODULE MCAlignedBuffer ---------------------------
(***************************************************************************)
(* usize of four bits, vectors of two bytes. The lengths are shorter than  *)
(* a vector, longer, just past the largest layout, and at the two sides of *)
(* the largest length that can be padded.                                  *)
(***************************************************************************)
EXTENDS AlignedBuffer

MCLens == {0, 1, 3, 7, 14, 15}
MCSources == {<<>>, <<1>>, <<1, 0, 1>>}
MCByte == {0, 1}
MCMemory == 2..9
=============================================================================
