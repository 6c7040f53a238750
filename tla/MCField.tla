------------------------------ MODULE MCField ------------------------------
(***************************************************************************)
(* The values the model checker gives the constants of Field: the subfield *)
(* of four elements {0x00, 0x01, 0xBC, 0xBD} of GF(2^8), or its prime      *)
(* subfield {0x00, 0x01}, with the library's own arithmetic on it.         *)
(***************************************************************************)
EXTENDS Field, TLC

F == INSTANCE Gf8

Omega == {2, 3, 4, 5, 7}    \* 0xBC, an element of order three
Omega2 == Omega \cup {0}    \* 0xBD, its square

MCElem == {F!ZERO, F!ONE, Omega, Omega2}
MCBits == {F!ZERO, F!ONE}
MCZero == F!ZERO
MCOne  == F!ONE

(* f itself; TLC tabulates it instead of computing it at every use. *)
Tabulated(f) == f @@ <<>>

PlusTable    == Tabulated([p \in MCElem \X MCElem |-> F!Xor(p[1], p[2])])
TimesTable   == Tabulated([p \in MCElem \X MCElem |-> F!Mul(p[1], p[2])])
InverseTable == Tabulated([a \in MCElem |-> F!PivotInverse(a)])

MCPlus(a, b)  == PlusTable[<<a, b>>]
MCTimes(a, b) == TimesTable[<<a, b>>]
MCReciprocal(a)  == InverseTable[a]
=============================================================================
