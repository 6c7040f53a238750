------------------------- MODULE EliminationProofs --------------------------
(***************************************************************************)
(* Gaussian elimination, in the two programs that do it: GfMatrix, in one  *)
(* padded buffer, and the batch decoder of the benchmark, on rows of       *)
(* coefficients and payloads. For every field, every size and alignment,   *)
(* and every sequence of calls: the row operations keep what the rows      *)
(* span, the elimination reduces them, and the batch decoder returns true  *)
(* exactly when the packets are independent, with the source symbols in    *)
(* its rows.                                                               *)
(***************************************************************************)
EXTENDS BatchDecoder, Matrix, LinearAlgebraProofs

-----------------------------------------------------------------------------
(***************************************************************************)
(* GfMatrix.                                                               *)
(***************************************************************************)

LEMMA MatrixSizes ==
  /\ MatRows \in Nat /\ MatCols \in Nat /\ MatRows > 0 /\ MatCols > 0
  /\ Stride \in Nat /\ MatCols <= Stride
  /\ \A c \in 0..MatCols : OperationStart(c) \in 0..c
<1>1. MatRows \in Nat \ {0} /\ MatCols \in Nat \ {0} /\ Align \in Nat \ {0}
  BY MatrixAssumption
<1>2. ASSUME NEW n \in Nat
      PROVE  /\ n \div Align \in Nat
             /\ (n \div Align) * Align \in Nat
             /\ (n \div Align) * Align <= n
             /\ n < (n \div Align) * Align + Align
  <2>1. n \div Align \in Nat
    BY <1>1
  <2>2. PICK q \in Nat : q = n \div Align
    BY <2>1
  <2>3. PICK r \in 0..(Align - 1) : r = n % Align
    BY <1>1
  <2>4. n = Align * q + r
    BY <1>1, <2>2, <2>3
  <2>5. Align * q = q * Align /\ q * Align \in Nat
    BY <1>1
  <2>6. QED
    BY <1>1, <2>1, <2>2, <2>3, <2>4, <2>5
<1>3. Stride \in Nat /\ MatCols <= Stride
  <2>1. MatCols + Align - 1 \in Nat
    BY <1>1
  <2>2. QED
    BY <1>1, <1>2, <2>1 DEF Stride
<1>4. QED
  BY <1>1, <1>2, <1>3 DEF OperationStart

Index == 0..(MatRows * Stride - 1)
StrideIds == 0..(Stride - 1)

(***************************************************************************)
(* Every index of the buffer is that of one row and one byte of the row.   *)
(***************************************************************************)
LEMMA Addresses ==
  /\ \A r \in RowIds, j \in StrideIds :
       /\ At(r, j) \in Index
       /\ At(r, j) \div Stride = r /\ At(r, j) % Stride = j
  /\ \A r, q \in RowIds, j, k \in StrideIds : At(r, j) = At(q, k) => r = q /\ j = k
  /\ \A i \in Index : /\ i \div Stride \in RowIds /\ i % Stride \in StrideIds
                      /\ i = At(i \div Stride, i % Stride)
<1>1. /\ MatRows \in Nat /\ Stride \in Nat /\ Stride > 0
      /\ RowIds = 0..(MatRows - 1)
  BY MatrixSizes DEF RowIds
<1>2. \A m, n \in Nat : m <= n => m * Stride <= n * Stride /\ n * Stride \in Nat
  BY <1>1
<1>3. \A m \in Nat : (m + 1) * Stride = m * Stride + Stride
  BY <1>1
<1>4. ASSUME NEW r \in RowIds, NEW j \in StrideIds
      PROVE  At(r, j) \in Index
  <2>1. r + 1 <= MatRows /\ r \in Nat /\ j \in Nat /\ j < Stride
    BY <1>1 DEF StrideIds
  <2>2. (r + 1) * Stride <= MatRows * Stride /\ r * Stride \in Nat /\ MatRows * Stride \in Nat
    BY <1>1, <1>2, <2>1
  <2>3. r * Stride + j < MatRows * Stride
    BY <1>1, <1>3, <2>1, <2>2
  <2>4. QED
    BY <2>1, <2>2, <2>3 DEF At, Index
<1>5. ASSUME NEW r \in Nat, NEW q \in Nat, NEW j \in StrideIds, NEW k \in StrideIds,
             r * Stride + j = q * Stride + k, r < q
      PROVE  FALSE
  <2>1. (r + 1) * Stride <= q * Stride
    BY <1>2, <1>5
  <2>2. r * Stride + Stride <= q * Stride
    BY <2>1, <1>3
  <2>3. r * Stride \in Nat /\ q * Stride \in Nat
    BY <1>2
  <2>4. QED
    BY <2>2, <2>3, <1>1, <1>5 DEF StrideIds
<1>6. ASSUME NEW r \in Nat, NEW q \in Nat, NEW j \in StrideIds, NEW k \in StrideIds,
             r * Stride + j = q * Stride + k
      PROVE  r = q /\ j = k
  <2>1. ~(r < q) /\ ~(q < r)
    BY <1>5, <1>6
  <2>2. r = q
    BY <2>1
  <2>3. r * Stride \in Nat /\ j \in Int /\ k \in Int
    BY <1>1, <1>2 DEF StrideIds
  <2>4. QED
    BY <2>2, <2>3, <1>6
<1>7. ASSUME NEW n \in Nat
      PROVE  /\ n \div Stride \in Nat /\ n % Stride \in StrideIds
             /\ n = (n \div Stride) * Stride + (n % Stride)
  <2>1. PICK q \in Nat, m \in StrideIds : q = n \div Stride /\ m = n % Stride
    BY <1>1 DEF StrideIds
  <2>2. n = Stride * q + m
    BY <1>1, <2>1
  <2>3. Stride * q = q * Stride
    BY <1>1
  <2>4. QED
    BY <2>1, <2>2, <2>3
<1>8. ASSUME NEW r \in RowIds, NEW j \in StrideIds
      PROVE  At(r, j) \div Stride = r /\ At(r, j) % Stride = j
  <2>1. At(r, j) \in Nat /\ r \in Nat
    <3>1. r \in Nat /\ j \in Nat /\ r * Stride \in Nat
      BY <1>1, <1>2 DEF StrideIds
    <3>2. QED
      BY <3>1 DEF At
  <2>2. PICK n \in Nat : n = At(r, j)
    BY <2>1
  <2>3. n = r * Stride + j
    BY <2>2 DEF At
  <2>4. QED
    BY <1>6, <1>7, <2>1, <2>2, <2>3
<1>9. ASSUME NEW i \in Index
      PROVE  /\ i \div Stride \in RowIds /\ i % Stride \in StrideIds
             /\ i = At(i \div Stride, i % Stride)
  <2>1. i \in Nat /\ i < MatRows * Stride
    <3>1. PICK n \in Nat : n = MatRows * Stride
      BY <1>1, <1>2
    <3>2. QED
      BY <3>1 DEF Index
  <2>2. PICK q \in Nat, m \in StrideIds : q = i \div Stride /\ m = i % Stride
    BY <1>7, <2>1
  <2>3. i = q * Stride + m
    BY <1>7, <2>1, <2>2
  <2>4. q < MatRows
    <3>1. SUFFICES ASSUME MatRows <= q
                   PROVE  FALSE
      BY <1>1
    <3>2. MatRows * Stride <= q * Stride /\ q * Stride \in Nat /\ MatRows * Stride \in Nat
      BY <1>1, <1>2, <3>1
    <3>3. PICK a \in Nat, b \in Nat : a = MatRows * Stride /\ b = q * Stride
      BY <3>2
    <3>4. m \in Nat /\ i = b + m /\ i < a /\ a <= b
      BY <1>1, <2>1, <2>3, <3>2, <3>3 DEF StrideIds
    <3>5. QED
      BY <3>3, <3>4
  <2>5. QED
    BY <1>1, <2>2, <2>3, <2>4 DEF At
<1>10. QED
  <2>1. \A r, q \in RowIds, j, k \in StrideIds : At(r, j) = At(q, k) => r = q /\ j = k
    BY <1>8
  <2>2. QED
    BY <1>4, <1>8, <1>9, <2>1

LEMMA BufferEntries ==
  ASSUME NEW d \in Buffer
  PROVE  \A r \in RowIds, j \in StrideIds : d[At(r, j)] \in Elem
BY Addresses DEF Buffer, Index

LEMMA SameEntries ==
  ASSUME NEW d \in Buffer, NEW e \in Buffer,
         \A r \in RowIds, j \in StrideIds : d[At(r, j)] = e[At(r, j)]
  PROVE  d = e
<1>1. ASSUME NEW i \in Index
      PROVE  d[i] = e[i]
  BY Addresses
<1>2. d = [i \in Index |-> d[i]] /\ e = [i \in Index |-> e[i]]
  BY DEF Buffer, Index
<1>3. QED
  BY <1>1, <1>2

(***************************************************************************)
(* A slice of a row, seen from the rows' side.                             *)
(***************************************************************************)
LEMMA SliceEntries ==
  ASSUME NEW dst \in RowIds, NEW start \in 0..MatCols, NEW r \in RowIds, NEW j \in StrideIds
  PROVE  At(r, j) \in Slice(dst, start) <=> r = dst /\ j \in start..(MatCols - 1)
<1>1. /\ MatCols \in Nat /\ Stride \in Nat /\ MatCols <= Stride /\ start \in Nat
      /\ start <= MatCols /\ j \in Nat
  BY MatrixSizes DEF StrideIds
<1>2. PICK a \in Nat : a = dst * Stride
  BY MatrixSizes DEF RowIds
<1>3. Slice(dst, start) = (a + start)..(a + MatCols - 1)
  <2>1. At(dst, start) = a + start /\ At(dst, MatCols) = a + MatCols
    BY <1>2 DEF At
  <2>2. (a + MatCols) - 1 = a + MatCols - 1
    BY <1>1
  <2>3. QED
    BY <2>1, <2>2 DEF Slice
<1>4. ASSUME NEW i \in Slice(dst, start)
      PROVE  i - a \in StrideIds /\ i - a \in start..(MatCols - 1) /\ i = At(dst, i - a)
  <2>1. i \in Nat /\ a + start <= i /\ i <= a + MatCols - 1
    BY <1>1, <1>2, <1>3
  <2>2. i - a \in start..(MatCols - 1) /\ i - a \in StrideIds /\ i = a + (i - a)
    BY <1>1, <1>2, <2>1 DEF StrideIds
  <2>3. QED
    BY <1>2, <2>2 DEF At
<1>5. ASSUME At(r, j) \in Slice(dst, start)
      PROVE  r = dst /\ j \in start..(MatCols - 1)
  BY <1>4, <1>5, Addresses
<1>6. ASSUME r = dst, j \in start..(MatCols - 1)
      PROVE  At(r, j) \in Slice(dst, start)
  BY <1>1, <1>2, <1>3, <1>6 DEF At
<1>7. QED
  BY <1>5, <1>6

LEMMA AxpyEntries ==
  ASSUME NEW d \in Buffer, NEW dst \in RowIds, NEW src \in RowIds, NEW c \in Elem,
         NEW start \in 0..MatCols
  PROVE  /\ RowAxpyFrom(d, dst, c, src, start) \in Buffer
         /\ \A r \in RowIds, j \in StrideIds :
              RowAxpyFrom(d, dst, c, src, start)[At(r, j)] =
                IF r = dst /\ j \in start..(MatCols - 1)
                THEN Plus(d[At(r, j)], Times(c, d[At(src, j)])) ELSE d[At(r, j)]
<1> DEFINE e == RowAxpyFrom(d, dst, c, src, start)
<1>1. DOMAIN d = Index /\ DOMAIN e = Index
  BY DEF Buffer, Index, RowAxpyFrom
<1>2. ASSUME NEW r \in RowIds, NEW j \in StrideIds
      PROVE  e[At(r, j)] = IF r = dst /\ j \in start..(MatCols - 1)
                           THEN Plus(d[At(r, j)], Times(c, d[At(src, j)])) ELSE d[At(r, j)]
  <2>1. At(r, j) \in Index
    BY Addresses
  <2>2. CASE r = dst /\ j \in start..(MatCols - 1)
    <3>1. At(r, j) - At(dst, 0) = j
      <4>1. PICK a \in Nat : a = dst * Stride
        BY MatrixSizes DEF RowIds
      <4>2. j \in Nat
        BY MatrixSizes DEF StrideIds
      <4>3. QED
        BY <2>2, <4>1, <4>2 DEF At
    <3>2. QED
      BY <1>1, <2>1, <2>2, <3>1, SliceEntries DEF RowAxpyFrom
  <2>3. CASE ~(r = dst /\ j \in start..(MatCols - 1))
    BY <1>1, <2>1, <2>3, SliceEntries DEF RowAxpyFrom
  <2>4. QED
    BY <2>2, <2>3
<1> HIDE DEF e
<1>3. \A i \in Index : e[i] \in Elem
  <2>1. ASSUME NEW r \in RowIds, NEW j \in StrideIds
        PROVE  e[At(r, j)] \in Elem
    <3>1. d[At(r, j)] \in Elem /\ d[At(src, j)] \in Elem
      BY BufferEntries
    <3>2. Plus(d[At(r, j)], Times(c, d[At(src, j)])) \in Elem
      BY <3>1, FieldAssumption
    <3>3. QED
      BY <1>2, <3>1, <3>2
  <2>2. QED
    BY <2>1, Addresses
<1>4. e = [i \in Index |-> e[i]]
  BY <1>1 DEF e, RowAxpyFrom
<1>5. QED
  BY <1>2, <1>3, <1>4 DEF e, Buffer, Index

LEMMA ScaleEntries ==
  ASSUME NEW d \in Buffer, NEW s \in RowIds, NEW c \in Elem, NEW start \in 0..MatCols
  PROVE  /\ RowScaleFrom(d, s, c, start) \in Buffer
         /\ \A r \in RowIds, j \in StrideIds :
              RowScaleFrom(d, s, c, start)[At(r, j)] =
                IF r = s /\ j \in start..(MatCols - 1)
                THEN Times(c, d[At(r, j)]) ELSE d[At(r, j)]
<1> DEFINE e == RowScaleFrom(d, s, c, start)
<1>1. DOMAIN d = Index /\ DOMAIN e = Index
  BY DEF Buffer, Index, RowScaleFrom
<1>2. ASSUME NEW r \in RowIds, NEW j \in StrideIds
      PROVE  e[At(r, j)] = IF r = s /\ j \in start..(MatCols - 1)
                           THEN Times(c, d[At(r, j)]) ELSE d[At(r, j)]
  <2>1. At(r, j) \in Index
    BY Addresses
  <2>2. QED
    BY <1>1, <2>1, SliceEntries DEF RowScaleFrom
<1> HIDE DEF e
<1>3. \A i \in Index : e[i] \in Elem
  <2>1. ASSUME NEW r \in RowIds, NEW j \in StrideIds
        PROVE  e[At(r, j)] \in Elem
    <3>1. d[At(r, j)] \in Elem
      BY BufferEntries
    <3>2. Times(c, d[At(r, j)]) \in Elem
      BY <3>1, FieldAssumption
    <3>3. QED
      BY <1>2, <3>1, <3>2
  <2>2. QED
    BY <2>1, Addresses
<1>4. e = [i \in Index |-> e[i]]
  BY <1>1 DEF e, RowScaleFrom
<1>5. QED
  BY <1>2, <1>3, <1>4 DEF e, Buffer, Index

Other(r, a, b) == IF r = a THEN b ELSE IF r = b THEN a ELSE r

LEMMA SwapEntries ==
  ASSUME NEW d \in Buffer, NEW a \in RowIds, NEW b \in RowIds
  PROVE  /\ Swapped(d, a, b) \in Buffer
         /\ \A r \in RowIds, j \in StrideIds :
              Swapped(d, a, b)[At(r, j)] = d[At(Other(r, a, b), j)]
<1> DEFINE e == Swapped(d, a, b)
<1>1. DOMAIN d = Index /\ DOMAIN e = Index
  BY DEF Buffer, Index, Swapped
<1>2. ASSUME NEW r \in RowIds, NEW j \in StrideIds
      PROVE  e[At(r, j)] = d[At(Other(r, a, b), j)]
  <2>1. At(r, j) \in Index /\ At(r, j) \div Stride = r /\ At(r, j) % Stride = j
    BY Addresses
  <2>2. e[At(r, j)] = CASE r = a -> d[At(b, j)]
                        [] r = b /\ a # b -> d[At(a, j)]
                        [] OTHER -> d[At(r, j)]
    BY <1>1, <2>1 DEF Swapped
  <2> HIDE DEF e
  <2>3. QED
    BY <2>2 DEF Other
<1> HIDE DEF e
<1>3. \A i \in Index : e[i] \in Elem
  <2>1. ASSUME NEW r \in RowIds, NEW j \in StrideIds
        PROVE  e[At(r, j)] \in Elem
    BY <1>2, BufferEntries DEF Other
  <2>2. QED
    BY <2>1, Addresses
<1>4. e = [i \in Index |-> e[i]]
  BY <1>1 DEF e, Swapped
<1>5. QED
  BY <1>2, <1>3, <1>4 DEF e, Buffer, Index

RowVector == [ColIds -> Elem]
ZeroRow == [j \in ColIds |-> Zero]

(* What row n - 1 adds to the sums over the rows before it.                *)
Sums(d, f, n) ==
  IF n = 0 THEN {ZeroRow}
  ELSE {[j \in ColIds |-> Plus(u[j], Times(a, d[At(n - 1, j)]))] : a \in Elem, u \in f[n - 1]}

IsSpan(d, m, f) == f = [n \in 0..m |-> Sums(d, f, n)]

LEMMA SpanSteps ==
  ASSUME NEW d, NEW m \in Nat, NEW f, IsSpan(d, m, f)
  PROVE  /\ DOMAIN f = 0..m
         /\ f[0] = {ZeroRow}
         /\ \A n \in 1..m : f[n] = Sums(d, f, n)
<1> DEFINE g == [n \in 0..m |-> Sums(d, f, n)]
<1>1. f = g
  BY DEF IsSpan
<1>2. DOMAIN g = 0..m /\ \A n \in 0..m : g[n] = Sums(d, f, n)
  OBVIOUS
<1> HIDE DEF g
<1>3. 0 \in 0..m /\ Sums(d, f, 0) = {ZeroRow}
  BY DEF Sums
<1>4. QED
  BY <1>1, <1>2, <1>3

LEMMA SpanExists ==
  ASSUME NEW d
  PROVE  \A m \in Nat : \E f : IsSpan(d, m, f)
<1> DEFINE S == {m \in Nat : \E f : IsSpan(d, m, f)}
<1>1. 0 \in S
  <2> DEFINE f == [n \in 0..0 |-> {ZeroRow}]
  <2>1. f = [n \in 0..0 |-> Sums(d, f, n)]
    BY DEF Sums
  <2>2. QED
    BY <2>1 DEF IsSpan
<1>2. ASSUME NEW m \in Nat, m \in S
      PROVE  m + 1 \in S
  <2>1. PICK f : IsSpan(d, m, f)
    BY <1>2
  <2> DEFINE g == [n \in 0..(m + 1) |-> Sums(d, f, n)]
  <2>2. \A n \in 0..m : g[n] = f[n]
    <3>1. \A n \in 0..m : n \in 0..(m + 1)
      OBVIOUS
    <3>2. \A n \in 0..m : f[n] = Sums(d, f, n)
      BY <2>1 DEF IsSpan
    <3>3. QED
      BY <3>1, <3>2
  <2>3. \A n \in 0..(m + 1) : Sums(d, g, n) = Sums(d, f, n)
    <3> HIDE DEF g
    <3>1. SUFFICES ASSUME NEW n \in 0..(m + 1), n # 0
                   PROVE  Sums(d, g, n) = Sums(d, f, n)
      BY DEF Sums
    <3>2. n - 1 \in 0..m
      BY <3>1
    <3>3. g[n - 1] = f[n - 1]
      BY <2>2, <3>2
    <3>4. QED
      BY <3>1, <3>3 DEF Sums
  <2>4. g = [n \in 0..(m + 1) |-> Sums(d, g, n)]
    <3> DEFINE h == [n \in 0..(m + 1) |-> Sums(d, g, n)]
    <3>1. h = g
      BY <2>3
    <3>2. QED
      BY <3>1
  <2> HIDE DEF g
  <2>5. QED
    BY <2>4 DEF IsSpan
<1> HIDE DEF S
<1>3. Nat \subseteq S
  BY <1>1, <1>2, SetInduction
<1>4. QED
  BY <1>3 DEF S

LEMMA RowSpaceIsSpan ==
  ASSUME NEW d
  PROVE  \E f : IsSpan(d, MatRows, f) /\ RowSpace(d) = f[MatRows]
<1> DEFINE span == CHOOSE f : IsSpan(d, MatRows, f)
<1>1. IsSpan(d, MatRows, span)
  BY SpanExists, MatrixSizes
<1>2. RowSpace(d) = span[MatRows]
  BY DEF RowSpace, IsSpan, Sums, ZeroRow
<1>3. QED
  BY <1>1, <1>2

Add(u, a, v) == [j \in ColIds |-> Plus(u[j], Times(a, v[j]))]
Row(d, r) == [j \in ColIds |-> d[At(r, j)]]

Subspace(V) ==
  /\ V \subseteq RowVector /\ ZeroRow \in V
  /\ \A u, v \in V, a \in Elem : Add(u, a, v) \in V

LEMMA RowType ==
  /\ \A d \in Buffer, r \in RowIds : Row(d, r) \in RowVector
  /\ ZeroRow \in RowVector
<1>1. ColIds \subseteq StrideIds
  BY MatrixSizes DEF ColIds, StrideIds
<1>2. ASSUME NEW d \in Buffer, NEW r \in RowIds
      PROVE  Row(d, r) \in RowVector
  <2>1. \A j \in ColIds : d[At(r, j)] \in Elem
    BY <1>1, BufferEntries
  <2>2. QED
    BY <2>1 DEF Row, RowVector
<1>3. QED
  BY <1>2, FieldAssumption DEF ZeroRow, RowVector

(***************************************************************************)
(* Adding multiples of vectors, entry by entry.                            *)
(***************************************************************************)
LEMMA AddType ==
  ASSUME NEW u \in RowVector, NEW v \in RowVector, NEW a \in Elem
  PROVE  Add(u, a, v) \in RowVector
<1>1. \A j \in ColIds : Plus(u[j], Times(a, v[j])) \in Elem
  <2>1. \A j \in ColIds : u[j] \in Elem /\ v[j] \in Elem
    BY DEF RowVector
  <2>2. \A x, y \in Elem : Plus(x, Times(a, y)) \in Elem
    BY FieldAssumption
  <2>3. QED
    BY <2>1, <2>2
<1>2. QED
  BY <1>1 DEF Add, RowVector

LEMMA AddNothing ==
  ASSUME NEW u \in RowVector, NEW v \in RowVector
  PROVE  Add(u, Zero, v) = u
<1>1. \A x, y \in Elem : Plus(x, Times(Zero, y)) = x
  BY FieldAssumption
<1>2. QED
  BY <1>1 DEF Add, RowVector

LEMMA AddToZero ==
  ASSUME NEW u \in RowVector
  PROVE  Add(ZeroRow, One, u) = u
<1>1. \A x \in Elem : Plus(Zero, Times(One, x)) = x
  BY FieldAssumption
<1>2. QED
  BY <1>1 DEF Add, RowVector, ZeroRow

LEMMA AddTwice ==
  ASSUME NEW u \in RowVector, NEW v \in RowVector, NEW a \in Elem
  PROVE  Add(Add(u, a, v), a, v) = u
<1>1. ASSUME NEW x \in Elem, NEW y \in Elem
      PROVE  Plus(Plus(x, Times(a, y)), Times(a, y)) = x
  <2>1. PICK z \in Elem : z = Times(a, y)
    BY FieldAssumption
  <2>2. Plus(Plus(x, z), z) = Plus(x, Plus(z, z))
    BY FieldAssumption
  <2>3. Plus(z, z) = Zero /\ Plus(x, Zero) = x
    BY FieldAssumption
  <2>4. QED
    BY <2>1, <2>2, <2>3
<1>2. QED
  BY <1>1 DEF Add, RowVector

LEMMA AddExchange ==
  ASSUME NEW u \in RowVector, NEW v \in RowVector, NEW w \in RowVector,
         NEW a \in Elem, NEW b \in Elem, NEW c \in Elem
  PROVE  Add(Add(u, a, w), c, Add(v, b, w)) = Add(Add(u, c, v), Plus(a, Times(c, b)), w)
<1>1. ASSUME NEW x \in Elem, NEW y \in Elem, NEW z \in Elem
      PROVE  Plus(Plus(x, Times(a, z)), Times(c, Plus(y, Times(b, z)))) =
             Plus(Plus(x, Times(c, y)), Times(Plus(a, Times(c, b)), z))
  <2>1. PICK az \in Elem, bz \in Elem, cy \in Elem, cb \in Elem, cbz \in Elem :
          /\ az = Times(a, z) /\ bz = Times(b, z) /\ cy = Times(c, y)
          /\ cb = Times(c, b) /\ cbz = Times(cb, z)
    BY FieldAssumption
  <2>2. Times(c, Plus(y, bz)) = Plus(cy, cbz)
    <3>1. Times(c, Plus(y, bz)) = Plus(Times(c, y), Times(c, bz))
      BY FieldAssumption
    <3>2. Times(c, Times(b, z)) = Times(Times(c, b), z)
      BY FieldAssumption
    <3>3. QED
      BY <2>1, <3>1, <3>2
  <2>3. Times(Plus(a, cb), z) = Plus(az, cbz)
    <3>1. Plus(a, cb) \in Elem /\ Times(Plus(a, cb), z) = Times(z, Plus(a, cb))
      BY FieldAssumption
    <3>2. Times(z, Plus(a, cb)) = Plus(Times(z, a), Times(z, cb))
      BY FieldAssumption
    <3>3. Times(z, a) = Times(a, z) /\ Times(z, cb) = Times(cb, z)
      BY FieldAssumption
    <3>4. QED
      BY <2>1, <3>1, <3>2, <3>3
  <2>4. Plus(Plus(x, az), Plus(cy, cbz)) = Plus(Plus(x, cy), Plus(az, cbz))
    <3>1. Plus(Plus(x, az), Plus(cy, cbz)) = Plus(x, Plus(az, Plus(cy, cbz)))
      BY FieldAssumption
    <3>2. Plus(az, Plus(cy, cbz)) = Plus(Plus(az, cy), cbz)
      BY FieldAssumption
    <3>3. Plus(az, cy) = Plus(cy, az)
      BY FieldAssumption
    <3>4. Plus(Plus(cy, az), cbz) = Plus(cy, Plus(az, cbz))
      BY FieldAssumption
    <3>5. Plus(az, cbz) \in Elem
      BY FieldAssumption
    <3>6. Plus(x, Plus(cy, Plus(az, cbz))) = Plus(Plus(x, cy), Plus(az, cbz))
      BY <3>5, FieldAssumption
    <3>7. QED
      BY <3>1, <3>2, <3>3, <3>4, <3>6
  <2>5. QED
    BY <2>1, <2>2, <2>3, <2>4
<1>2. QED
  BY <1>1 DEF Add, RowVector

-----------------------------------------------------------------------------
LEMMA NextSpan ==
  ASSUME NEW d, NEW f, IsSpan(d, MatRows, f), NEW n \in RowIds
  PROVE  /\ \A u \in f[n], a \in Elem : Add(u, a, Row(d, n)) \in f[n + 1]
         /\ \A x \in f[n + 1] : \E u \in f[n], a \in Elem : x = Add(u, a, Row(d, n))
<1>1. PICK k \in 1..MatRows : k = n + 1 /\ k # 0 /\ k - 1 = n
  BY MatrixSizes DEF RowIds
<1>2. f[k] = Sums(d, f, k)
  BY SpanSteps, MatrixSizes
<1>4. \A j \in ColIds : Row(d, n)[j] = d[At(n, j)]
  BY DEF Row
<1>5. \A u, a : Add(u, a, Row(d, n)) = [j \in ColIds |-> Plus(u[j], Times(a, d[At(n, j)]))]
  BY <1>4 DEF Add
<1> DEFINE term(u, a) == [j \in ColIds |-> Plus(u[j], Times(a, d[At(n, j)]))]
<1>3. f[k] = {term(u, a) : a \in Elem, u \in f[n]}
  BY <1>1, <1>2 DEF Sums
<1>6. \A u, a : Add(u, a, Row(d, n)) = term(u, a)
  BY <1>5
<1> HIDE DEF term
<1>7. ASSUME NEW u \in f[n], NEW a \in Elem
      PROVE  term(u, a) \in f[k]
  <2>1. \E b \in Elem, v \in f[n] : term(u, a) = term(v, b)
    OBVIOUS
  <2>2. QED
    BY <1>3, <2>1
<1>8. \A x \in f[k] : \E u \in f[n], a \in Elem : x = term(u, a)
  BY <1>3
<1>9. QED
  BY <1>1, <1>6, <1>7, <1>8

(***************************************************************************)
(* The space of the rows is a subspace with all rows in it, and the least. *)
(***************************************************************************)
LEMMA RowSpaceContains ==
  ASSUME NEW d \in Buffer
  PROVE  Subspace(RowSpace(d)) /\ \A r \in RowIds : Row(d, r) \in RowSpace(d)
<1>1. PICK f : IsSpan(d, MatRows, f) /\ RowSpace(d) = f[MatRows]
  BY RowSpaceIsSpan
<1> DEFINE P(n) == Subspace(f[n]) /\ \A r \in 0..(n - 1) : Row(d, r) \in f[n]
           S == {n \in Nat : n <= MatRows => P(n)}
<1>2. 0 \in S
  <2>1. f[0] = {ZeroRow}
    BY <1>1, SpanSteps, MatrixSizes
  <2>2. \A a \in Elem : Add(ZeroRow, a, ZeroRow) = ZeroRow
    <3>1. \A a \in Elem : Plus(Zero, Times(a, Zero)) = Zero
      BY FieldAssumption
    <3>2. QED
      BY <3>1 DEF Add, ZeroRow
  <2>3. QED
    BY <2>1, <2>2, RowType DEF Subspace
<1>3. ASSUME NEW n \in Nat, n \in S
      PROVE  n + 1 \in S
  <2>1. SUFFICES ASSUME n + 1 <= MatRows
                 PROVE  P(n + 1)
    OBVIOUS
  <2>2. n <= MatRows /\ n \in RowIds
    BY <2>1, MatrixSizes DEF RowIds
  <2>3. P(n)
    BY <1>3, <2>2
  <2>4. PICK w \in RowVector : w = Row(d, n)
    BY <2>2, RowType
  <2>5. /\ \A u \in f[n], a \in Elem : Add(u, a, w) \in f[n + 1]
        /\ \A x \in f[n + 1] : \E u \in f[n], a \in Elem : x = Add(u, a, w)
    BY <1>1, <2>2, <2>4, NextSpan
  <2>6. f[n] \subseteq f[n + 1]
    <3>1. ASSUME NEW u \in f[n]
          PROVE  u \in f[n + 1]
      <4>1. u = Add(u, Zero, w) /\ Zero \in Elem
        BY <2>3, <2>4, AddNothing, FieldAssumption DEF Subspace
      <4>2. QED
        BY <2>5, <4>1
    <3>2. QED
      BY <3>1
  <2>7. w \in f[n + 1]
    <3>1. w = Add(ZeroRow, One, w) /\ One \in Elem /\ ZeroRow \in f[n]
      BY <2>3, AddToZero, FieldAssumption DEF Subspace
    <3>2. QED
      BY <2>5, <3>1
  <2>8. f[n + 1] \subseteq RowVector
    BY <2>3, <2>5, AddType DEF Subspace
  <2>9. ASSUME NEW x \in f[n + 1], NEW y \in f[n + 1], NEW c \in Elem
        PROVE  Add(x, c, y) \in f[n + 1]
    <3>1. PICK a \in Elem, u \in f[n] : x = Add(u, a, w)
      BY <2>5
    <3>2. PICK b \in Elem, v \in f[n] : y = Add(v, b, w)
      BY <2>5
    <3>3. u \in RowVector /\ v \in RowVector /\ Add(u, c, v) \in f[n]
      BY <2>3 DEF Subspace
    <3>4. Plus(a, Times(c, b)) \in Elem
      BY FieldAssumption
    <3>5. Add(x, c, y) = Add(Add(u, c, v), Plus(a, Times(c, b)), w)
      BY <3>1, <3>2, <3>3, AddExchange
    <3>6. QED
      BY <2>5, <3>3, <3>4, <3>5
  <2>10. \A r \in 0..n : Row(d, r) \in f[n + 1]
    <3>1. \A r \in 0..n : r = n \/ r \in 0..(n - 1)
      OBVIOUS
    <3>2. QED
      BY <2>3, <2>4, <2>6, <2>7, <3>1
  <2>11. Subspace(f[n + 1])
    BY <2>3, <2>6, <2>8, <2>9 DEF Subspace
  <2>12. (n + 1) - 1 = n
    OBVIOUS
  <2>13. QED
    BY <2>10, <2>11, <2>12
<1> HIDE DEF P
<1>4. Nat \subseteq S
  <2> HIDE DEF S
  <2>1. QED
    BY <1>2, <1>3, SetInduction
<1>5. P(MatRows)
  BY <1>4, MatrixSizes
<1>6. QED
  BY <1>1, <1>5 DEF P, RowIds

LEMMA RowSpaceLeast ==
  ASSUME NEW d \in Buffer, NEW V, Subspace(V), \A r \in RowIds : Row(d, r) \in V
  PROVE  RowSpace(d) \subseteq V
<1>1. PICK f : IsSpan(d, MatRows, f) /\ RowSpace(d) = f[MatRows]
  BY RowSpaceIsSpan
<1> DEFINE S == {n \in Nat : n <= MatRows => f[n] \subseteq V}
<1>2. 0 \in S
  <2>1. f[0] = {ZeroRow}
    BY <1>1, SpanSteps, MatrixSizes
  <2>2. QED
    BY <2>1 DEF Subspace
<1>3. ASSUME NEW n \in Nat, n \in S
      PROVE  n + 1 \in S
  <2>1. SUFFICES ASSUME n + 1 <= MatRows
                 PROVE  f[n + 1] \subseteq V
    OBVIOUS
  <2>2. n \in RowIds /\ n <= MatRows
    BY <2>1, MatrixSizes DEF RowIds
  <2>3. \A x \in f[n + 1] : \E u \in f[n], a \in Elem : x = Add(u, a, Row(d, n))
    BY <1>1, <2>2, NextSpan
  <2>4. f[n] \subseteq V /\ Row(d, n) \in V
    BY <1>3, <2>2
  <2>5. \A a \in Elem, u \in f[n] : Add(u, a, Row(d, n)) \in V
    BY <2>4 DEF Subspace
  <2>6. QED
    BY <2>3, <2>5
<1>4. Nat \subseteq S
  <2> HIDE DEF S
  <2>1. QED
    BY <1>2, <1>3, SetInduction
<1>5. QED
  BY <1>1, <1>4, MatrixSizes

LEMMA SameRowSpace ==
  ASSUME NEW d \in Buffer, NEW e \in Buffer,
         \A r \in RowIds : Row(d, r) \in RowSpace(e) /\ Row(e, r) \in RowSpace(d)
  PROVE  RowSpace(d) = RowSpace(e)
<1>1. RowSpace(d) \subseteq RowSpace(e)
  BY RowSpaceContains, RowSpaceLeast
<1>2. RowSpace(e) \subseteq RowSpace(d)
  BY RowSpaceContains, RowSpaceLeast
<1>3. QED
  BY <1>1, <1>2

LEMMA ColsInStride == ColIds \subseteq StrideIds /\ ColIds = 0..(MatCols - 1)
BY MatrixSizes DEF ColIds, StrideIds

LEMMA AxpyRows ==
  ASSUME NEW d \in Buffer, NEW dst \in RowIds, NEW src \in RowIds, NEW c \in Elem,
         NEW start \in 0..MatCols,
         \A j \in ColIds : j < start => d[At(src, j)] = Zero
  PROVE  /\ Row(RowAxpyFrom(d, dst, c, src, start), dst) = Add(Row(d, dst), c, Row(d, src))
         /\ \A r \in RowIds \ {dst} :
              Row(RowAxpyFrom(d, dst, c, src, start), r) = Row(d, r)
<1>1. PICK e : e = RowAxpyFrom(d, dst, c, src, start)
  OBVIOUS
<1>2. \A r \in RowIds, j \in StrideIds :
        e[At(r, j)] = IF r = dst /\ j \in start..(MatCols - 1)
                      THEN Plus(d[At(r, j)], Times(c, d[At(src, j)])) ELSE d[At(r, j)]
  BY <1>1, AxpyEntries
<1>3. ASSUME NEW j \in ColIds
      PROVE  e[At(dst, j)] = Plus(d[At(dst, j)], Times(c, d[At(src, j)]))
  <2>1. j \in StrideIds /\ j \in 0..(MatCols - 1) /\ start \in Nat /\ MatCols \in Nat
    BY ColsInStride, MatrixSizes
  <2>2. CASE j >= start
    BY <1>2, <2>1, <2>2
  <2>3. CASE j < start
    <3>1. e[At(dst, j)] = d[At(dst, j)] /\ d[At(src, j)] = Zero
      BY <1>2, <2>1, <2>3
    <3>2. d[At(dst, j)] \in Elem
      BY <2>1, BufferEntries
    <3>3. Plus(d[At(dst, j)], Times(c, Zero)) = d[At(dst, j)]
      BY <3>2, FieldAssumption
    <3>4. QED
      BY <3>1, <3>3
  <2>4. QED
    BY <2>1, <2>2, <2>3
<1>4. ASSUME NEW r \in RowIds, r # dst
      PROVE  Row(e, r) = Row(d, r)
  <2>1. \A j \in ColIds : e[At(r, j)] = d[At(r, j)]
    BY <1>2, <1>4, ColsInStride
  <2>2. QED
    BY <2>1 DEF Row
<1>5. Row(e, dst) = Add(Row(d, dst), c, Row(d, src))
  BY <1>3 DEF Row, Add
<1>6. QED
  BY <1>1, <1>4, <1>5

LEMMA ScaleRows ==
  ASSUME NEW d \in Buffer, NEW s \in RowIds, NEW c \in Elem, NEW start \in 0..MatCols,
         \A j \in ColIds : j < start => d[At(s, j)] = Zero
  PROVE  /\ Row(RowScaleFrom(d, s, c, start), s) = Add(ZeroRow, c, Row(d, s))
         /\ \A r \in RowIds \ {s} : Row(RowScaleFrom(d, s, c, start), r) = Row(d, r)
<1>1. PICK e : e = RowScaleFrom(d, s, c, start)
  OBVIOUS
<1>2. \A r \in RowIds, j \in StrideIds :
        e[At(r, j)] = IF r = s /\ j \in start..(MatCols - 1)
                      THEN Times(c, d[At(r, j)]) ELSE d[At(r, j)]
  BY <1>1, ScaleEntries
<1>3. ASSUME NEW j \in ColIds
      PROVE  e[At(s, j)] = Plus(Zero, Times(c, d[At(s, j)]))
  <2>1. j \in StrideIds /\ j \in 0..(MatCols - 1) /\ start \in Nat /\ MatCols \in Nat
    BY ColsInStride, MatrixSizes
  <2>2. d[At(s, j)] \in Elem
    BY <2>1, BufferEntries
  <2>3. Plus(Zero, Times(c, d[At(s, j)])) = Times(c, d[At(s, j)]) /\ Times(c, Zero) = Zero
    BY <2>2, FieldAssumption
  <2>4. CASE j >= start
    BY <1>2, <2>1, <2>3, <2>4
  <2>5. CASE j < start
    BY <1>2, <2>1, <2>3, <2>5
  <2>6. QED
    BY <2>1, <2>4, <2>5
<1>4. ASSUME NEW r \in RowIds, r # s
      PROVE  Row(e, r) = Row(d, r)
  <2>1. \A j \in ColIds : e[At(r, j)] = d[At(r, j)]
    BY <1>2, <1>4, ColsInStride
  <2>2. QED
    BY <2>1 DEF Row
<1>5. Row(e, s) = Add(ZeroRow, c, Row(d, s))
  BY <1>3 DEF Row, Add, ZeroRow
<1>6. QED
  BY <1>1, <1>4, <1>5

LEMMA AxpyKeepsSpace ==
  ASSUME NEW d \in Buffer, NEW dst \in RowIds, NEW src \in RowIds, dst # src, NEW c \in Elem,
         NEW start \in 0..MatCols,
         \A j \in ColIds : j < start => d[At(src, j)] = Zero
  PROVE  RowSpace(RowAxpyFrom(d, dst, c, src, start)) = RowSpace(d)
<1>1. PICK e \in Buffer : e = RowAxpyFrom(d, dst, c, src, start)
  BY AxpyEntries
<1>2. Row(e, dst) = Add(Row(d, dst), c, Row(d, src))
      /\ \A r \in RowIds \ {dst} : Row(e, r) = Row(d, r)
  BY <1>1, AxpyRows
<1>3. Row(d, dst) = Add(Row(e, dst), c, Row(e, src))
  BY <1>2, AddTwice, RowType
<1>4. ASSUME NEW r \in RowIds
      PROVE  Row(d, r) \in RowSpace(e) /\ Row(e, r) \in RowSpace(d)
  <2>1. CASE r = dst
    BY <1>2, <1>3, <2>1, RowSpaceContains DEF Subspace
  <2>2. CASE r # dst
    <3>1. Row(e, r) = Row(d, r)
      BY <1>2, <2>2
    <3>2. QED
      BY <3>1, RowSpaceContains
  <2>3. QED
    BY <2>1, <2>2
<1>5. QED
  BY <1>1, <1>4, SameRowSpace

LEMMA ScaleKeepsSpace ==
  ASSUME NEW d \in Buffer, NEW s \in RowIds, NEW c \in Elem, c # Zero,
         NEW start \in 0..MatCols,
         \A j \in ColIds : j < start => d[At(s, j)] = Zero
  PROVE  RowSpace(RowScaleFrom(d, s, c, start)) = RowSpace(d)
<1>1. PICK e \in Buffer : e = RowScaleFrom(d, s, c, start)
  BY ScaleEntries
<1>2. Row(e, s) = Add(ZeroRow, c, Row(d, s))
      /\ \A r \in RowIds \ {s} : Row(e, r) = Row(d, r)
  BY <1>1, ScaleRows
<1>3. PICK b \in Elem : Times(b, c) = One
  BY FieldAssumption
<1>4. Row(d, s) = Add(ZeroRow, b, Row(e, s))
  <2>1. ASSUME NEW x \in Elem
        PROVE  Plus(Zero, Times(b, Plus(Zero, Times(c, x)))) = x
    <3>1. PICK y \in Elem : y = Times(c, x)
      BY FieldAssumption
    <3>2. Times(b, y) = Times(Times(b, c), x)
      BY <3>1, FieldAssumption
    <3>3. Times(One, x) = x /\ Times(b, y) \in Elem
      BY FieldAssumption
    <3>4. \A z \in Elem : Plus(Zero, z) = z
      BY FieldAssumption
    <3>5. QED
      BY <1>3, <3>1, <3>2, <3>3, <3>4
  <2>2. \A j \in ColIds : Row(d, s)[j] \in Elem
    BY RowType DEF RowVector
  <2>3. Row(d, s) = [j \in ColIds |-> Row(d, s)[j]]
    BY DEF Row
  <2>4. \A j \in ColIds : Row(e, s)[j] = Plus(Zero, Times(c, Row(d, s)[j]))
    BY <1>2 DEF Add, ZeroRow
  <2>5. QED
    BY <2>1, <2>2, <2>3, <2>4 DEF Add, ZeroRow
<1>5. ASSUME NEW r \in RowIds
      PROVE  Row(d, r) \in RowSpace(e) /\ Row(e, r) \in RowSpace(d)
  <2>1. CASE r = s
    BY <1>2, <1>4, <2>1, RowSpaceContains DEF Subspace
  <2>2. CASE r # s
    <3>1. Row(e, r) = Row(d, r)
      BY <1>2, <2>2
    <3>2. QED
      BY <3>1, RowSpaceContains
  <2>3. QED
    BY <2>1, <2>2
<1>6. QED
  BY <1>1, <1>5, SameRowSpace

LEMMA SwapKeepsSpace ==
  ASSUME NEW d \in Buffer, NEW a \in RowIds, NEW b \in RowIds
  PROVE  RowSpace(Swapped(d, a, b)) = RowSpace(d)
<1>1. PICK e \in Buffer : e = Swapped(d, a, b)
  BY SwapEntries
<1>0. \A r \in RowIds, j \in StrideIds : e[At(r, j)] = d[At(Other(r, a, b), j)]
  BY <1>1, SwapEntries
<1>2. ASSUME NEW r \in RowIds
      PROVE  /\ Other(r, a, b) \in RowIds
             /\ Row(e, r) = Row(d, Other(r, a, b)) /\ Row(e, Other(r, a, b)) = Row(d, r)
  <2>1. Other(r, a, b) \in RowIds /\ Other(Other(r, a, b), a, b) = r
    BY DEF Other
  <2>2. ASSUME NEW q \in RowIds
        PROVE  Row(e, q) = Row(d, Other(q, a, b))
    <3>1. PICK o : o = Other(q, a, b)
      OBVIOUS
    <3>2. \A j \in ColIds : e[At(q, j)] = d[At(o, j)]
      BY <1>0, <3>1, ColsInStride
    <3>3. Row(e, q) = Row(d, o)
      BY <3>2 DEF Row
    <3>4. QED
      BY <3>1, <3>3
  <2>3. QED
    BY <2>1, <2>2
<1>3. ASSUME NEW r \in RowIds
      PROVE  Row(d, r) \in RowSpace(e) /\ Row(e, r) \in RowSpace(d)
  BY <1>2, RowSpaceContains
<1>4. QED
  BY <1>1, <1>3, SameRowSpace

(***************************************************************************)
(* The first n rows of d have their pivots before column c, ascending and  *)
(* alone in their columns, and the rows after them nothing before c.       *)
(***************************************************************************)
Pivots(d, n, c, p) ==
  /\ \A r, q \in 0..(n - 1) : r < q => p[r] < p[q]
  /\ \A r \in 0..(n - 1) :
       /\ p[r] < c
       /\ \A j \in ColIds : j < p[r] => d[At(r, j)] = Zero
       /\ \A q \in RowIds : d[At(q, p[r])] = IF q = r THEN One ELSE Zero
  /\ \A r \in n..(MatRows - 1), j \in ColIds : j < c => d[At(r, j)] = Zero

Reduced(d, n, c) == \E p \in [0..(n - 1) -> ColIds] : Pivots(d, n, c, p)

EliminationInv ==
  /\ mat_pc \in {"find", "clear"} => Reduced(data, pivot_row, col)
  /\ mat_rank # NoRank => mat_pc = "idle" /\ Reduced(data, mat_rank, MatCols)

ClearRowsInv ==
  mat_pc = "clear" =>
    /\ col < MatCols /\ pivot_row < MatRows
    /\ data[At(pivot_row, col)] = One
    /\ \A q \in RowIds : q < row /\ q # pivot_row => data[At(q, col)] = Zero

MatrixInv ==
  MatrixTypeOK /\ PaddingIsZero /\ RowSpaceKept /\ EliminationInv /\ ClearRowsInv

-----------------------------------------------------------------------------
(***************************************************************************)
(* What is done to columns from c on does not disturb the pivots before c. *)
(***************************************************************************)
LEMMA ReducedBefore ==
  ASSUME NEW d, NEW e, NEW n \in 0..MatRows, NEW c \in 0..MatCols, Reduced(d, n, c),
         \A r \in RowIds, j \in ColIds : j < c => e[At(r, j)] = d[At(r, j)]
  PROVE  Reduced(e, n, c)
<1>1. PICK p \in [0..(n - 1) -> ColIds] : Pivots(d, n, c, p)
  BY DEF Reduced
<1>2. /\ 0..(n - 1) \subseteq RowIds /\ n..(MatRows - 1) \subseteq RowIds
      /\ n \in Nat /\ c \in Nat /\ ColIds \subseteq Nat
  BY MatrixSizes, ColsInStride DEF RowIds
<1>3. ASSUME NEW r \in 0..(n - 1)
      PROVE  /\ p[r] < c
             /\ \A j \in ColIds : j < p[r] => e[At(r, j)] = Zero
             /\ \A q \in RowIds : e[At(q, p[r])] = IF q = r THEN One ELSE Zero
  <2>1. p[r] \in ColIds /\ p[r] < c /\ r \in RowIds
    BY <1>1, <1>2 DEF Pivots
  <2>2. ASSUME NEW j \in ColIds, j < p[r]
        PROVE  j < c
    <3>1. p[r] \in Nat /\ j \in Nat
      BY <1>2, <2>1
    <3>2. QED
      BY <1>2, <2>1, <2>2, <3>1
  <2>3. ASSUME NEW j \in ColIds, j < p[r]
        PROVE  e[At(r, j)] = Zero
    <3>1. d[At(r, j)] = Zero
      BY <1>1, <2>3 DEF Pivots
    <3>2. j < c
      BY <2>2, <2>3
    <3>3. QED
      BY <2>1, <3>1, <3>2
  <2>4. \A q \in RowIds : e[At(q, p[r])] = d[At(q, p[r])]
    BY <2>1
  <2>5. \A q \in RowIds : d[At(q, p[r])] = IF q = r THEN One ELSE Zero
    BY <1>1 DEF Pivots
  <2>6. QED
    BY <2>1, <2>3, <2>4, <2>5
<1>4. \A r \in n..(MatRows - 1), j \in ColIds : j < c => e[At(r, j)] = Zero
  BY <1>1, <1>2 DEF Pivots
<1>5. \A r, q \in 0..(n - 1) : r < q => p[r] < p[q]
  BY <1>1 DEF Pivots
<1>6. Pivots(e, n, c, p)
  BY <1>3, <1>4, <1>5 DEF Pivots
<1>7. QED
  BY <1>6 DEF Reduced

(***************************************************************************)
(* A column that is zero from row n on needs no pivot.                     *)
(***************************************************************************)
LEMMA ReducedSkip ==
  ASSUME NEW d, NEW n \in 0..MatRows, NEW c \in ColIds, Reduced(d, n, c),
         \A r \in n..(MatRows - 1) : d[At(r, c)] = Zero
  PROVE  Reduced(d, n, c + 1)
<1>1. PICK p \in [0..(n - 1) -> ColIds] : Pivots(d, n, c, p)
  BY DEF Reduced
<1>2. c \in Nat /\ ColIds \subseteq Nat
  BY ColsInStride
<1>3. ASSUME NEW r \in 0..(n - 1)
      PROVE  p[r] < c + 1
  <2>1. p[r] \in Nat /\ p[r] < c
    BY <1>1, <1>2 DEF Pivots
  <2>2. QED
    BY <1>2, <2>1
<1>4. \A j \in ColIds : j < c + 1 => j < c \/ j = c
  BY <1>2
<1>5. \A r \in n..(MatRows - 1), j \in ColIds : j < c + 1 => d[At(r, j)] = Zero
  BY <1>1, <1>4 DEF Pivots
<1>6. Pivots(d, n, c + 1, p)
  BY <1>1, <1>3, <1>5 DEF Pivots
<1>7. QED
  BY <1>6 DEF Reduced

(***************************************************************************)
(* A column that is alone in row n makes row n the next with a pivot.      *)
(***************************************************************************)
LEMMA ReducedMore ==
  ASSUME NEW d, NEW n \in RowIds, NEW c \in ColIds, Reduced(d, n, c),
         \A q \in RowIds : d[At(q, c)] = IF q = n THEN One ELSE Zero
  PROVE  Reduced(d, n + 1, c + 1)
<1>1. PICK p \in [0..(n - 1) -> ColIds] : Pivots(d, n, c, p)
  BY DEF Reduced
<1>2. c \in Nat /\ ColIds \subseteq Nat /\ n \in Nat /\ MatRows \in Nat /\ n < MatRows
      /\ RowIds = 0..(MatRows - 1)
  BY ColsInStride, MatrixSizes DEF RowIds
<1> DEFINE s == [r \in 0..n |-> IF r < n THEN p[r] ELSE c]
<1>3. s \in [0..n -> ColIds] /\ s[n] = c /\ \A r \in 0..(n - 1) : s[r] = p[r]
  BY <1>2
<1> HIDE DEF s
<1>4. \A r \in 0..n : r = n \/ r \in 0..(n - 1)
  BY <1>2
<1>5. \A r, q \in 0..n : r < q => s[r] < s[q]
  <2>1. SUFFICES ASSUME NEW r \in 0..n, NEW q \in 0..n, r < q
                 PROVE  s[r] < s[q]
    OBVIOUS
  <2>2. r \in 0..(n - 1) /\ s[r] = p[r] /\ p[r] < c
    BY <1>1, <1>2, <1>3, <2>1 DEF Pivots
  <2>3. CASE q = n
    BY <1>3, <2>2, <2>3
  <2>4. CASE q \in 0..(n - 1)
    BY <1>1, <1>3, <2>1, <2>2, <2>4 DEF Pivots
  <2>5. QED
    BY <1>4, <2>3, <2>4
<1>6. ASSUME NEW r \in 0..n
      PROVE  /\ s[r] < c + 1
             /\ \A j \in ColIds : j < s[r] => d[At(r, j)] = Zero
             /\ \A q \in RowIds : d[At(q, s[r])] = IF q = r THEN One ELSE Zero
  <2>1. CASE r = n
    <3>1. n \in n..(MatRows - 1)
      BY <1>2
    <3>2. \A j \in ColIds : j < c => d[At(n, j)] = Zero
      BY <1>1, <3>1 DEF Pivots
    <3>3. QED
      BY <1>2, <1>3, <2>1, <3>2
  <2>2. CASE r \in 0..(n - 1)
    <3>1. s[r] = p[r] /\ p[r] \in Nat /\ p[r] < c
      BY <1>1, <1>2, <1>3, <2>2 DEF Pivots
    <3>2. QED
      BY <1>1, <1>2, <2>2, <3>1 DEF Pivots
  <2>3. QED
    BY <1>4, <2>1, <2>2
<1>7. ASSUME NEW r \in (n + 1)..(MatRows - 1), NEW j \in ColIds, j < c + 1
      PROVE  d[At(r, j)] = Zero
  <2>1. r \in n..(MatRows - 1) /\ r \in RowIds /\ r # n
    BY <1>2
  <2>2. j < c \/ j = c
    BY <1>2, <1>7
  <2>3. QED
    BY <1>1, <2>1, <2>2 DEF Pivots
<1>8. (n + 1) - 1 = n
  BY <1>2
<1>9. Pivots(d, n + 1, c + 1, s)
  BY <1>5, <1>6, <1>7, <1>8 DEF Pivots
<1>10. QED
  BY <1>3, <1>8, <1>9 DEF Reduced

(***************************************************************************)
(* Rows without a pivot may be exchanged.                                  *)
(***************************************************************************)
LEMMA ReducedSwap ==
  ASSUME NEW d \in Buffer, NEW n \in 0..MatRows, NEW c \in 0..MatCols, Reduced(d, n, c),
         NEW a \in RowIds, NEW b \in RowIds, n <= a, n <= b
  PROVE  Reduced(Swapped(d, a, b), n, c)
<1>1. PICK p \in [0..(n - 1) -> ColIds] : Pivots(d, n, c, p)
  BY DEF Reduced
<1>2. PICK e : e = Swapped(d, a, b)
  OBVIOUS
<1>3. \A q \in RowIds, j \in ColIds : e[At(q, j)] = d[At(Other(q, a, b), j)]
  <2>1. \A q \in RowIds, j \in StrideIds : e[At(q, j)] = d[At(Other(q, a, b), j)]
    BY <1>2, SwapEntries
  <2>2. QED
    BY <2>1, ColsInStride
<1>4. /\ RowIds = 0..(MatRows - 1) /\ MatRows \in Nat /\ n \in Nat
      /\ 0..(n - 1) \subseteq RowIds /\ n..(MatRows - 1) \subseteq RowIds
  BY MatrixSizes DEF RowIds
<1>5. /\ \A q \in RowIds : Other(q, a, b) \in RowIds
      /\ \A q \in 0..(n - 1) : Other(q, a, b) = q
      /\ \A q \in n..(MatRows - 1) : Other(q, a, b) \in n..(MatRows - 1)
      /\ \A q \in RowIds, r \in 0..(n - 1) : Other(q, a, b) = r <=> q = r
  <2>1. \A q : Other(q, a, b) \in {a, b, q}
    BY DEF Other
  <2>2. \A q : q # a /\ q # b => Other(q, a, b) = q
    BY DEF Other
  <2>3. a \in n..(MatRows - 1) /\ b \in n..(MatRows - 1)
    BY <1>4
  <2>4. \A r \in 0..(n - 1) : r \notin n..(MatRows - 1)
    BY <1>4
  <2>5. \A q : q \in {a, b} => Other(q, a, b) \in {a, b}
    BY DEF Other
  <2>6. QED
    BY <2>1, <2>2, <2>3, <2>4, <2>5
<1>6. ASSUME NEW r \in 0..(n - 1)
      PROVE  /\ p[r] < c
             /\ \A j \in ColIds : j < p[r] => e[At(r, j)] = Zero
             /\ \A q \in RowIds : e[At(q, p[r])] = IF q = r THEN One ELSE Zero
  <2>1. p[r] \in ColIds /\ p[r] < c /\ r \in RowIds
    BY <1>1, <1>4 DEF Pivots
  <2>2. \A j \in ColIds : j < p[r] => e[At(r, j)] = Zero
    BY <1>1, <1>3, <1>5, <2>1 DEF Pivots
  <2>3. ASSUME NEW q \in RowIds
        PROVE  e[At(q, p[r])] = IF q = r THEN One ELSE Zero
    <3>1. e[At(q, p[r])] = d[At(Other(q, a, b), p[r])] /\ Other(q, a, b) \in RowIds
      BY <1>3, <1>5, <2>1
    <3>2. d[At(Other(q, a, b), p[r])] = IF Other(q, a, b) = r THEN One ELSE Zero
      BY <1>1, <3>1 DEF Pivots
    <3>3. QED
      BY <1>5, <3>1, <3>2
  <2>4. QED
    BY <2>1, <2>2, <2>3
<1>7. ASSUME NEW r \in n..(MatRows - 1), NEW j \in ColIds, j < c
      PROVE  e[At(r, j)] = Zero
  <2>1. e[At(r, j)] = d[At(Other(r, a, b), j)]
    BY <1>3, <1>4
  <2>2. QED
    BY <1>1, <1>5, <1>7, <2>1 DEF Pivots
<1>8. Pivots(e, n, c, p)
  BY <1>1, <1>6, <1>7 DEF Pivots
<1>9. QED
  BY <1>2, <1>8 DEF Reduced

Padded(d) == \A r \in RowIds, j \in MatCols..(Stride - 1) : d[At(r, j)] = Zero

LEMMA PaddingIds ==
  /\ MatCols..(Stride - 1) \subseteq StrideIds
  /\ \A j \in MatCols..(Stride - 1), start \in 0..MatCols : j \notin start..(MatCols - 1)
  /\ \A j \in MatCols..(Stride - 1) : j \notin ColIds
BY MatrixSizes DEF StrideIds, ColIds

(***************************************************************************)
(* The operations keep the padding.                                        *)
(***************************************************************************)
LEMMA PaddingKept ==
  ASSUME NEW d \in Buffer, Padded(d)
  PROVE  /\ \A dst, src \in RowIds, c \in Elem, start \in 0..MatCols :
              Padded(RowAxpyFrom(d, dst, c, src, start))
         /\ \A s \in RowIds, c \in Elem, start \in 0..MatCols :
              Padded(RowScaleFrom(d, s, c, start))
         /\ \A a, b \in RowIds : Padded(Swapped(d, a, b))
<1>1. ASSUME NEW dst \in RowIds, NEW src \in RowIds, NEW c \in Elem, NEW start \in 0..MatCols
      PROVE  Padded(RowAxpyFrom(d, dst, c, src, start))
  <2>1. PICK e : e = RowAxpyFrom(d, dst, c, src, start)
    OBVIOUS
  <2>2. \A r \in RowIds, j \in StrideIds :
          e[At(r, j)] = IF r = dst /\ j \in start..(MatCols - 1)
                        THEN Plus(d[At(r, j)], Times(c, d[At(src, j)])) ELSE d[At(r, j)]
    BY <2>1, AxpyEntries
  <2>3. \A r \in RowIds, j \in MatCols..(Stride - 1) : e[At(r, j)] = d[At(r, j)]
    BY <2>2, PaddingIds
  <2>4. QED
    BY <2>1, <2>3 DEF Padded
<1>2. ASSUME NEW s \in RowIds, NEW c \in Elem, NEW start \in 0..MatCols
      PROVE  Padded(RowScaleFrom(d, s, c, start))
  <2>1. PICK e : e = RowScaleFrom(d, s, c, start)
    OBVIOUS
  <2>2. \A r \in RowIds, j \in StrideIds :
          e[At(r, j)] = IF r = s /\ j \in start..(MatCols - 1)
                        THEN Times(c, d[At(r, j)]) ELSE d[At(r, j)]
    BY <2>1, ScaleEntries
  <2>3. \A r \in RowIds, j \in MatCols..(Stride - 1) : e[At(r, j)] = d[At(r, j)]
    BY <2>2, PaddingIds
  <2>4. QED
    BY <2>1, <2>3 DEF Padded
<1>3. ASSUME NEW a \in RowIds, NEW b \in RowIds
      PROVE  Padded(Swapped(d, a, b))
  <2>1. PICK e : e = Swapped(d, a, b)
    OBVIOUS
  <2>2. \A r \in RowIds, j \in StrideIds : e[At(r, j)] = d[At(Other(r, a, b), j)]
    BY <2>1, SwapEntries
  <2>3. \A r \in RowIds, j \in MatCols..(Stride - 1) : e[At(r, j)] = d[At(Other(r, a, b), j)]
    BY <2>2, PaddingIds
  <2>4. \A r \in RowIds : Other(r, a, b) \in RowIds
    BY DEF Other
  <2>5. QED
    BY <2>1, <2>3, <2>4 DEF Padded
<1>4. QED
  BY <1>1, <1>2, <1>3

-----------------------------------------------------------------------------
LEMMA MatrixInitInv == MatrixInit => MatrixInv
<1> SUFFICES ASSUME MatrixInit PROVE MatrixInv
  OBVIOUS
<1>1. ZeroBuffer \in Buffer /\ Identity \in Buffer
  BY FieldAssumption DEF ZeroBuffer, Identity, Buffer
<1>2. data \in Buffer /\ made = data
  BY <1>1 DEF MatrixInit
<1>3. ASSUME NEW r \in RowIds, NEW j \in MatCols..(Stride - 1)
      PROVE  data[At(r, j)] = Zero
  <2>1. At(r, j) \in Index /\ j \in StrideIds
    BY Addresses, PaddingIds
  <2>2. CASE data = ZeroBuffer
    BY <2>1, <2>2 DEF ZeroBuffer, Index
  <2>3. CASE MatRows = MatCols /\ data = Identity
    <3>1. ASSUME NEW q \in RowIds, At(r, j) = q * Stride + q
          PROVE  FALSE
      <4>1. q \in ColIds /\ q \in StrideIds
        BY <2>3, ColsInStride DEF RowIds, ColIds
      <4>2. At(r, j) = At(q, q)
        BY <3>1 DEF At
      <4>3. j = q
        BY <2>1, <4>1, <4>2, Addresses
      <4>4. QED
        BY <4>1, <4>3, PaddingIds
    <3>2. QED
      BY <2>1, <2>3, <3>1 DEF Identity, Index
  <2>4. QED
    BY <2>2, <2>3 DEF MatrixInit
<1>4. MatrixTypeOK
  BY <1>2, MatrixSizes DEF MatrixInit, MatrixTypeOK
<1>5. QED
  BY <1>2, <1>3, <1>4 DEF MatrixInit, MatrixInv, PaddingIsZero, RowSpaceKept,
                          EliminationInv, ClearRowsInv

(***************************************************************************)
(* A method called between eliminations leaves a new matrix.               *)
(***************************************************************************)
LEMMA ChangeInv ==
  ASSUME MatrixInv, NEW d \in Buffer, Padded(d), Change(d)
  PROVE  MatrixInv'
<1>1. MatrixTypeOK'
  BY DEF MatrixInv, MatrixTypeOK, Change
<1>2. PaddingIsZero'
  BY DEF Padded, PaddingIsZero, Change
<1>3. QED
  BY <1>1, <1>2 DEF Change, MatrixInv, RowSpaceKept, EliminationInv, ClearRowsInv

LEMMA WriteInv ==
  ASSUME MatrixInv, NEW r \in RowIds, NEW j \in ColIds, NEW v \in Elem, Write(r, j, v)
  PROVE  MatrixInv'
<1> DEFINE d == [data EXCEPT ![At(r, j)] = v]
<1>1. d \in Buffer
  BY DEF MatrixInv, MatrixTypeOK, Buffer
<1>2. \A q \in RowIds, k \in MatCols..(Stride - 1) : At(q, k) # At(r, j)
  <2>1. j \in StrideIds
    BY ColsInStride
  <2>2. QED
    BY <2>1, Addresses, PaddingIds
<1>3. Padded(d)
  <2>1. \A q \in RowIds, k \in MatCols..(Stride - 1) : d[At(q, k)] = data[At(q, k)]
    <3>1. \A q \in RowIds, k \in MatCols..(Stride - 1) : At(q, k) \in Index
      BY Addresses, PaddingIds
    <3>2. DOMAIN data = Index
      BY DEF MatrixInv, MatrixTypeOK, Buffer, Index
    <3>3. QED
      BY <1>2, <3>1, <3>2
  <2>2. QED
    BY <2>1 DEF Padded, MatrixInv, PaddingIsZero
<1>4. QED
  BY <1>1, <1>3, ChangeInv DEF Write

LEMMA CallInv ==
  ASSUME MatrixInv, MatrixCall
  PROVE  MatrixInv'
<1>1. /\ data \in Buffer /\ Padded(data) /\ 0 \in 0..MatCols
  BY MatrixSizes DEF MatrixInv, MatrixTypeOK, PaddingIsZero, Padded
<1>2. CASE \E r \in RowIds, j \in ColIds, v \in Elem : Write(r, j, v)
  BY <1>2, WriteInv
<1>3. CASE \E dst, src \in RowIds, c \in Elem : RowAxpy(dst, c, src)
  BY <1>1, <1>3, AxpyEntries, PaddingKept, ChangeInv DEF RowAxpy
<1>4. CASE \E r \in RowIds, c \in Elem : RowScale(r, c)
  BY <1>1, <1>4, ScaleEntries, PaddingKept, ChangeInv DEF RowScale
<1>5. CASE \E a, b \in RowIds : SwapRows(a, b)
  BY <1>1, <1>5, SwapEntries, PaddingKept, ChangeInv DEF SwapRows
<1>6. CASE BeginElimination
  <2>1. MatrixTypeOK'
    BY <1>6, MatrixSizes DEF MatrixInv, MatrixTypeOK, BeginElimination
  <2>2. PaddingIsZero' /\ RowSpaceKept'
    BY <1>6 DEF MatrixInv, PaddingIsZero, RowSpaceKept, BeginElimination
  <2>3. Reduced(data, 0, 0)
    <3>1. PICK p : p = [r \in 0..(0 - 1) |-> 0]
      OBVIOUS
    <3>2. 0..(0 - 1) = {} /\ p \in [0..(0 - 1) -> ColIds]
      BY <3>1
    <3>3. \A j \in ColIds : ~(j < 0)
      BY ColsInStride
    <3>4. Pivots(data, 0, 0, p)
      BY <3>2, <3>3 DEF Pivots
    <3>5. QED
      BY <3>2, <3>4 DEF Reduced
  <2>4. EliminationInv' /\ ClearRowsInv'
    BY <1>6, <2>3 DEF BeginElimination, EliminationInv, ClearRowsInv
  <2>5. QED
    BY <2>1, <2>2, <2>4 DEF MatrixInv
<1>7. QED
  BY <1>2, <1>3, <1>4, <1>5, <1>6 DEF MatrixCall

LEMMA NoPivotInv ==
  ASSUME MatrixInv, NoPivot
  PROVE  MatrixInv'
<1>1. /\ col \in ColIds /\ pivot_row \in 0..MatRows /\ Reduced(data, pivot_row, col)
      /\ col + 1 \in 0..MatCols
  BY MatrixSizes, ColsInStride DEF MatrixInv, MatrixTypeOK, EliminationInv, NoPivot
<1>2. \A r \in pivot_row..(MatRows - 1) : data[At(r, col)] = Zero
  BY DEF NoPivot, Candidates
<1>3. Reduced(data, pivot_row, col + 1)
  BY <1>1, <1>2, ReducedSkip
<1>4. MatrixTypeOK'
  BY <1>1 DEF NoPivot, MatrixInv, MatrixTypeOK
<1>5. EliminationInv'
  BY <1>3 DEF NoPivot, MatrixInv, EliminationInv
<1>6. QED
  BY <1>4, <1>5 DEF NoPivot, MatrixInv, PaddingIsZero, RowSpaceKept, ClearRowsInv

(***************************************************************************)
(* A row without a pivot is zero before the column the elimination is at,  *)
(* and so before the aligned start of that column's operations.            *)
(***************************************************************************)
LEMMA ZeroBefore ==
  ASSUME NEW d, NEW n \in RowIds, NEW c \in 0..MatCols, Reduced(d, n, c)
  PROVE  /\ \A j \in ColIds : j < c => d[At(n, j)] = Zero
         /\ OperationStart(c) \in 0..MatCols
         /\ \A j \in ColIds : j < OperationStart(c) => j < c /\ d[At(n, j)] = Zero
<1>1. n \in n..(MatRows - 1)
  BY MatrixSizes DEF RowIds
<1>2. \A j \in ColIds : j < c => d[At(n, j)] = Zero
  BY <1>1 DEF Reduced, Pivots
<1>3. OperationStart(c) \in 0..c /\ c \in Nat /\ MatCols \in Nat /\ c <= MatCols
  BY MatrixSizes
<1>4. ColIds \subseteq Nat
  BY ColsInStride
<1>5. \A j \in ColIds : j < OperationStart(c) => j < c
  BY <1>3, <1>4
<1>6. QED
  BY <1>2, <1>3, <1>5

LEMMA TakePivotInv ==
  ASSUME MatrixInv, TakePivot
  PROVE  MatrixInv'
<1>1. /\ data \in Buffer /\ col \in ColIds /\ col \in 0..MatCols /\ col \in Nat
      /\ pivot_row \in 0..MatRows
      /\ Reduced(data, pivot_row, col) /\ Padded(data)
  BY MatrixSizes, ColsInStride
     DEF MatrixInv, MatrixTypeOK, PaddingIsZero, Padded, EliminationInv, TakePivot
<1>2. PICK r \in Candidates :
        LET d     == Swapped(data, r, pivot_row)
            pivot == d[At(pivot_row, col)]
        IN  data' = IF pivot = One THEN d
                    ELSE RowScaleFrom(d, pivot_row, Reciprocal(pivot), OperationStart(col))
  BY DEF TakePivot
<1>3. /\ r \in RowIds /\ pivot_row \in RowIds /\ pivot_row <= r
      /\ data[At(r, col)] # Zero
  BY <1>1, <1>2, MatrixSizes DEF Candidates, RowIds
<1>4. pivot_row \in Nat /\ pivot_row <= pivot_row
  BY <1>1
<1>5. PICK d \in Buffer : d = Swapped(data, r, pivot_row)
  BY <1>1, <1>3, SwapEntries
<1>6. /\ Reduced(d, pivot_row, col) /\ Padded(d) /\ RowSpace(d) = RowSpace(data)
  BY <1>1, <1>3, <1>4, <1>5, ReducedSwap, PaddingKept, SwapKeepsSpace
<1>7. d[At(pivot_row, col)] = data[At(r, col)]
  <2>1. col \in StrideIds /\ Other(pivot_row, r, pivot_row) = r
    BY <1>1, ColsInStride DEF Other
  <2>2. QED
    BY <1>1, <1>3, <1>5, <2>1, SwapEntries
<1>8. PICK pivot \in Elem : pivot = d[At(pivot_row, col)] /\ pivot # Zero
  <2>1. col \in StrideIds
    BY <1>1, ColsInStride
  <2>2. QED
    BY <1>3, <1>7, <2>1, BufferEntries
<1>9. PICK start \in 0..MatCols :
        /\ start = OperationStart(col) /\ start <= col
        /\ \A j \in ColIds : j < start => j < col /\ d[At(pivot_row, j)] = Zero
  <2>1. OperationStart(col) <= col
    BY <1>1, MatrixSizes
  <2>2. QED
    BY <1>1, <1>3, <1>6, <2>1, ZeroBefore
<1>10. /\ data' \in Buffer /\ Padded(data') /\ RowSpace(data') = RowSpace(data)
       /\ Reduced(data', pivot_row, col) /\ data'[At(pivot_row, col)] = One
  <2>1. CASE pivot = One
    <3>1. data' = d
      BY <1>2, <1>5, <1>8, <2>1
    <3>2. QED
      BY <1>6, <1>8, <2>1, <3>1
  <2>2. CASE pivot # One
    <3>1. PICK c \in Elem : c = Reciprocal(pivot) /\ Times(c, pivot) = One
      BY <1>8, FieldAssumption
    <3>2. c # Zero
      <4>1. Times(Zero, pivot) = Times(pivot, Zero) /\ Times(pivot, Zero) = Zero
        BY FieldAssumption
      <4>2. QED
        BY <3>1, <4>1, FieldAssumption
    <3>3. PICK e : e = RowScaleFrom(d, pivot_row, c, start)
      OBVIOUS
    <3>4. data' = e
      BY <1>2, <1>5, <1>8, <1>9, <2>2, <3>1, <3>3
    <3>5. \A q \in RowIds, j \in StrideIds :
            e[At(q, j)] = IF q = pivot_row /\ j \in start..(MatCols - 1)
                          THEN Times(c, d[At(q, j)]) ELSE d[At(q, j)]
      BY <1>3, <3>3, ScaleEntries
    <3>6. e \in Buffer /\ Padded(e)
      BY <1>3, <1>6, <3>3, ScaleEntries, PaddingKept
    <3>7. RowSpace(e) = RowSpace(d)
      BY <1>3, <1>9, <3>2, <3>3, ScaleKeepsSpace
    <3>8. e[At(pivot_row, col)] = One
      <4>1. col \in StrideIds /\ col \in start..(MatCols - 1)
        BY <1>1, <1>9, ColsInStride
      <4>2. QED
        BY <1>3, <1>8, <3>1, <3>5, <4>1
    <3>9. ASSUME NEW q \in RowIds, NEW j \in ColIds, j < col
          PROVE  e[At(q, j)] = d[At(q, j)]
      <4>1. e[At(q, j)] = IF q = pivot_row /\ j \in start..(MatCols - 1)
                          THEN Times(c, d[At(q, j)]) ELSE d[At(q, j)]
        BY <3>5, ColsInStride
      <4>2. d[At(pivot_row, j)] = Zero
        BY <1>1, <1>3, <1>6, <3>9, ZeroBefore
      <4>3. Times(c, Zero) = Zero
        BY FieldAssumption
      <4>4. QED
        BY <4>1, <4>2, <4>3
    <3>10. Reduced(e, pivot_row, col)
      BY <1>1, <1>6, <3>9, ReducedBefore
    <3>11. QED
      BY <1>6, <3>4, <3>6, <3>7, <3>8, <3>10
  <2>3. QED
    BY <2>1, <2>2
<1>11. /\ col < MatCols /\ pivot_row < MatRows
  BY <1>1, <1>3, MatrixSizes, ColsInStride DEF RowIds
<1>12. MatrixTypeOK'
  BY <1>10, MatrixSizes DEF TakePivot, MatrixInv, MatrixTypeOK
<1>13. PaddingIsZero' /\ RowSpaceKept'
  BY <1>10 DEF TakePivot, MatrixInv, PaddingIsZero, Padded, RowSpaceKept
<1>14. EliminationInv'
  BY <1>10 DEF TakePivot, MatrixInv, EliminationInv
<1>15. ClearRowsInv'
  <2>1. \A q \in RowIds : ~(q < 0)
    BY MatrixSizes DEF RowIds
  <2>2. QED
    BY <1>10, <1>11, <2>1 DEF TakePivot, ClearRowsInv
<1>16. QED
  BY <1>12, <1>13, <1>14, <1>15 DEF MatrixInv

LEMMA ClearRowInv ==
  ASSUME MatrixInv, ClearRow
  PROVE  MatrixInv'
<1>1. /\ data \in Buffer /\ col \in ColIds /\ col \in 0..MatCols /\ col \in Nat
      /\ pivot_row \in 0..MatRows /\ pivot_row \in RowIds
      /\ row \in RowIds /\ row \in Nat /\ row + 1 \in 0..MatRows
      /\ Reduced(data, pivot_row, col) /\ Padded(data)
      /\ data[At(pivot_row, col)] = One
      /\ \A q \in RowIds : q < row /\ q # pivot_row => data[At(q, col)] = Zero
  BY MatrixSizes, ColsInStride
     DEF MatrixInv, MatrixTypeOK, PaddingIsZero, Padded, EliminationInv, ClearRowsInv,
         ClearRow, RowIds
<1>2. PICK x \in Elem : x = data[At(row, col)]
  <2>1. col \in StrideIds
    BY <1>1, ColsInStride
  <2>2. QED
    BY <1>1, <2>1, BufferEntries
<1>3. /\ data' \in Buffer /\ Padded(data') /\ RowSpace(data') = RowSpace(data)
      /\ Reduced(data', pivot_row, col)
      /\ \A q \in RowIds \ {row} : data'[At(q, col)] = data[At(q, col)]
      /\ row = pivot_row => data'[At(row, col)] = One
      /\ row # pivot_row => data'[At(row, col)] = Zero
  <2>1. CASE row = pivot_row \/ x = Zero
    <3>1. data' = data
      BY <1>2, <2>1 DEF ClearRow
    <3>2. QED
      BY <1>1, <1>2, <2>1, <3>1
  <2>2. CASE row # pivot_row /\ x # Zero
    <3>1. PICK start \in 0..MatCols :
            /\ start = OperationStart(col) /\ start <= col
            /\ \A j \in ColIds : j < start => j < col /\ data[At(pivot_row, j)] = Zero
      <4>1. OperationStart(col) <= col
        BY <1>1, MatrixSizes
      <4>2. QED
        BY <1>1, <4>1, ZeroBefore
    <3>2. PICK e : e = RowAxpyFrom(data, row, x, pivot_row, start)
      OBVIOUS
    <3>3. data' = e
      BY <1>2, <2>2, <3>1, <3>2 DEF ClearRow
    <3>4. \A q \in RowIds, j \in StrideIds :
            e[At(q, j)] = IF q = row /\ j \in start..(MatCols - 1)
                          THEN Plus(data[At(q, j)], Times(x, data[At(pivot_row, j)]))
                          ELSE data[At(q, j)]
      BY <1>1, <3>2, AxpyEntries
    <3>5. e \in Buffer /\ Padded(e)
      BY <1>1, <3>2, AxpyEntries, PaddingKept
    <3>6. RowSpace(e) = RowSpace(data)
      BY <1>1, <2>2, <3>1, <3>2, AxpyKeepsSpace
    <3>7. /\ e[At(row, col)] = Zero
          /\ \A q \in RowIds \ {row} : e[At(q, col)] = data[At(q, col)]
      <4>1. col \in StrideIds /\ col \in start..(MatCols - 1)
        BY <1>1, <3>1, ColsInStride
      <4>2. e[At(row, col)] = Plus(x, Times(x, One))
        BY <1>1, <1>2, <3>4, <4>1
      <4>3. Plus(x, Times(x, One)) = Zero
        BY FieldAssumption
      <4>4. QED
        BY <3>4, <4>1, <4>2, <4>3
    <3>8. ASSUME NEW q \in RowIds, NEW j \in ColIds, j < col
          PROVE  e[At(q, j)] = data[At(q, j)]
      <4>1. e[At(q, j)] = IF q = row /\ j \in start..(MatCols - 1)
                          THEN Plus(data[At(q, j)], Times(x, data[At(pivot_row, j)]))
                          ELSE data[At(q, j)]
        BY <3>4, ColsInStride
      <4>2. data[At(pivot_row, j)] = Zero
        BY <1>1, <3>8, ZeroBefore
      <4>3. data[At(q, j)] \in Elem
        BY <1>1, ColsInStride, BufferEntries
      <4>4. Plus(data[At(q, j)], Times(x, Zero)) = data[At(q, j)]
        BY <4>3, FieldAssumption
      <4>5. QED
        BY <4>1, <4>2, <4>4
    <3>9. Reduced(e, pivot_row, col)
      BY <1>1, <3>8, ReducedBefore
    <3>10. QED
      BY <2>2, <3>3, <3>5, <3>6, <3>7, <3>9
  <2>3. QED
    BY <2>1, <2>2
<1>4. MatrixTypeOK'
  BY <1>1, <1>3 DEF ClearRow, MatrixInv, MatrixTypeOK
<1>5. PaddingIsZero' /\ RowSpaceKept'
  BY <1>3 DEF ClearRow, MatrixInv, PaddingIsZero, Padded, RowSpaceKept
<1>6. EliminationInv'
  BY <1>3 DEF ClearRow, MatrixInv, EliminationInv
<1>7. ClearRowsInv'
  <2>1. data'[At(pivot_row, col)] = One
    BY <1>1, <1>3
  <2>2. ASSUME NEW q \in RowIds, q < row + 1, q # pivot_row
        PROVE  data'[At(q, col)] = Zero
    <3>1. q < row \/ q = row
      BY <1>1, <2>2 DEF RowIds
    <3>2. QED
      BY <1>1, <1>3, <2>2, <3>1
  <2>3. QED
    BY <2>1, <2>2 DEF ClearRow, MatrixInv, ClearRowsInv
<1>8. QED
  BY <1>4, <1>5, <1>6, <1>7 DEF MatrixInv

LEMMA NextColumnInv ==
  ASSUME MatrixInv, NextColumn
  PROVE  MatrixInv'
<1>1. /\ col \in ColIds /\ col + 1 \in 0..MatCols
      /\ pivot_row \in RowIds /\ pivot_row + 1 \in 0..MatRows
      /\ Reduced(data, pivot_row, col) /\ data[At(pivot_row, col)] = One
      /\ \A q \in RowIds : q # pivot_row => data[At(q, col)] = Zero
  BY MatrixSizes, ColsInStride
     DEF MatrixInv, MatrixTypeOK, EliminationInv, ClearRowsInv, NextColumn, RowIds
<1>2. Reduced(data, pivot_row + 1, col + 1)
  BY <1>1, ReducedMore
<1>3. MatrixTypeOK'
  BY <1>1, MatrixSizes DEF NextColumn, MatrixInv, MatrixTypeOK
<1>4. EliminationInv'
  BY <1>2 DEF NextColumn, MatrixInv, EliminationInv
<1>5. QED
  BY <1>3, <1>4 DEF NextColumn, MatrixInv, PaddingIsZero, RowSpaceKept, ClearRowsInv

LEMMA FinishEliminationInv ==
  ASSUME MatrixInv, FinishElimination
  PROVE  MatrixInv'
<1>1. Reduced(data, pivot_row, MatCols)
  BY DEF MatrixInv, EliminationInv, FinishElimination
<1>2. MatrixTypeOK'
  BY MatrixSizes DEF FinishElimination, MatrixInv, MatrixTypeOK
<1>3. EliminationInv'
  BY <1>1 DEF FinishElimination, EliminationInv
<1>4. QED
  BY <1>2, <1>3 DEF FinishElimination, MatrixInv, PaddingIsZero, RowSpaceKept, ClearRowsInv

LEMMA MatrixInvariant == MatrixSpec => []MatrixInv
<1>1. ASSUME MatrixInv, [MatrixNext]_matrixVars
      PROVE  MatrixInv'
  <2>1. CASE MatrixCall
    BY <1>1, <2>1, CallInv
  <2>2. CASE MatrixStep
    BY <1>1, <2>2, NoPivotInv, TakePivotInv, ClearRowInv, NextColumnInv,
       FinishEliminationInv DEF MatrixStep
  <2>3. CASE UNCHANGED matrixVars
    BY <1>1, <2>3 DEF matrixVars, MatrixInv, MatrixTypeOK, PaddingIsZero, RowSpaceKept,
                      EliminationInv, ClearRowsInv
  <2>4. QED
    BY <1>1, <2>1, <2>2, <2>3 DEF MatrixNext
<1>2. QED
  BY MatrixInitInv, <1>1, PTL DEF MatrixSpec

(***************************************************************************)
(* A row of zeros depends on the others; rows with pivots do not, because  *)
(* all combinations of the others are zero at the pivot.                   *)
(***************************************************************************)
LEMMA WithoutRows ==
  ASSUME NEW d \in Buffer, NEW r \in RowIds
  PROVE  /\ Without(d, r) \in Buffer
         /\ Row(Without(d, r), r) = ZeroRow
         /\ \A q \in RowIds \ {r} : Row(Without(d, r), q) = Row(d, q)
<1>1. DOMAIN d = Index /\ \A i \in Index : d[i] \in Elem
  BY DEF Buffer, Index
<1>2. Without(d, r) \in Buffer
  BY <1>1, FieldAssumption DEF Without, Buffer, Index
<1>3. \A q \in RowIds, j \in ColIds :
        Without(d, r)[At(q, j)] = IF q = r THEN Zero ELSE d[At(q, j)]
  <2>1. SUFFICES ASSUME NEW q \in RowIds, NEW j \in ColIds
                 PROVE  Without(d, r)[At(q, j)] = IF q = r THEN Zero ELSE d[At(q, j)]
    OBVIOUS
  <2>2. At(q, j) \in Index /\ At(q, j) \div Stride = q
    BY Addresses, ColsInStride
  <2>3. QED
    BY <1>1, <2>2 DEF Without
<1>4. QED
  BY <1>2, <1>3 DEF Row, ZeroRow

LEMMA ZeroRowDependent ==
  ASSUME NEW d \in Buffer, NEW r \in RowIds, \A j \in ColIds : d[At(r, j)] = Zero
  PROVE  DependentRows(d)
<1>1. ZeroRow \in RowSpace(Without(d, r))
  BY WithoutRows, RowSpaceContains DEF Subspace
<1>2. [j \in ColIds |-> d[At(r, j)]] = ZeroRow
  BY DEF ZeroRow
<1>3. QED
  BY <1>1, <1>2 DEF DependentRows

LEMMA PivotRowsIndependent ==
  ASSUME NEW d \in Buffer, NEW p \in [RowIds -> ColIds],
         \A r, q \in RowIds : d[At(q, p[r])] = IF q = r THEN One ELSE Zero
  PROVE  ~DependentRows(d)
<1>1. SUFFICES ASSUME NEW r \in RowIds, Row(d, r) \in RowSpace(Without(d, r))
               PROVE  FALSE
  BY DEF DependentRows, Row
<1>2. PICK c \in ColIds : c = p[r]
  OBVIOUS
<1> DEFINE V == {v \in RowVector : v[c] = Zero}
<1>3. Subspace(V)
  <2>1. ZeroRow \in V
    BY RowType DEF ZeroRow
  <2>2. ASSUME NEW u \in V, NEW v \in V, NEW a \in Elem
        PROVE  Add(u, a, v) \in V
    <3>1. Add(u, a, v) \in RowVector
      BY AddType
    <3>2. Add(u, a, v)[c] = Plus(Zero, Times(a, Zero))
      BY DEF Add
    <3>3. QED
      BY <3>1, <3>2, FieldAssumption
  <2>3. QED
    BY <2>1, <2>2 DEF Subspace
<1>4. ASSUME NEW q \in RowIds
      PROVE  Row(Without(d, r), q) \in V
  <2>1. CASE q = r
    BY <1>3, <2>1, WithoutRows DEF Subspace
  <2>2. CASE q # r
    <3>1. Row(d, q) \in RowVector /\ Row(d, q)[c] = Zero
      BY <1>2, <2>2, RowType DEF Row
    <3>2. QED
      BY <2>2, <3>1, WithoutRows
  <2>3. QED
    BY <2>1, <2>2
<1> HIDE DEF V
<1>5. RowSpace(Without(d, r)) \subseteq V
  BY <1>3, <1>4, WithoutRows, RowSpaceLeast
<1>6. Row(d, r)[c] = Zero
  BY <1>1, <1>5 DEF V
<1>7. Row(d, r)[c] = One
  BY <1>2 DEF Row
<1>8. QED
  BY <1>6, <1>7, FieldAssumption

LEMMA ReducedMatrix == MatrixInv => FullyReduced /\ ZeroRowMeansDependent
<1> SUFFICES ASSUME MatrixInv
             PROVE  FullyReduced /\ ZeroRowMeansDependent
  OBVIOUS
<1>0. data \in Buffer
  BY DEF MatrixInv, MatrixTypeOK
<1>1. ASSUME ~IsFullRank
      PROVE  DependentRows(data)
  BY <1>0, <1>1, ZeroRowDependent DEF IsFullRank
<1>2. ASSUME mat_rank # NoRank
      PROVE  FullyReduced /\ (IsFullRank <=> mat_rank = MatRows /\ ~DependentRows(data))
  <2>1. mat_rank \in 0..MatRows /\ mat_rank \in Nat /\ MatRows \in Nat
        /\ RowIds = 0..(MatRows - 1)
    BY <1>2, MatrixSizes DEF MatrixInv, MatrixTypeOK, RowIds
  <2>2. PICK p \in [0..(mat_rank - 1) -> ColIds] : Pivots(data, mat_rank, MatCols, p)
    BY <1>2 DEF MatrixInv, EliminationInv, Reduced
  <2>3. \A j \in ColIds : j < MatCols
    BY MatrixSizes, ColsInStride
  <2>4. \A r \in mat_rank..(MatRows - 1), j \in ColIds : data[At(r, j)] = Zero
    BY <2>2, <2>3 DEF Pivots
  <2>5. FullyReduced
    <3>1. DOMAIN p = 0..(mat_rank - 1)
      OBVIOUS
    <3>2. QED
      BY <2>2, <2>4, <3>1 DEF FullyReduced, Pivots
  <2>6. ASSUME mat_rank = MatRows
        PROVE  IsFullRank /\ ~DependentRows(data)
    <3>1. p \in [RowIds -> ColIds]
          /\ \A r, q \in RowIds : data[At(q, p[r])] = IF q = r THEN One ELSE Zero
      BY <2>1, <2>2, <2>6 DEF Pivots
    <3>2. \A r \in RowIds : p[r] \in ColIds /\ data[At(r, p[r])] = One
      BY <3>1
    <3>3. IsFullRank
      BY <3>2, FieldAssumption DEF IsFullRank
    <3>4. QED
      BY <1>0, <3>1, <3>3, PivotRowsIndependent
  <2>7. ASSUME mat_rank # MatRows
        PROVE  ~IsFullRank
    <3>1. mat_rank \in RowIds /\ mat_rank \in mat_rank..(MatRows - 1)
      BY <2>1, <2>7
    <3>2. QED
      BY <2>4, <3>1 DEF IsFullRank
  <2>8. QED
    BY <2>5, <2>6, <2>7
<1>3. FullyReduced
  BY <1>2 DEF FullyReduced
<1>4. QED
  BY <1>1, <1>2, <1>3 DEF ZeroRowMeansDependent

(***************************************************************************)
(* What the elimination returns as the rank is the dimension of the space  *)
(* of the rows: a vector of the space is determined by its entries at the  *)
(* pivots, and these may be any.                                           *)
(***************************************************************************)
(* The reduced row echelon form with its pivots at p. *)
Echelon(d, n, p) ==
  n \in 0..MatRows /\ p \in [0..(n - 1) -> ColIds] /\ Pivots(d, n, MatCols, p)

PivotUnits(d, n, p) ==
  \A r, m \in 0..(n - 1) : Row(d, r)[p[m]] = IF r = m THEN One ELSE Zero

NoRowsFrom(d, n) == \A r \in RowIds : r \notin 0..(n - 1) => Row(d, r) = ZeroRow

LEMMA EchelonRows ==
  ASSUME NEW d \in Buffer, NEW n, NEW p, Echelon(d, n, p)
  PROVE  /\ n \in Nat /\ 0..(n - 1) \subseteq RowIds
         /\ PivotUnits(d, n, p)
         /\ NoRowsFrom(d, n)
<1>1. /\ n \in Nat /\ 0..(n - 1) \subseteq RowIds /\ RowIds = 0..(MatRows - 1)
      /\ MatRows \in Nat /\ p \in [0..(n - 1) -> ColIds] /\ Pivots(d, n, MatCols, p)
  BY MatrixSizes DEF RowIds, Echelon
<1>2. PivotUnits(d, n, p)
  <2>1. SUFFICES ASSUME NEW r \in 0..(n - 1), NEW m \in 0..(n - 1)
                 PROVE  Row(d, r)[p[m]] = IF r = m THEN One ELSE Zero
    BY DEF PivotUnits
  <2>2. p[m] \in ColIds /\ Row(d, r)[p[m]] = d[At(r, p[m])]
    BY <1>1 DEF Row
  <2>3. \A q \in RowIds : d[At(q, p[m])] = IF q = m THEN One ELSE Zero
    BY <1>1 DEF Pivots
  <2>4. QED
    BY <1>1, <2>2, <2>3
<1>3. ASSUME NEW r \in RowIds, r \notin 0..(n - 1)
      PROVE  Row(d, r) = ZeroRow
  <2>1. r \in n..(MatRows - 1)
    BY <1>1, <1>3
  <2>2. \A j \in ColIds : d[At(r, j)] = Zero
    BY <1>1, <2>1, MatrixSizes, ColsInStride DEF Pivots
  <2>3. QED
    BY <2>2 DEF Row, ZeroRow
<1>4. NoRowsFrom(d, n)
  BY <1>3 DEF NoRowsFrom
<1>5. QED
  BY <1>1, <1>2, <1>4

(* By induction over the rows: each adds its pivot to what is determined.  *)
LEMMA DeterminedByPivots ==
  ASSUME NEW d \in Buffer, NEW n, NEW p, Echelon(d, n, p), NEW v \in RowSpace(d),
         \A m \in 0..(n - 1) : v[p[m]] = Zero
  PROVE  v = ZeroRow
<1>1. PICK f : IsSpan(d, MatRows, f) /\ RowSpace(d) = f[MatRows]
  BY RowSpaceIsSpan
<1> DEFINE Ids == 0..(n - 1)
           Z(u, k) == \A m \in Ids : m < k => u[p[m]] = Zero
           P(k) == \A u \in f[k] : /\ u \in RowVector
                                   /\ \A m \in Ids : m >= k => u[p[m]] = Zero
                                   /\ Z(u, k) => u = ZeroRow
           S == {k \in Nat : k <= MatRows => P(k)}
<1>2. /\ n \in Nat /\ PivotUnits(d, n, p) /\ NoRowsFrom(d, n)
      /\ p \in [Ids -> ColIds]
  BY EchelonRows DEF Echelon
<1>3. 0 \in S
  <2>1. f[0] = {ZeroRow}
    BY <1>1, SpanSteps, MatrixSizes
  <2>2. \A m \in Ids : ZeroRow[p[m]] = Zero
    BY <1>2 DEF ZeroRow
  <2>3. QED
    BY <2>1, <2>2, RowType
<1>4. ASSUME NEW k \in Nat, k \in S
      PROVE  k + 1 \in S
  <2>1. SUFFICES ASSUME k + 1 <= MatRows
                 PROVE  P(k + 1)
    OBVIOUS
  <2>2. k \in RowIds /\ P(k)
    BY <1>4, <2>1, MatrixSizes DEF RowIds
  <2>3. SUFFICES ASSUME NEW x \in f[k + 1]
                 PROVE  /\ x \in RowVector
                        /\ \A m \in Ids : m >= k + 1 => x[p[m]] = Zero
                        /\ Z(x, k + 1) => x = ZeroRow
    OBVIOUS
  <2>4. PICK u \in f[k], a \in Elem : x = Add(u, a, Row(d, k))
    BY <1>1, <2>2, <2>3, NextSpan
  <2>5. u \in RowVector /\ Row(d, k) \in RowVector
    BY <2>2, <2>4, RowType
  <2>6. x \in RowVector
    BY <2>4, <2>5, AddType
  <2>7. \A m \in Ids : /\ x[p[m]] = Plus(u[p[m]], Times(a, Row(d, k)[p[m]]))
                       /\ u[p[m]] \in Elem
    BY <1>2, <2>4, <2>5 DEF Add, RowVector
  <2>8. CASE k \in Ids
    <3>1. \A m \in Ids : Row(d, k)[p[m]] = IF k = m THEN One ELSE Zero
      BY <1>2, <2>8 DEF PivotUnits
    <3>2. \A e \in Elem : Plus(e, Times(a, Zero)) = e /\ Plus(Zero, Times(a, One)) = a
      <4>1. Times(a, Zero) = Zero /\ Times(a, One) = a
        BY FieldAssumption
      <4>2. QED
        BY <4>1, FieldAssumption
    <3>3. \A m \in Ids : m # k => x[p[m]] = u[p[m]]
      BY <2>7, <3>1, <3>2
    <3>4. u[p[k]] = Zero
      BY <2>2, <2>4, <2>8
    <3>5. x[p[k]] = a
      BY <2>7, <2>8, <3>1, <3>2, <3>4
    <3>6. ASSUME NEW m \in Ids, m >= k + 1
          PROVE  x[p[m]] = Zero
      <4>1. m # k /\ m >= k
        BY <3>6
      <4>2. u[p[m]] = Zero
        BY <2>2, <2>4, <4>1
      <4>3. QED
        BY <3>3, <4>1, <4>2
    <3>7. ASSUME Z(x, k + 1)
          PROVE  x = ZeroRow
      <4>1. a = Zero
        BY <2>8, <3>5, <3>7
      <4>2. x = u
        BY <2>4, <2>5, <4>1, AddNothing
      <4>3. Z(u, k)
        BY <3>7, <4>2
      <4>4. QED
        BY <2>2, <2>4, <4>2, <4>3
    <3>8. QED
      BY <2>6, <3>6, <3>7
  <2>9. CASE k \notin Ids
    <3>1. Row(d, k) = ZeroRow
      BY <1>2, <2>2, <2>9 DEF NoRowsFrom
    <3>2. x = u
      <4>1. ASSUME NEW j \in ColIds
            PROVE  Plus(u[j], Times(a, ZeroRow[j])) = u[j]
        <5>1. u[j] \in Elem /\ ZeroRow[j] = Zero /\ Times(a, Zero) = Zero
          BY <2>5, FieldAssumption DEF RowVector, ZeroRow
        <5>2. QED
          BY <5>1, FieldAssumption
      <4>2. u = [j \in ColIds |-> u[j]]
        BY <2>5 DEF RowVector
      <4>3. QED
        BY <2>4, <3>1, <4>1, <4>2 DEF Add
    <3>3. \A m \in Ids : m < k
      BY <1>2, <2>9
    <3>4. \A m \in Ids : m >= k + 1 => FALSE
      BY <3>3
    <3>5. Z(x, k + 1) => Z(u, k)
      BY <3>2
    <3>6. QED
      BY <2>2, <2>4, <2>6, <3>2, <3>4, <3>5
  <2>10. QED
    BY <2>8, <2>9
<1> HIDE DEF S
<1>5. Nat \subseteq S
  BY <1>3, <1>4, SetInduction
<1>6. P(MatRows)
  BY <1>5, MatrixSizes DEF S
<1>7. Z(v, MatRows)
  OBVIOUS
<1>8. QED
  BY <1>1, <1>6, <1>7

(* By induction over the pivots: row n has the one of its own, and no other.*)
LEMMA AnyPivots ==
  ASSUME NEW d \in Buffer, NEW n, NEW p, Echelon(d, n, p), NEW t \in [0..(n - 1) -> Elem]
  PROVE  \E v \in RowSpace(d) : \A m \in 0..(n - 1) : v[p[m]] = t[m]
<1> DEFINE Ids == 0..(n - 1)
           P(k) == \E v \in RowSpace(d) : \A m \in Ids : v[p[m]] = IF m < k THEN t[m] ELSE Zero
           S == {k \in Nat : k <= n => P(k)}
<1>1. /\ RowSpace(d) \subseteq RowVector /\ ZeroRow \in RowSpace(d)
      /\ \A u, v \in RowSpace(d), a \in Elem : Add(u, a, v) \in RowSpace(d)
      /\ \A r \in RowIds : Row(d, r) \in RowSpace(d)
  BY RowSpaceContains DEF Subspace
<1>2. /\ n \in Nat /\ Ids \subseteq RowIds /\ PivotUnits(d, n, p)
      /\ p \in [Ids -> ColIds]
  BY EchelonRows DEF Echelon
<1>3. 0 \in S
  <2>1. \A m \in Ids : ZeroRow[p[m]] = Zero /\ ~(m < 0)
    BY <1>2 DEF ZeroRow
  <2>2. QED
    BY <1>1, <2>1
<1>4. ASSUME NEW k \in Nat, k \in S
      PROVE  k + 1 \in S
  <2>1. SUFFICES ASSUME k + 1 <= n
                 PROVE  P(k + 1)
    OBVIOUS
  <2>2. k \in Ids /\ k \in RowIds /\ t[k] \in Elem /\ P(k)
    BY <1>2, <1>4, <2>1
  <2>3. PICK u \in RowSpace(d) : \A m \in Ids : u[p[m]] = IF m < k THEN t[m] ELSE Zero
    BY <2>2
  <2>4. PICK w : w = Add(u, t[k], Row(d, k))
    OBVIOUS
  <2>5. w \in RowSpace(d) /\ u \in RowVector
    BY <1>1, <2>2, <2>3, <2>4
  <2>6. \A m \in Ids : /\ w[p[m]] = Plus(u[p[m]], Times(t[k], Row(d, k)[p[m]]))
                       /\ u[p[m]] \in Elem
    BY <1>2, <2>4, <2>5 DEF Add, RowVector
  <2>7. \A m \in Ids : Row(d, k)[p[m]] = IF k = m THEN One ELSE Zero
    BY <1>2, <2>2 DEF PivotUnits
  <2>8. /\ \A e \in Elem : Plus(e, Times(t[k], Zero)) = e
        /\ Plus(Zero, Times(t[k], One)) = t[k]
    <3>1. Times(t[k], Zero) = Zero /\ Times(t[k], One) = t[k]
      BY <2>2, FieldAssumption
    <3>2. Zero \in Elem /\ Plus(Zero, t[k]) = Plus(t[k], Zero)
      BY <2>2, FieldAssumption
    <3>3. QED
      BY <2>2, <3>1, <3>2, FieldAssumption
  <2>9. ASSUME NEW m \in Ids
        PROVE  w[p[m]] = IF m < k + 1 THEN t[m] ELSE Zero
    <3>1. CASE m = k
      <4>1. u[p[m]] = Zero
        BY <2>3, <3>1
      <4>2. w[p[m]] = t[k]
        BY <2>6, <2>7, <2>8, <3>1, <4>1
      <4>3. QED
        BY <3>1, <4>2
    <3>2. CASE m # k
      <4>1. w[p[m]] = u[p[m]]
        BY <2>6, <2>7, <2>8, <3>2
      <4>2. m < k + 1 <=> m < k
        BY <3>2
      <4>3. QED
        BY <2>3, <4>1, <4>2
    <3>3. QED
      BY <3>1, <3>2
  <2>10. QED
    BY <2>5, <2>9
<1> HIDE DEF S
<1>5. Nat \subseteq S
  BY <1>3, <1>4, SetInduction
<1>6. P(n)
  <2>1. n \in S /\ n <= n
    BY <1>2, <1>5
  <2> HIDE DEF P
  <2>2. QED
    BY <2>1 DEF S
<1>7. PICK v \in RowSpace(d) : \A m \in Ids : v[p[m]] = IF m < n THEN t[m] ELSE Zero
  BY <1>6
<1>8. \A m \in Ids : m < n
  BY <1>2
<1>9. QED
  BY <1>7, <1>8

LEMMA RankedMatrix == MatrixInv => RankIsRowRank
<1> SUFFICES ASSUME MatrixInv, mat_rank # NoRank
             PROVE  Cardinality(RowSpace(made)) = Cardinality([0..(mat_rank - 1) -> Elem])
  BY DEF RankIsRowRank
<1>1. /\ mat_rank \in 0..MatRows /\ mat_rank \in Nat /\ data \in Buffer
      /\ RowSpace(made) = RowSpace(data)
  BY MatrixSizes DEF MatrixInv, MatrixTypeOK, RowSpaceKept
<1>2. PICK p \in [0..(mat_rank - 1) -> ColIds] : Pivots(data, mat_rank, MatCols, p)
  BY DEF MatrixInv, EliminationInv, Reduced
<1>3. Echelon(data, mat_rank, p)
  BY <1>1, <1>2 DEF Echelon
<1> DEFINE Ids == 0..(mat_rank - 1)
           g   == [v \in RowSpace(data) |-> [m \in Ids |-> v[p[m]]]]
<1>4. /\ RowSpace(data) \subseteq RowVector
      /\ \A u, v \in RowSpace(data) : Add(u, One, v) \in RowSpace(data)
  BY <1>1, RowSpaceContains, FieldAssumption DEF Subspace
<1>5. g \in [RowSpace(data) -> [Ids -> Elem]]
  BY <1>4 DEF RowVector
<1>6. \A v \in RowSpace(data) : \A m \in Ids : g[v][m] = v[p[m]]
  OBVIOUS
<1> HIDE DEF g
<1>7. ASSUME NEW u \in RowSpace(data), NEW v \in RowSpace(data), g[u] = g[v]
      PROVE  u = v
  <2>1. u \in RowVector /\ v \in RowVector
    BY <1>4
  <2>2. PICK w : w = Add(u, One, v)
    OBVIOUS
  <2>3. w \in RowSpace(data)
    BY <1>4, <2>2
  <2>4. \A e \in Elem : Plus(e, Times(One, e)) = Zero
    <3>1. \A e \in Elem : Times(One, e) = e /\ Plus(e, e) = Zero
      BY FieldAssumption
    <3>2. QED
      BY <3>1
  <2>5. ASSUME NEW m \in Ids
        PROVE  w[p[m]] = Zero
    <3>1. p[m] \in ColIds /\ u[p[m]] \in Elem /\ u[p[m]] = v[p[m]]
      BY <1>2, <1>6, <1>7, <2>1 DEF RowVector
    <3>2. QED
      BY <2>2, <2>4, <3>1 DEF Add
  <2>6. w = ZeroRow
    BY <1>1, <1>3, <2>3, <2>5, DeterminedByPivots
  <2>7. One \in Elem /\ Add(w, One, v) = u
    BY <2>1, <2>2, AddTwice, FieldAssumption
  <2>8. Add(ZeroRow, One, v) = v
    BY <2>1, AddToZero
  <2>9. QED
    BY <2>6, <2>7, <2>8
<1>8. ASSUME NEW t \in [Ids -> Elem]
      PROVE  \E u \in RowSpace(data) : g[u] = t
  <2>1. PICK u \in RowSpace(data) : \A m \in Ids : u[p[m]] = t[m]
    BY <1>1, <1>3, AnyPivots
  <2>2. g[u] = [m \in Ids |-> g[u][m]] /\ t = [m \in Ids |-> t[m]]
    BY <1>5
  <2>3. \A m \in Ids : g[u][m] = t[m]
    BY <1>6, <2>1
  <2>4. QED
    BY <2>2, <2>3
<1>9. Cardinality(RowSpace(data)) = Cardinality([Ids -> Elem])
  BY <1>1, <1>5, <1>7, <1>8, SameSize
<1>10. QED
  BY <1>1, <1>9

(***************************************************************************)
(* The loops of gaussian_elimination stay within the matrix.               *)
(***************************************************************************)
THEOREM MatrixTypeCorrect == MatrixSpec => []MatrixTypeOK
BY MatrixInvariant, PTL DEF MatrixInv

(***************************************************************************)
(* The padding after a row stays zero through every operation, although    *)
(* the elimination starts its operations before the pivot column, on an    *)
(* aligned byte.                                                           *)
(***************************************************************************)
THEOREM PaddingStaysZero == MatrixSpec => []PaddingIsZero
BY MatrixInvariant, PTL DEF MatrixInv

(***************************************************************************)
(* The rows span what the rows of the caller's matrix span, after every    *)
(* iteration of every loop.                                                *)
(***************************************************************************)
THEOREM EliminationKeepsRowSpace == MatrixSpec => []RowSpaceKept
BY MatrixInvariant, PTL DEF MatrixInv

(***************************************************************************)
(* What gaussian_elimination leaves is in reduced row echelon form, and    *)
(* the rank it returns is the number of pivots.                            *)
(***************************************************************************)
THEOREM EliminationReduces == MatrixSpec => []FullyReduced
BY MatrixInvariant, ReducedMatrix, PTL DEF MatrixInv

(***************************************************************************)
(* The rank that gaussian_elimination returns is the dimension of the      *)
(* space that the rows spanned when it was called.                         *)
(***************************************************************************)
THEOREM EliminationFindsRank == MatrixSpec => []RankIsRowRank
BY MatrixInvariant, RankedMatrix, PTL

(***************************************************************************)
(* A no of is_full_rank, which looks for a row of zeros, is right of any   *)
(* matrix; of an eliminated one it answers whether the elimination found a *)
(* pivot for every row, and then no row is in the span of the others.      *)
(***************************************************************************)
THEOREM RankTestIsExact == MatrixSpec => []ZeroRowMeansDependent
BY MatrixInvariant, ReducedMatrix, PTL DEF MatrixInv

-----------------------------------------------------------------------------
(***************************************************************************)
(* Tuples of numbers in the order of module Countdown.                     *)
(***************************************************************************)
LEMMA NearerPair ==
  ASSUME NEW m \in Countdowns(2), NEW n \in Countdowns(2),
         m[1] < n[1] \/ (m[1] = n[1] /\ m[2] < n[2])
  PROVE  Nearer(2, m, n)
<1>1. \E j \in 1..2 : /\ \A i \in 1..(j - 1) : m[i] = n[i]
                      /\ <<m[j], n[j]>> \in OpToRel(<, Nat)
  BY DEF OpToRel, Countdowns
<1>2. QED
  BY <1>1 DEF Nearer, Descent, LexProductOrdering, Countdowns

LEMMA NearerTriple ==
  ASSUME NEW m \in Countdowns(3), NEW n \in Countdowns(3),
         \/ m[1] < n[1]
         \/ m[1] = n[1] /\ m[2] < n[2]
         \/ m[1] = n[1] /\ m[2] = n[2] /\ m[3] < n[3]
  PROVE  Nearer(3, m, n)
<1>1. \E j \in 1..3 : /\ \A i \in 1..(j - 1) : m[i] = n[i]
                      /\ <<m[j], n[j]>> \in OpToRel(<, Nat)
  BY DEF OpToRel, Countdowns
<1>2. QED
  BY <1>1 DEF Nearer, Descent, LexProductOrdering, Countdowns

LEMMA EliminationStepsLeftType == MatrixInv => EliminationStepsLeft \in Countdowns(2)
<1> SUFFICES ASSUME MatrixInv
             PROVE  EliminationStepsLeft \in Countdowns(2)
  OBVIOUS
<1>1. \A x, y \in Nat : <<x, y>> \in Countdowns(2)
  BY DEF Countdowns
<1>2. /\ mat_pc \in {"idle", "find", "clear"}
      /\ MatCols - col + 1 \in Nat /\ MatRows - row \in Nat /\ MatRows + 1 \in Nat
  BY MatrixSizes DEF MatrixInv, MatrixTypeOK
<1>3. QED
  BY <1>1, <1>2 DEF EliminationStepsLeft

LEMMA EliminationStepDescends ==
  ASSUME MatrixInv, MatrixStep, EliminationStepsLeft \in Countdowns(2),
         EliminationStepsLeft' \in Countdowns(2)
  PROVE  Nearer(2, EliminationStepsLeft', EliminationStepsLeft)
<1>1. col \in 0..MatCols /\ row \in 0..MatRows /\ MatCols \in Nat /\ MatRows \in Nat
  BY MatrixSizes DEF MatrixInv, MatrixTypeOK
<1>2. CASE NoPivot
  <2>1. /\ EliminationStepsLeft = <<MatCols - col + 1, MatRows + 1>>
        /\ EliminationStepsLeft' = <<MatCols - (col + 1) + 1, MatRows + 1>>
    BY <1>2 DEF NoPivot, EliminationStepsLeft
  <2>2. QED
    BY <1>1, <2>1, NearerPair
<1>3. CASE TakePivot
  <2>1. /\ EliminationStepsLeft = <<MatCols - col + 1, MatRows + 1>>
        /\ EliminationStepsLeft' = <<MatCols - col + 1, MatRows - 0>>
    BY <1>3 DEF TakePivot, EliminationStepsLeft
  <2>2. QED
    BY <1>1, <2>1, NearerPair
<1>4. CASE ClearRow
  <2>1. /\ EliminationStepsLeft = <<MatCols - col + 1, MatRows - row>>
        /\ EliminationStepsLeft' = <<MatCols - col + 1, MatRows - (row + 1)>>
    BY <1>4 DEF ClearRow, EliminationStepsLeft
  <2>2. QED
    BY <1>1, <2>1, NearerPair
<1>5. CASE NextColumn
  <2>1. /\ EliminationStepsLeft = <<MatCols - col + 1, MatRows - row>>
        /\ EliminationStepsLeft' = <<MatCols - (col + 1) + 1, MatRows + 1>>
    BY <1>5 DEF NextColumn, EliminationStepsLeft
  <2>2. QED
    BY <1>1, <2>1, NearerPair
<1>6. CASE FinishElimination
  <2>1. /\ EliminationStepsLeft = <<MatCols - col + 1, MatRows + 1>>
        /\ EliminationStepsLeft' = <<0, 0>>
    BY <1>6 DEF FinishElimination, EliminationStepsLeft
  <2>2. QED
    BY <1>1, <2>1, NearerPair
<1>7. QED
  BY <1>2, <1>3, <1>4, <1>5, <1>6 DEF MatrixStep

(***************************************************************************)
(* Every iteration of gaussian_elimination brings its end nearer, with or  *)
(* without a pivot in the column, whatever the matrix.                     *)
(***************************************************************************)
THEOREM EliminationEnds == MatrixSpec => EliminationCountsDown
<1> DEFINE Typed == EliminationStepsLeft \in Countdowns(2)
<1>1. MatrixInv /\ Typed /\ Typed' /\ [MatrixNext]_matrixVars
        => [mat_pc # "idle" => Nearer(2, EliminationStepsLeft', EliminationStepsLeft)]_matrixVars
  <2> SUFFICES ASSUME MatrixInv, Typed, Typed', MatrixNext, mat_pc # "idle"
               PROVE  Nearer(2, EliminationStepsLeft', EliminationStepsLeft)
    OBVIOUS
  <2>1. ~MatrixCall
    BY DEF MatrixCall, Write, RowAxpy, RowScale, SwapRows, Change, BeginElimination
  <2>2. QED
    BY <2>1, EliminationStepDescends DEF MatrixNext
<1>2. MatrixInv => Typed
  BY EliminationStepsLeftType
<1> HIDE DEF Typed
<1>3. QED
  BY <1>1, <1>2, MatrixInvariant, PTL DEF MatrixSpec, EliminationCountsDown

-----------------------------------------------------------------------------
(***************************************************************************)
(* The batch decoder.                                                      *)
(***************************************************************************)

BatchTypes ==
  /\ fixture \in [Cols -> Vector]
  /\ coefficient_rows \in [Cols -> Vector]
  /\ payload_rows \in [Cols -> Payload]
  /\ dec_pc \in {"idle", "pivot", "clear", "back"}
  /\ column \in 0..K /\ rank \in Cols /\ target \in 0..K

(* The first n rows are triangular with ones on the diagonal.               *)
Triangular(n) ==
  \A i, j \in Cols : i < n =>
    /\ coefficient_rows[i][i] = One
    /\ j < i => coefficient_rows[i][j] = Zero

(***************************************************************************)
(* While pivots are sought, the rows without one are zero in the columns   *)
(* already visited; and as long as no column was skipped, the pivots are   *)
(* on the diagonal. K pivots in K columns leave none to skip.              *)
(***************************************************************************)
ForwardInv ==
  dec_pc \in {"pivot", "clear"} =>
    /\ rank <= column
    /\ \A i, j \in Cols : i >= rank /\ j < column => coefficient_rows[i][j] = Zero
    /\ column = rank => Triangular(rank)

ClearInv ==
  dec_pc = "clear" =>
    /\ column \in Cols /\ rank < target
    /\ coefficient_rows[rank][column] = One
    /\ \A i \in Cols : rank < i /\ i < target => coefficient_rows[i][column] = Zero

BackInv ==
  dec_pc = "back" =>
    /\ Triangular(K)
    /\ \A i, j \in Cols : rank < j /\ i # j => coefficient_rows[i][j] = Zero
    /\ target <= rank
    /\ \A i \in Cols : i < target => coefficient_rows[i][rank] = Zero

AnswerInv ==
  /\ dec_pc = "idle" => column = 0 /\ rank = 0 /\ target = 0
  /\ dec_pc # "idle" => decoded = "none"
  /\ decoded = "true" => payload_rows = Source

BatchInv ==
  BatchTypes /\ RowsBelongTogether /\ ForwardInv /\ ClearInv /\ BackInv /\ AnswerInv

LEMMA ColsFacts == K \in Nat /\ K > 0 /\ 0 \in Cols /\ Cols = 0..(K - 1)
BY SizeAssumption DEF Cols

-----------------------------------------------------------------------------
(***************************************************************************)
(* One elimination, with a source row that is zero before the column and   *)
(* one in it: the suffix of the coefficients and the whole payload change  *)
(* together, and the target's entry is cleared.                            *)
(***************************************************************************)
LEMMA EliminateRow ==
  ASSUME BatchTypes, RowsBelongTogether, NEW s \in Cols, NEW from \in Cols,
         target \in Cols, target # s, Eliminate(s, from),
         \A j \in Cols : j < from => coefficient_rows[s][j] = Zero,
         coefficient_rows[s][from] = One
  PROVE  /\ coefficient_rows' \in [Cols -> Vector] /\ payload_rows' \in [Cols -> Payload]
         /\ \A i \in Cols : payload_rows'[i] = Code(coefficient_rows'[i])
         /\ \A i \in Cols \ {target} : coefficient_rows'[i] = coefficient_rows[i]
         /\ coefficient_rows'[target][from] = Zero
         /\ \A j \in Cols : (j < from \/ coefficient_rows[s][j] = Zero) =>
              coefficient_rows'[target][j] = coefficient_rows[target][j]
<1>1. PICK t \in Cols : t = target
  OBVIOUS
<1>2. PICK x \in Vector : x = coefficient_rows[s]
  BY DEF BatchTypes
<1>3. PICK y \in Vector : y = coefficient_rows[t]
  BY <1>1 DEF BatchTypes
<1>4. PICK c \in Elem : c = y[from]
  BY <1>3 DEF Vector
<1>5. payload_rows[s] = Code(x) /\ payload_rows[t] = Code(y)
  BY <1>1, <1>2, <1>3 DEF RowsBelongTogether
<1>6. CASE c = Zero
  BY <1>1, <1>3, <1>4, <1>6 DEF Eliminate, BatchTypes, RowsBelongTogether
<1>7. CASE c # Zero
  <2>1. PICK z : z = AxpyFrom(from, c, x, y)
    OBVIOUS
  <2>2. from \in Nat
    BY ColsFacts
  <2>3. z \in Vector /\ \A j \in Cols :
          z[j] = IF j >= from THEN Plus(y[j], Times(c, x[j])) ELSE y[j]
    BY <2>1, <2>2, AxpyFromType
  <2>4. z = Axpy(c, x, y)
    BY <1>2, <2>1, AxpySuffix
  <2>5. Code(z) = Axpy(c, Code(x), Code(y)) /\ Code(z) \in Payload
    BY <2>3, <2>4, CodeAssumption
  <2>6. coefficient_rows' = [coefficient_rows EXCEPT ![t] = z]
    BY <1>1, <1>2, <1>3, <1>4, <1>7, <2>1 DEF Eliminate
  <2>7. payload_rows' = [payload_rows EXCEPT ![t] = Code(z)]
    BY <1>1, <1>3, <1>4, <1>5, <1>7, <2>5 DEF Eliminate
  <2>8. /\ \A i \in Cols \ {t} : coefficient_rows'[i] = coefficient_rows[i]
                                 /\ payload_rows'[i] = payload_rows[i]
        /\ coefficient_rows'[t] = z /\ payload_rows'[t] = Code(z)
    BY <2>6, <2>7 DEF BatchTypes
  <2>9. z[from] = Zero
    BY <1>2, <1>4, <2>2, <2>3, FieldAssumption
  <2>10. ASSUME NEW j \in Cols, j < from \/ x[j] = Zero
         PROVE  z[j] = y[j]
    <3>1. y[j] \in Elem /\ j \in Nat
      BY ColsFacts DEF Vector
    <3>2. Plus(y[j], Times(c, Zero)) = y[j]
      BY <3>1, FieldAssumption
    <3>3. QED
      BY <2>2, <2>3, <2>10, <3>1, <3>2
  <2>11. coefficient_rows' \in [Cols -> Vector] /\ payload_rows' \in [Cols -> Payload]
    BY <2>3, <2>5, <2>6, <2>7 DEF BatchTypes
  <2>12. \A i \in Cols : payload_rows'[i] = Code(coefficient_rows'[i])
    BY <2>8 DEF RowsBelongTogether
  <2>13. QED
    BY <1>1, <1>2, <1>3, <2>8, <2>9, <2>10, <2>11, <2>12
<1>8. QED
  BY <1>6, <1>7

-----------------------------------------------------------------------------
(***************************************************************************)
(* One lemma per step.                                                     *)
(***************************************************************************)
LEMMA BatchInitInv == BatchInit => BatchInv
<1> SUFFICES ASSUME BatchInit
             PROVE  BatchInv
  OBVIOUS
<1>1. BatchTypes
  BY ZeroTypes, ColsFacts, FixturesAssumption DEF BatchInit, BatchTypes
<1>2. RowsBelongTogether
  BY CodeOfZero DEF BatchInit, RowsBelongTogether
<1>3. QED
  BY <1>1, <1>2 DEF BatchInit, BatchInv, ForwardInv, ClearInv, BackInv, AnswerInv

LEMMA BeginBatchInv ==
  ASSUME BatchInv, BeginBatch
  PROVE  BatchInv'
<1>1. column' = 0 /\ rank' = 0 /\ target' = 0 /\ dec_pc' = "pivot" /\ decoded' = "none"
  BY DEF BeginBatch, BatchInv, AnswerInv
<1>2. BatchTypes'
  BY CodeAssumption DEF BeginBatch, BatchInv, BatchTypes
<1>3. RowsBelongTogether'
  BY DEF BeginBatch, RowsBelongTogether
<1>4. ForwardInv'
  BY <1>1, ColsFacts DEF ForwardInv, Triangular
<1>5. QED
  BY <1>1, <1>2, <1>3, <1>4 DEF BatchInv, ClearInv, BackInv, AnswerInv

LEMMA SkipColumnInv ==
  ASSUME BatchInv, SkipColumn
  PROVE  BatchInv'
<1>1. /\ column \in 0..(K - 1) /\ column' = column + 1 /\ dec_pc = "pivot" /\ dec_pc' = "pivot"
      /\ coefficient_rows' = coefficient_rows /\ payload_rows' = payload_rows
      /\ rank' = rank /\ rank \in 0..(K - 1) /\ target' = target /\ decoded' = decoded
      /\ fixture' = fixture
  BY ColsFacts DEF SkipColumn, BatchInv, BatchTypes
<1>2. \A i \in Cols : i >= rank => coefficient_rows[i][column] = Zero
  BY <1>1, ColsFacts DEF SkipColumn, PivotRows
<1>3. BatchTypes'
  BY <1>1, ColsFacts DEF BatchInv, BatchTypes
<1>4. ForwardInv'
  <2>1. rank <= column
        /\ \A i, j \in Cols : i >= rank /\ j < column => coefficient_rows[i][j] = Zero
    BY <1>1 DEF BatchInv, ForwardInv
  <2>2. \A i, j \in Cols : i >= rank /\ j < column + 1 => coefficient_rows[i][j] = Zero
    BY <1>1, <1>2, <2>1, ColsFacts
  <2>3. QED
    BY <1>1, <2>1, <2>2 DEF ForwardInv
<1>5. QED
  BY <1>1, <1>3, <1>4 DEF BatchInv, RowsBelongTogether, ClearInv, BackInv, AnswerInv

LEMMA NextPivotColumnInv ==
  ASSUME BatchInv, NextPivotColumn
  PROVE  BatchInv'
<1>1. /\ dec_pc = "clear" /\ target = K /\ target' = 0 /\ column' = column + 1
      /\ coefficient_rows' = coefficient_rows /\ payload_rows' = payload_rows
      /\ decoded' = decoded /\ fixture' = fixture
      /\ column \in 0..(K - 1) /\ rank \in 0..(K - 1) /\ rank <= column
  BY ColsFacts DEF NextPivotColumn, BatchInv, BatchTypes, ForwardInv, ClearInv
<1>2. /\ \A i, j \in Cols : i >= rank /\ j < column => coefficient_rows[i][j] = Zero
      /\ \A i \in Cols : rank < i => coefficient_rows[i][column] = Zero
      /\ coefficient_rows[rank][column] = One
  BY <1>1, ColsFacts DEF BatchInv, ForwardInv, ClearInv
<1>3. column = rank => Triangular(rank + 1)
  <2> SUFFICES ASSUME column = rank, NEW i \in Cols, NEW j \in Cols, i < rank + 1
               PROVE  /\ coefficient_rows[i][i] = One
                      /\ j < i => coefficient_rows[i][j] = Zero
    BY DEF Triangular
  <2>1. CASE i = rank
    BY <1>1, <1>2, <2>1, ColsFacts
  <2>2. CASE i # rank
    BY <1>1, <2>2, ColsFacts DEF BatchInv, ForwardInv, Triangular
  <2>3. QED
    BY <2>1, <2>2
<1>4. CASE rank + 1 = K
  <2>1. dec_pc' = "back" /\ rank' = rank
    BY <1>4 DEF NextPivotColumn
  <2>2. Triangular(K)
    BY <1>1, <1>3, <1>4
  <2>3. BackInv'
    BY <1>1, <1>4, <2>1, <2>2, ColsFacts DEF BackInv, Triangular
  <2>4. BatchTypes'
    BY <1>1, <2>1, ColsFacts DEF BatchInv, BatchTypes
  <2>5. QED
    BY <1>1, <2>1, <2>3, <2>4 DEF BatchInv, RowsBelongTogether, ForwardInv, ClearInv, AnswerInv
<1>5. CASE rank + 1 # K
  <2>1. dec_pc' = "pivot" /\ rank' = rank + 1
    BY <1>5 DEF NextPivotColumn
  <2>2. \A i, j \in Cols : i >= rank + 1 /\ j < column + 1 => coefficient_rows[i][j] = Zero
    BY <1>1, <1>2, ColsFacts
  <2>3. column + 1 = rank + 1 => Triangular(rank + 1)
    BY <1>1, <1>3
  <2>4. ForwardInv'
    BY <1>1, <2>1, <2>2, <2>3 DEF ForwardInv, Triangular
  <2>5. BatchTypes'
    BY <1>1, <1>5, <2>1, ColsFacts DEF BatchInv, BatchTypes
  <2>6. QED
    BY <1>1, <2>1, <2>4, <2>5 DEF BatchInv, RowsBelongTogether, BackInv, ClearInv, AnswerInv
<1>6. QED
  BY <1>4, <1>5

(***************************************************************************)
(* Coefficients and payloads are swapped and scaled alike.                 *)
(***************************************************************************)
LEMMA SwapBatchRows ==
  ASSUME BatchTypes, RowsBelongTogether, NEW a \in Cols, NEW b \in Cols
  PROVE  /\ Swap(coefficient_rows, a, b) \in [Cols -> Vector]
         /\ Swap(payload_rows, a, b) \in [Cols -> Payload]
         /\ \A i \in Cols :
              /\ Swap(coefficient_rows, a, b)[i] =
                   coefficient_rows[IF i = b THEN a ELSE IF i = a THEN b ELSE i]
              /\ Swap(payload_rows, a, b)[i] = Code(Swap(coefficient_rows, a, b)[i])
BY DEF Swap, BatchTypes, RowsBelongTogether

LEMMA TakePivotRowInv ==
  ASSUME BatchInv, TakePivotRow
  PROVE  BatchInv'
<1>1. /\ dec_pc = "pivot" /\ column \in 0..(K - 1) /\ rank \in 0..(K - 1)
      /\ dec_pc' = "clear" /\ target' = rank + 1 /\ column' = column /\ rank' = rank
      /\ decoded' = decoded /\ fixture' = fixture
  BY ColsFacts DEF TakePivotRow, BatchInv, BatchTypes
<1>2. /\ rank <= column
      /\ column = rank => Triangular(rank)
      /\ \A i, j \in Cols : i >= rank /\ j < column => coefficient_rows[i][j] = Zero
  BY <1>1 DEF BatchInv, ForwardInv
<1>3. PICK r \in Cols, from \in Cols : r = rank /\ from = column
  BY <1>1, ColsFacts
<1>4. PICK pivot \in PivotRows :
        LET crows == Swap(coefficient_rows, rank, pivot)
            prows == Swap(payload_rows, rank, pivot)
            value == crows[rank][column]
        IN  IF value = One
            THEN coefficient_rows' = crows /\ payload_rows' = prows
            ELSE /\ coefficient_rows' =
                      [crows EXCEPT ![rank] = ScaleFrom(column, Reciprocal(value), @)]
                 /\ payload_rows' =
                      [prows EXCEPT ![rank] = Scale(Reciprocal(value), @)]
  BY DEF TakePivotRow
<1>5. pivot \in Cols /\ pivot >= r /\ coefficient_rows[pivot][from] # Zero
  BY <1>1, <1>3, ColsFacts DEF PivotRows
<1>6. PICK crows, prows : crows = Swap(coefficient_rows, r, pivot)
                          /\ prows = Swap(payload_rows, r, pivot)
  OBVIOUS
<1>7. /\ crows \in [Cols -> Vector] /\ prows \in [Cols -> Payload]
      /\ crows[r] = coefficient_rows[pivot]
      /\ \A i \in Cols :
           /\ crows[i] = coefficient_rows[IF i = pivot THEN r ELSE IF i = r THEN pivot ELSE i]
           /\ prows[i] = Code(crows[i])
  BY <1>5, <1>6, SwapBatchRows DEF BatchInv
<1>8. PICK value \in Elem : value = crows[r][from] /\ value # Zero
  BY <1>5, <1>7 DEF Vector
<1>9. \A j \in Cols : j < from => crows[r][j] = Zero
  BY <1>1, <1>2, <1>3, <1>5, <1>7, ColsFacts
<1>10. \E scaled \in Vector :
         /\ coefficient_rows' = [crows EXCEPT ![r] = scaled]
         /\ payload_rows' = [prows EXCEPT ![r] = Code(scaled)]
         /\ scaled[from] = One
         /\ \A j \in Cols : j < from => scaled[j] = Zero
  <2>1. CASE value = One
    <3>1. coefficient_rows' = crows /\ payload_rows' = prows
      BY <1>3, <1>4, <1>6, <1>8, <2>1
    <3>2. crows = [crows EXCEPT ![r] = crows[r]] /\ prows = [prows EXCEPT ![r] = Code(crows[r])]
      BY <1>7
    <3>3. crows[r] \in Vector /\ crows[r][from] = One
      BY <1>7, <1>8, <2>1
    <3>4. QED
      BY <1>9, <3>1, <3>2, <3>3
  <2>2. CASE value # One
    <3>1. PICK inv \in Elem : inv = Reciprocal(value) /\ Times(inv, value) = One
      BY <1>8, FieldAssumption
    <3>2. PICK y \in Vector : y = crows[r]
      BY <1>7
    <3>3. PICK scaled : scaled = ScaleFrom(from, inv, y)
      OBVIOUS
    <3>4. from \in Nat
      BY ColsFacts
    <3>5. scaled \in Vector /\ \A j \in Cols :
            scaled[j] = IF j >= from THEN Times(inv, y[j]) ELSE y[j]
      BY <3>3, <3>4, ScaleFromType
    <3>6. scaled = Scale(inv, y)
      BY <1>9, <3>2, <3>3, ScaleSuffix
    <3>7. Code(scaled) = Scale(inv, Code(y))
      BY <3>6, CodeAssumption
    <3>8. prows[r] = Code(y)
      BY <1>7, <3>2
    <3>9. coefficient_rows' = [crows EXCEPT ![r] = scaled]
      BY <1>3, <1>4, <1>6, <1>8, <2>2, <3>1, <3>2, <3>3
    <3>10. payload_rows' = [prows EXCEPT ![r] = Code(scaled)]
      BY <1>3, <1>4, <1>6, <1>8, <2>2, <3>1, <3>7, <3>8
    <3>11. scaled[from] = One
      BY <1>8, <3>1, <3>2, <3>4, <3>5
    <3>12. \A j \in Cols : j < from => scaled[j] = Zero
      BY <1>9, <3>2, <3>4, <3>5, ColsFacts
    <3>13. QED
      BY <3>5, <3>9, <3>10, <3>11, <3>12
  <2>3. QED
    BY <2>1, <2>2
<1>11. PICK scaled \in Vector :
         /\ coefficient_rows' = [crows EXCEPT ![r] = scaled]
         /\ payload_rows' = [prows EXCEPT ![r] = Code(scaled)]
         /\ scaled[from] = One
         /\ \A j \in Cols : j < from => scaled[j] = Zero
  BY <1>10
<1>12. coefficient_rows'[r] = scaled /\ \A i \in Cols \ {r} : coefficient_rows'[i] = crows[i]
  BY <1>7, <1>11
<1>13. BatchTypes'
  <2>1. coefficient_rows' \in [Cols -> Vector]
    BY <1>7, <1>11
  <2>2. payload_rows' \in [Cols -> Payload]
    BY <1>7, <1>11, CodeAssumption
  <2>3. QED
    BY <1>1, <2>1, <2>2, ColsFacts DEF BatchInv, BatchTypes
<1>14. RowsBelongTogether'
  BY <1>7, <1>11 DEF RowsBelongTogether
<1>15. \A i, j \in Cols : i >= r /\ j < from => coefficient_rows'[i][j] = Zero
  <2> SUFFICES ASSUME NEW i \in Cols, NEW j \in Cols, i >= r, j < from
               PROVE  coefficient_rows'[i][j] = Zero
    OBVIOUS
  <2>1. CASE i = r
    BY <1>11, <1>12, <2>1
  <2>2. CASE i # r
    <3>1. PICK k \in Cols : k >= r /\ crows[i] = coefficient_rows[k]
      BY <1>5, <1>7, <2>2, ColsFacts
    <3>2. QED
      BY <1>2, <1>3, <1>12, <2>2, <3>1
  <2>3. QED
    BY <2>1, <2>2
<1>16. \A i \in Cols : i < r => coefficient_rows'[i] = coefficient_rows[i]
  BY <1>5, <1>7, <1>12, ColsFacts
<1>17. ForwardInv'
  <2>1. column = rank => Triangular(rank)'
    <3> SUFFICES ASSUME column = rank, NEW i \in Cols, NEW j \in Cols, i < rank
                 PROVE  /\ coefficient_rows'[i][i] = One
                        /\ j < i => coefficient_rows'[i][j] = Zero
      BY <1>1 DEF Triangular
    <3>1. coefficient_rows'[i] = coefficient_rows[i]
      BY <1>3, <1>16
    <3>2. QED
      BY <1>2, <3>1 DEF Triangular
  <2>2. QED
    BY <1>1, <1>2, <1>3, <1>15, <2>1 DEF ForwardInv
<1>18. ClearInv'
  <2>1. ~ \E i \in Cols : rank < i /\ i < rank + 1
    BY <1>1, ColsFacts
  <2>2. QED
    BY <1>1, <1>3, <1>11, <1>12, <2>1 DEF ClearInv
<1>19. QED
  BY <1>1, <1>13, <1>14, <1>17, <1>18 DEF BatchInv, BackInv, AnswerInv

LEMMA ClearBelowInv ==
  ASSUME BatchInv, ClearBelow
  PROVE  BatchInv'
<1>1. /\ dec_pc = "clear" /\ target < K /\ target \in 0..K /\ target' = target + 1
      /\ Eliminate(rank, column) /\ rank < target
      /\ rank \in 0..(K - 1) /\ column \in 0..(K - 1) /\ rank <= column
      /\ dec_pc' = dec_pc /\ column' = column /\ rank' = rank /\ decoded' = decoded
      /\ fixture' = fixture
  BY ColsFacts DEF ClearBelow, BatchInv, BatchTypes, ForwardInv, ClearInv
<1>2. /\ column = rank => Triangular(rank)
      /\ \A i, j \in Cols : i >= rank /\ j < column => coefficient_rows[i][j] = Zero
      /\ coefficient_rows[rank][column] = One
      /\ \A i \in Cols : rank < i /\ i < target => coefficient_rows[i][column] = Zero
  BY <1>1 DEF BatchInv, ForwardInv, ClearInv
<1>3. PICK r \in Cols, from \in Cols, t \in Cols :
        r = rank /\ from = column /\ t = target /\ t # r /\ t > r
  BY <1>1, ColsFacts
<1>4. /\ coefficient_rows' \in [Cols -> Vector] /\ payload_rows' \in [Cols -> Payload]
      /\ \A i \in Cols : payload_rows'[i] = Code(coefficient_rows'[i])
      /\ \A i \in Cols \ {t} : coefficient_rows'[i] = coefficient_rows[i]
      /\ coefficient_rows'[t][from] = Zero
      /\ \A j \in Cols : j < from => coefficient_rows'[t][j] = coefficient_rows[t][j]
  <2>1. \A j \in Cols : j < from => coefficient_rows[r][j] = Zero
    BY <1>1, <1>2, <1>3
  <2>2. coefficient_rows[r][from] = One /\ Eliminate(r, from)
    BY <1>1, <1>2, <1>3
  <2>3. QED
    BY <1>3, <2>1, <2>2, EliminateRow DEF BatchInv
<1>5. BatchTypes'
  BY <1>1, <1>4, ColsFacts DEF BatchInv, BatchTypes
<1>6. ForwardInv'
  <2>1. ASSUME NEW i \in Cols, NEW j \in Cols, i >= rank, j < column
        PROVE  coefficient_rows'[i][j] = Zero
    <3>1. coefficient_rows[i][j] = Zero
      BY <1>2, <2>1
    <3>2. CASE i = t
      BY <1>3, <1>4, <2>1, <3>1, <3>2
    <3>3. CASE i # t
      BY <1>4, <3>1, <3>3
    <3>4. QED
      BY <3>2, <3>3
  <2>2. column = rank => Triangular(rank)'
    <3> SUFFICES ASSUME column = rank, NEW i \in Cols, NEW j \in Cols, i < rank
                 PROVE  /\ coefficient_rows'[i][i] = One
                        /\ j < i => coefficient_rows'[i][j] = Zero
      BY <1>1 DEF Triangular
    <3>1. coefficient_rows'[i] = coefficient_rows[i]
      BY <1>1, <1>3, <1>4, ColsFacts
    <3>2. QED
      BY <1>2, <3>1 DEF Triangular
  <2>3. QED
    BY <1>1, <2>1, <2>2 DEF ForwardInv
<1>7. ClearInv'
  <2>1. coefficient_rows'[rank][column] = One
    BY <1>2, <1>3, <1>4
  <2>2. ASSUME NEW i \in Cols, rank < i, i < target + 1
        PROVE  coefficient_rows'[i][column] = Zero
    <3>1. CASE i = t
      BY <1>3, <1>4, <3>1
    <3>2. CASE i # t
      BY <1>1, <1>2, <1>3, <1>4, <2>2, <3>2, ColsFacts
    <3>3. QED
      BY <3>1, <3>2
  <2>3. QED
    BY <1>1, <1>3, <2>1, <2>2 DEF ClearInv
<1>8. QED
  BY <1>1, <1>4, <1>5, <1>6, <1>7 DEF BatchInv, RowsBelongTogether, BackInv, AnswerInv

LEMMA RankDeficientInv ==
  ASSUME BatchInv, RankDeficient
  PROVE  BatchInv'
<1>1. /\ dec_pc' = "idle" /\ column' = 0 /\ rank' = 0 /\ target' = 0 /\ decoded' = "false"
      /\ coefficient_rows' = coefficient_rows /\ payload_rows' = payload_rows
      /\ fixture' = fixture
  BY DEF RankDeficient, Returns
<1>2. BatchTypes'
  BY <1>1, ColsFacts DEF BatchInv, BatchTypes
<1>3. QED
  BY <1>1, <1>2 DEF BatchInv, RowsBelongTogether, ForwardInv, ClearInv, BackInv, AnswerInv

LEMMA ClearAboveInv ==
  ASSUME BatchInv, ClearAbove
  PROVE  BatchInv'
<1>1. /\ dec_pc = "back" /\ target < rank /\ target \in 0..K /\ target' = target + 1
      /\ Eliminate(rank, rank) /\ rank \in 0..(K - 1)
      /\ dec_pc' = dec_pc /\ column' = column /\ rank' = rank /\ decoded' = decoded
      /\ fixture' = fixture
  BY ColsFacts DEF ClearAbove, BatchInv, BatchTypes
<1>2. /\ Triangular(K)
      /\ \A i, j \in Cols : rank < j /\ i # j => coefficient_rows[i][j] = Zero
      /\ \A i \in Cols : i < target => coefficient_rows[i][rank] = Zero
  BY <1>1 DEF BatchInv, BackInv
<1>3. PICK r \in Cols, t \in Cols : r = rank /\ t = target /\ t # r /\ t < r
  BY <1>1, ColsFacts
<1>4. /\ coefficient_rows[r][r] = One
      /\ \A j \in Cols : j < r => coefficient_rows[r][j] = Zero
  BY <1>2, ColsFacts DEF Triangular
<1>5. /\ coefficient_rows' \in [Cols -> Vector] /\ payload_rows' \in [Cols -> Payload]
      /\ \A i \in Cols : payload_rows'[i] = Code(coefficient_rows'[i])
      /\ \A i \in Cols \ {t} : coefficient_rows'[i] = coefficient_rows[i]
      /\ coefficient_rows'[t][r] = Zero
      /\ \A j \in Cols : (j < r \/ coefficient_rows[r][j] = Zero) =>
           coefficient_rows'[t][j] = coefficient_rows[t][j]
  <2>1. Eliminate(r, r)
    BY <1>1, <1>3
  <2>2. QED
    BY <1>3, <1>4, <2>1, EliminateRow DEF BatchInv
<1>6. \A j \in Cols : j # r => coefficient_rows'[t][j] = coefficient_rows[t][j]
  <2> SUFFICES ASSUME NEW j \in Cols, j # r
               PROVE  j < r \/ coefficient_rows[r][j] = Zero
    BY <1>5
  <2>1. j < r \/ r < j
    BY ColsFacts
  <2>2. QED
    BY <1>2, <1>3, <2>1
<1>7. BatchTypes'
  BY <1>1, <1>5, ColsFacts DEF BatchInv, BatchTypes
<1>8. Triangular(K)'
  <2> SUFFICES ASSUME NEW i \in Cols, NEW j \in Cols
               PROVE  /\ coefficient_rows'[i][i] = One
                      /\ j < i => coefficient_rows'[i][j] = Zero
    BY DEF Triangular
  <2>1. coefficient_rows[i][i] = One /\ (j < i => coefficient_rows[i][j] = Zero)
    BY <1>2, ColsFacts DEF Triangular
  <2>2. CASE i = t
    <3>1. i # r /\ (j < i => j # r)
      BY <1>3, <2>2, ColsFacts
    <3>2. QED
      BY <1>6, <2>1, <2>2, <3>1
  <2>3. CASE i # t
    BY <1>5, <2>1, <2>3
  <2>4. QED
    BY <2>2, <2>3
<1>9. BackInv'
  <2>1. ASSUME NEW i \in Cols, NEW j \in Cols, rank < j, i # j
        PROVE  coefficient_rows'[i][j] = Zero
    <3>1. coefficient_rows[i][j] = Zero /\ j # r
      BY <1>2, <1>3, <2>1, ColsFacts
    <3>2. QED
      BY <1>5, <1>6, <3>1
  <2>2. ASSUME NEW i \in Cols, i < target + 1
        PROVE  coefficient_rows'[i][rank] = Zero
    <3>1. CASE i = t
      BY <1>3, <1>5, <3>1
    <3>2. CASE i # t
      BY <1>1, <1>2, <1>3, <1>5, <2>2, <3>2, ColsFacts
    <3>3. QED
      BY <3>1, <3>2
  <2>3. QED
    BY <1>1, <1>8, <2>1, <2>2 DEF BackInv
<1>10. QED
  BY <1>1, <1>5, <1>7, <1>9 DEF BatchInv, RowsBelongTogether, ForwardInv, ClearInv, AnswerInv

LEMMA PreviousPivotInv ==
  ASSUME BatchInv, PreviousPivot
  PROVE  BatchInv'
<1>1. /\ dec_pc = "back" /\ target = rank /\ rank \in 0..(K - 1)
      /\ coefficient_rows' = coefficient_rows /\ payload_rows' = payload_rows
      /\ fixture' = fixture
  BY ColsFacts DEF PreviousPivot, BatchInv, BatchTypes
<1>2. /\ Triangular(K)
      /\ \A i, j \in Cols : rank < j /\ i # j => coefficient_rows[i][j] = Zero
      /\ \A i \in Cols : i < rank => coefficient_rows[i][rank] = Zero
  BY <1>1 DEF BatchInv, BackInv
<1>3. \A i, j \in Cols : rank <= j /\ i # j => coefficient_rows[i][j] = Zero
  <2> SUFFICES ASSUME NEW i \in Cols, NEW j \in Cols, rank <= j, i # j
               PROVE  coefficient_rows[i][j] = Zero
    OBVIOUS
  <2>1. CASE j = rank /\ i < rank
    BY <1>2, <2>1
  <2>2. CASE j = rank /\ rank < i
    BY <1>2, <2>2, ColsFacts DEF Triangular
  <2>3. CASE rank < j
    BY <1>2, <2>3
  <2>4. QED
    BY <1>1, <2>1, <2>2, <2>3, ColsFacts
<1>4. CASE rank > 0
  <2>1. /\ rank' = rank - 1 /\ target' = 0 /\ dec_pc' = "back" /\ column' = column
        /\ decoded' = decoded
    BY <1>1, <1>4 DEF PreviousPivot
  <2>2. BatchTypes'
    BY <1>1, <1>4, <2>1, ColsFacts DEF BatchInv, BatchTypes
  <2>3. BackInv'
    BY <1>1, <1>2, <1>3, <1>4, <2>1, ColsFacts DEF BackInv, Triangular
  <2>4. QED
    BY <1>1, <2>1, <2>2, <2>3 DEF BatchInv, RowsBelongTogether, ForwardInv, ClearInv, AnswerInv
<1>5. CASE ~(rank > 0)
  <2>1. /\ dec_pc' = "idle" /\ column' = 0 /\ rank' = 0 /\ target' = 0
        /\ decoded' = "true"
    BY <1>1, <1>5 DEF PreviousPivot, Returns
  <2>2. BatchTypes'
    BY <1>1, <2>1, ColsFacts DEF BatchInv, BatchTypes
  <2>3. ASSUME NEW i \in Cols
        PROVE  coefficient_rows[i] = Unit(i)
    <3>1. coefficient_rows[i] \in Vector
      BY DEF BatchInv, BatchTypes
    <3>2. \A j \in Cols : coefficient_rows[i][j] = IF j = i THEN One ELSE Zero
      BY <1>1, <1>2, <1>3, <1>5, ColsFacts DEF Triangular
    <3>3. QED
      BY <3>1, <3>2 DEF Unit, Vector
  <2>4. payload_rows = Source
    BY <2>3 DEF BatchInv, BatchTypes, RowsBelongTogether, Source
  <2>5. QED
    BY <1>1, <2>1, <2>2, <2>4 DEF BatchInv, RowsBelongTogether, ForwardInv, ClearInv,
       BackInv, AnswerInv, Source
<1>6. QED
  BY <1>4, <1>5

-----------------------------------------------------------------------------
LEMMA BatchStepInv ==
  ASSUME BatchInv, [BatchNext]_batchVars
  PROVE  BatchInv'
<1>1. CASE UNCHANGED batchVars
  BY <1>1 DEF batchVars, BatchInv, BatchTypes, RowsBelongTogether, ForwardInv, ClearInv,
     BackInv, AnswerInv, Triangular
<1>2. CASE BatchNext
  BY <1>2, BeginBatchInv, SkipColumnInv, TakePivotRowInv, ClearBelowInv, NextPivotColumnInv,
     RankDeficientInv, ClearAboveInv, PreviousPivotInv DEF BatchNext
<1>3. QED
  BY <1>1, <1>2

LEMMA BatchInvariance == BatchSpec => []BatchInv
<1>1. BatchInit => BatchInv
  BY BatchInitInv
<1>2. BatchInv /\ [BatchNext]_batchVars => BatchInv'
  BY BatchStepInv
<1>3. QED
  BY <1>1, <1>2, PTL DEF BatchSpec

(***************************************************************************)
(* Coefficients and payloads stay together through swaps, scaling and      *)
(* elimination of suffixes, decode after decode in the same rows.          *)
(***************************************************************************)
THEOREM RowsStayTogether == BatchSpec => []RowsBelongTogether
<1>1. BatchInv => RowsBelongTogether
  BY DEF BatchInv
<1>2. QED
  BY <1>1, BatchInvariance, PTL

LEMMA BatchStepsLeftType == BatchInv => BatchStepsLeft \in Countdowns(3)
<1> SUFFICES ASSUME BatchInv
             PROVE  BatchStepsLeft \in Countdowns(3)
  OBVIOUS
<1>1. \A x, y, z \in Nat : <<x, y, z>> \in Countdowns(3)
  BY DEF Countdowns
<1>2. /\ dec_pc \in {"idle", "pivot", "clear", "back"}
      /\ K - column \in Nat /\ K - target \in Nat /\ K + 1 \in Nat /\ rank \in Nat
      /\ dec_pc = "back" => rank - target \in Nat
  BY ColsFacts DEF BatchInv, BatchTypes, BackInv
<1>3. QED
  BY <1>1, <1>2 DEF BatchStepsLeft

LEMMA BatchStepDescends ==
  ASSUME BatchInv, BatchNext, dec_pc # "idle", BatchStepsLeft \in Countdowns(3),
         BatchStepsLeft' \in Countdowns(3)
  PROVE  Nearer(3, BatchStepsLeft', BatchStepsLeft)
<1>1. column \in 0..K /\ rank \in Nat /\ rank < K /\ target \in 0..K /\ K \in Nat
  BY ColsFacts DEF BatchInv, BatchTypes
<1>2. CASE SkipColumn
  <2>1. /\ BatchStepsLeft = <<2, K - column, K + 1>>
        /\ BatchStepsLeft' = <<2, K - (column + 1), K + 1>>
    BY <1>2 DEF SkipColumn, BatchStepsLeft
  <2>2. QED
    BY <1>1, <2>1, NearerTriple
<1>3. CASE TakePivotRow
  <2>1. /\ BatchStepsLeft = <<2, K - column, K + 1>>
        /\ BatchStepsLeft' = <<2, K - column, K - (rank + 1)>>
    BY <1>3 DEF TakePivotRow, BatchStepsLeft
  <2>2. QED
    BY <1>1, <2>1, NearerTriple
<1>4. CASE ClearBelow
  <2>1. /\ BatchStepsLeft = <<2, K - column, K - target>>
        /\ BatchStepsLeft' = <<2, K - column, K - (target + 1)>>
    BY <1>4 DEF ClearBelow, BatchStepsLeft
  <2>2. QED
    BY <1>1, <2>1, NearerTriple
<1>5. CASE NextPivotColumn
  <2>1. /\ BatchStepsLeft = <<2, K - column, K - target>>
        /\ \/ BatchStepsLeft' = <<1, rank, rank - 0>>
           \/ BatchStepsLeft' = <<2, K - (column + 1), K + 1>>
    BY <1>5 DEF NextPivotColumn, BatchStepsLeft
  <2>2. QED
    BY <1>1, <2>1, NearerTriple
<1>6. CASE RankDeficient
  <2>1. BatchStepsLeft = <<2, K - column, K + 1>> /\ BatchStepsLeft' = <<0, 0, 0>>
    BY <1>6 DEF RankDeficient, Returns, BatchStepsLeft
  <2>2. QED
    BY <1>1, <2>1, NearerTriple
<1>7. CASE ClearAbove
  <2>1. /\ BatchStepsLeft = <<1, rank, rank - target>>
        /\ BatchStepsLeft' = <<1, rank, rank - (target + 1)>>
    BY <1>7 DEF ClearAbove, BatchStepsLeft
  <2>2. QED
    BY <1>1, <2>1, NearerTriple
<1>8. CASE PreviousPivot
  <2>1. /\ BatchStepsLeft = <<1, rank, rank - target>>
        /\ \/ BatchStepsLeft' = <<1, rank - 1, (rank - 1) - 0>>
           \/ BatchStepsLeft' = <<0, 0, 0>>
    BY <1>8 DEF PreviousPivot, Returns, BatchStepsLeft
  <2>2. QED
    BY <1>1, <2>1, NearerTriple
<1>9. QED
  BY <1>2, <1>3, <1>4, <1>5, <1>6, <1>7, <1>8 DEF BatchNext, BeginBatch

(***************************************************************************)
(* Every iteration of the benchmark's decode brings its end nearer,        *)
(* whatever the packets: forward elimination, with columns skipped or      *)
(* ended early at full rank, and back substitution.                        *)
(***************************************************************************)
THEOREM BatchDecodeEnds == BatchSpec => BatchCountsDown
<1> DEFINE Typed == BatchStepsLeft \in Countdowns(3)
<1>1. BatchInv /\ Typed /\ Typed' /\ [BatchNext]_batchVars
        => [dec_pc # "idle" => Nearer(3, BatchStepsLeft', BatchStepsLeft)]_batchVars
  BY BatchStepDescends
<1>2. BatchInv => Typed
  BY BatchStepsLeftType
<1> HIDE DEF Typed
<1>3. QED
  BY <1>1, <1>2, BatchInvariance, PTL DEF BatchSpec, BatchCountsDown

-----------------------------------------------------------------------------
(* A linear combination of the rows of m, as Independent computes it.      *)
Combination(m, a) ==
  LET sum[n \in 0..K] == IF n = 0 THEN ZeroVector ELSE Axpy(a[n - 1], m[n - 1], sum[n - 1])
  IN  sum[K]

(* What row n contributes to its entry j. *)
Term(m, a, j, n) == Times(a[n], m[n][j])

Terms(m, a, j) == [n \in Cols |-> Term(m, a, j, n)]

(* p[n] is the sum of the first n terms. *)
PartialSums(p, x) ==
  /\ p[0] = Zero
  /\ \A n \in Cols : p[n + 1] = Plus(p[n], x[n])
  /\ \A n \in 0..K : p[n] \in Elem

LEMMA SumsExist ==
  ASSUME NEW m \in [Cols -> Vector], NEW a \in Vector
  PROVE  \E g \in [0..K -> Vector] :
           g = [n \in 0..K |-> IF n = 0 THEN ZeroVector ELSE Axpy(a[n - 1], m[n - 1], g[n - 1])]
<1> DEFINE Next1(g, n) == IF n = 0 THEN ZeroVector ELSE Axpy(a[n - 1], m[n - 1], g[n - 1])
           Good(g, n) == \A i \in 0..K : i <= n => g[i] = Next1(g, i)
           S == {n \in Nat : \E g \in [0..K -> Vector] : Good(g, n)}
<1>1. \A n \in 0..K : n # 0 => n - 1 \in Cols /\ n - 1 \in 0..K
  BY ColsFacts
<1>2. \A c \in Elem, x, y \in Vector : Axpy(c, x, y) \in Vector
  BY FieldAssumption DEF Axpy, AxpyFrom, Vector
<1>3. \A i \in Cols : a[i] \in Elem /\ m[i] \in Vector
  BY DEF Vector
<1>4. ASSUME NEW g \in [0..K -> Vector], NEW n \in 0..K
      PROVE  Next1(g, n) \in Vector
  BY <1>1, <1>2, <1>3, ZeroTypes
<1>5. 0 \in S
  <2> DEFINE g == [n \in 0..K |-> ZeroVector]
  <2>1. g \in [0..K -> Vector]
    BY ZeroTypes
  <2>2. Good(g, 0)
    BY ColsFacts
  <2>3. QED
    BY <2>1, <2>2
<1>6. ASSUME NEW n \in Nat, n \in S
      PROVE  n + 1 \in S
  <2>1. PICK g \in [0..K -> Vector] : Good(g, n)
    BY <1>6
  <2> DEFINE h == [i \in 0..K |-> Next1(g, i)]
  <2>2. h \in [0..K -> Vector]
    BY <1>4
  <2>3. ASSUME NEW i \in 0..K, i <= n + 1
        PROVE  h[i] = Next1(h, i)
    <3>1. CASE i = 0
      BY <3>1
    <3>2. CASE i # 0
      <4>1. i - 1 \in 0..K /\ i - 1 <= n
        BY <1>1, <2>3, <3>2
      <4>2. h[i - 1] = g[i - 1]
        BY <2>1, <4>1
      <4>3. QED
        BY <3>2, <4>2
    <3>3. QED
      BY <3>1, <3>2
  <2> HIDE DEF h
  <2>4. Good(h, n + 1)
    BY <2>3
  <2>5. QED
    <3> HIDE DEF Good
    <3>1. QED
      BY <2>2, <2>4
<1>7. Nat \subseteq S
  <2> HIDE DEF S
  <2>1. QED
    BY <1>5, <1>6, SetInduction
<1>8. PICK g \in [0..K -> Vector] : Good(g, K)
  BY <1>7, ColsFacts
<1>9. \A n \in 0..K : g[n] = Next1(g, n)
  BY <1>8
<1>10. g = [n \in 0..K |-> g[n]]
  BY <1>8
<1>11. g = [n \in 0..K |-> Next1(g, n)]
  BY <1>9, <1>10
<1>12. QED
  BY <1>11

(* Each entry of a combination is the last of its partial sums.            *)
LEMMA Entries ==
  ASSUME NEW m \in [Cols -> Vector], NEW a \in Vector
  PROVE  /\ Combination(m, a) \in Vector
         /\ \A j \in Cols : \E p : PartialSums(p, Terms(m, a, j)) /\ p[K] = Combination(m, a)[j]
<1> DEFINE g == CHOOSE f : f = [n \in 0..K |-> IF n = 0 THEN ZeroVector
                                               ELSE Axpy(a[n - 1], m[n - 1], f[n - 1])]
<1>1. Combination(m, a) = g[K]
  BY DEF Combination
<1>2. g = [n \in 0..K |-> IF n = 0 THEN ZeroVector ELSE Axpy(a[n - 1], m[n - 1], g[n - 1])]
  BY SumsExist
<1> HIDE DEF g
<1>3. \A n \in 0..K : g[n] = IF n = 0 THEN ZeroVector ELSE Axpy(a[n - 1], m[n - 1], g[n - 1])
  BY <1>2
<1>4. \A n \in Cols : g[n + 1] = Axpy(a[n], m[n], g[n])
  <2>1. \A n \in Cols : n + 1 \in 0..K /\ n + 1 # 0 /\ (n + 1) - 1 = n
    BY ColsFacts
  <2>2. QED
    BY <1>3, <2>1
<1>5. \A n \in 0..K : g[n] \in Vector
  <2> DEFINE S == {n \in Nat : n \in 0..K => g[n] \in Vector}
  <2>1. 0 \in S
    BY <1>3, ZeroTypes
  <2>2. ASSUME NEW n \in Nat, n \in S
        PROVE  n + 1 \in S
    <3>1. SUFFICES ASSUME n + 1 \in 0..K
                   PROVE  g[n + 1] \in Vector
      OBVIOUS
    <3>2. n \in Cols /\ n \in 0..K
      BY <3>1, ColsFacts
    <3>3. g[n] \in Vector /\ a[n] \in Elem /\ m[n] \in Vector
      BY <2>2, <3>2 DEF Vector
    <3>4. Axpy(a[n], m[n], g[n]) \in Vector
      BY <3>3, FieldAssumption DEF Axpy, AxpyFrom, Vector
    <3>5. QED
      BY <1>4, <3>2, <3>4
  <2>3. Nat \subseteq S
    <3> HIDE DEF S
    <3>1. QED
      BY <2>1, <2>2, SetInduction
  <2>4. QED
    BY <2>3
<1>6. ASSUME NEW j \in Cols
      PROVE  \E p : PartialSums(p, Terms(m, a, j)) /\ p[K] = Combination(m, a)[j]
  <2> DEFINE p == [n \in 0..K |-> g[n][j]]
  <2>1. p[0] = Zero /\ p[K] = Combination(m, a)[j]
    <3>1. 0 \in 0..K /\ K \in 0..K
      BY ColsFacts
    <3>2. g[0] = ZeroVector
      BY <1>3, <3>1
    <3>3. QED
      BY <1>1, <3>1, <3>2 DEF ZeroVector
  <2>2. ASSUME NEW n \in Cols
        PROVE  p[n + 1] = Plus(p[n], Term(m, a, j, n))
    <3>1. n + 1 \in 0..K /\ n \in 0..K /\ j >= 0
      BY ColsFacts
    <3>2. p[n + 1] = Axpy(a[n], m[n], g[n])[j] /\ p[n] = g[n][j]
      BY <1>4, <3>1
    <3>3. g[n] \in Vector
      BY <1>5, <3>1
    <3>4. Axpy(a[n], m[n], g[n])[j] = Plus(g[n][j], Times(a[n], m[n][j]))
      BY <3>1, <3>3 DEF Axpy, AxpyFrom, Vector
    <3>5. QED
      BY <3>2, <3>4 DEF Term
  <2>3. \A n \in 0..K : p[n] \in Elem
    BY <1>5 DEF Vector
  <2> HIDE DEF p
  <2>4. PartialSums(p, Terms(m, a, j))
    BY <2>1, <2>2, <2>3 DEF PartialSums, Terms
  <2>5. QED
    BY <2>1, <2>4
<1>7. QED
  BY <1>1, <1>5, <1>6, ColsFacts

DifferTwice(x, y, D, s, t) ==
  /\ s # t \/ D = Zero
  /\ \A n \in Cols : y[n] \in Elem /\ x[n] = IF n \in {s, t} THEN Plus(y[n], D) ELSE y[n]

(* Two sums are the same if their terms are, or if two of them differ by   *)
(* the same amount, which the other one cancels.                           *)
LEMMA SameSum ==
  ASSUME NEW p, NEW q, NEW x, NEW y, NEW D \in Elem, NEW s \in Cols, NEW t \in Cols,
         PartialSums(p, x), PartialSums(q, y), DifferTwice(x, y, D, s, t)
  PROVE  p[K] = q[K]
<1> DEFINE Off(n) == (s < n) # (t < n)
           S == {n \in Nat : n \in 0..K => p[n] = IF Off(n) THEN Plus(q[n], D) ELSE q[n]}
<1>1. s \in Nat /\ t \in Nat /\ s < K /\ t < K /\ K \in Nat
  BY ColsFacts
<1> USE DEF PartialSums, DifferTwice
<1>2. 0 \in S
  BY <1>1
<1>3. ASSUME NEW n \in Nat, n \in S
      PROVE  n + 1 \in S
  <2>1. SUFFICES ASSUME n + 1 \in 0..K
                 PROVE  p[n + 1] = IF Off(n + 1) THEN Plus(q[n + 1], D) ELSE q[n + 1]
    OBVIOUS
  <2>2. n \in Cols /\ n \in 0..K
    BY <2>1, ColsFacts
  <2>3. p[n] = IF Off(n) THEN Plus(q[n], D) ELSE q[n]
    BY <1>3, <2>2
  <2>4. PICK e \in Elem, f \in Elem : e = q[n] /\ f = y[n]
    BY <2>2
  <2>5. /\ p[n + 1] = Plus(p[n], x[n]) /\ q[n + 1] = Plus(e, f)
        /\ x[n] = IF n \in {s, t} THEN Plus(f, D) ELSE f
    BY <2>2, <2>4
  <2>6. /\ Plus(Plus(e, D), f) = Plus(Plus(e, f), D)
        /\ Plus(e, Plus(f, D)) = Plus(Plus(e, f), D)
        /\ Plus(Plus(e, D), Plus(f, D)) = Plus(e, f)
    <3>1. Plus(e, Plus(f, D)) = Plus(Plus(e, f), D)
      BY FieldAssumption
    <3>2. Plus(Plus(e, D), f) = Plus(e, Plus(D, f)) /\ Plus(D, f) = Plus(f, D)
      BY FieldAssumption
    <3>3. PICK g \in Elem : g = Plus(f, D)
      BY FieldAssumption
    <3>4. Plus(Plus(e, D), g) = Plus(e, Plus(D, g)) /\ Plus(D, g) = Plus(g, D)
      BY FieldAssumption
    <3>5. Plus(g, D) = Plus(f, Plus(D, D)) /\ Plus(D, D) = Zero /\ Plus(f, Zero) = f
      BY <3>3, FieldAssumption
    <3>6. QED
      BY <3>1, <3>2, <3>3, <3>4, <3>5
  <2>7. Off(n + 1) <=> (IF n = s /\ n = t THEN Off(n)
                        ELSE IF n \in {s, t} THEN ~Off(n) ELSE Off(n))
    BY <1>1
  <2>8. CASE n = s /\ n = t
    <3>1. D = Zero /\ Plus(f, D) = f
      BY <2>8, FieldAssumption
    <3>2. Off(n + 1) <=> Off(n)
      BY <2>7, <2>8
    <3> HIDE DEF Off
    <3>3. QED
      BY <2>3, <2>4, <2>5, <2>6, <2>8, <3>1, <3>2
  <2>9. CASE n \in {s, t} /\ ~(n = s /\ n = t)
    <3>1. Off(n + 1) <=> ~Off(n)
      BY <2>7, <2>9
    <3> HIDE DEF Off
    <3>2. QED
      BY <2>3, <2>4, <2>5, <2>6, <2>9, <3>1
  <2>10. CASE n \notin {s, t}
    <3>1. Off(n + 1) <=> Off(n)
      BY <2>7, <2>10
    <3> HIDE DEF Off
    <3>2. QED
      BY <2>3, <2>4, <2>5, <2>6, <2>10, <3>1
  <2>11. QED
    BY <2>8, <2>9, <2>10
<1>4. Nat \subseteq S
  <2> HIDE DEF S
  <2>1. QED
    BY <1>2, <1>3, SetInduction
<1>5. K \in S /\ ~Off(K)
  BY <1>1, <1>4
<1>6. QED
  BY <1>1, <1>5

LEMMA TermTypes ==
  ASSUME NEW m \in [Cols -> Vector], NEW a \in Vector, NEW j \in Cols
  PROVE  \A n \in Cols : Term(m, a, j, n) \in Elem
BY FieldAssumption DEF Term, Vector

Cancelling(m, a, l, b, s, t) ==
  \A j \in Cols : \E D \in Elem : DifferTwice(Terms(m, a, j), Terms(l, b, j), D, s, t)

LEMMA DifferIf ==
  ASSUME NEW m \in [Cols -> Vector], NEW l \in [Cols -> Vector],
         NEW a \in Vector, NEW b \in Vector, NEW s \in Cols, NEW t \in Cols, NEW j \in Cols,
         NEW D \in Elem, s # t \/ D = Zero,
         \A n \in Cols : Term(m, a, j, n) = IF n \in {s, t} THEN Plus(Term(l, b, j, n), D)
                                            ELSE Term(l, b, j, n)
  PROVE  DifferTwice(Terms(m, a, j), Terms(l, b, j), D, s, t)
BY TermTypes DEF DifferTwice, Terms

LEMMA SameCombination ==
  ASSUME NEW m \in [Cols -> Vector], NEW l \in [Cols -> Vector],
         NEW a \in Vector, NEW b \in Vector, NEW s \in Cols, NEW t \in Cols,
         Cancelling(m, a, l, b, s, t)
  PROVE  Combination(m, a) = Combination(l, b)
<1>1. ASSUME NEW j \in Cols
      PROVE  Combination(m, a)[j] = Combination(l, b)[j]
  <2>1. PICK D \in Elem : DifferTwice(Terms(m, a, j), Terms(l, b, j), D, s, t)
    BY DEF Cancelling
  <2>2. PICK p : PartialSums(p, Terms(m, a, j)) /\ p[K] = Combination(m, a)[j]
    BY Entries
  <2>3. PICK q : PartialSums(q, Terms(l, b, j)) /\ q[K] = Combination(l, b)[j]
    BY Entries
  <2>4. p[K] = q[K]
    BY <2>1, <2>2, <2>3, SameSum
  <2>5. QED
    BY <2>2, <2>3, <2>4
<1>2. Combination(m, a) \in Vector /\ Combination(l, b) \in Vector
  BY Entries
<1>3. QED
  BY <1>1, <1>2 DEF Vector

LEMMA IndependentRows ==
  ASSUME NEW m
  PROVE  Independent(m) <=> \A a \in Vector : Combination(m, a) = ZeroVector => a = ZeroVector
BY DEF Independent, Combination

-----------------------------------------------------------------------------
(* The row operations keep a matrix independent.                           *)
LEMMA AddKeeps ==
  ASSUME NEW l \in [Cols -> Vector], Independent(l), NEW s \in Cols, NEW t \in Cols, s # t,
         NEW c \in Elem, NEW m \in [Cols -> Vector], 
         \A n \in Cols \ {t} : m[n] = l[n],
         \A j \in Cols : m[t][j] = Plus(l[t][j], Times(c, l[s][j]))
  PROVE  Independent(m)
<1>1. ASSUME NEW a \in Vector, Combination(m, a) = ZeroVector
      PROVE  a = ZeroVector
  <2>1. a[s] \in Elem /\ a[t] \in Elem
    BY DEF Vector
  <2>2. PICK e \in Elem : e = Plus(a[s], Times(c, a[t]))
    BY <2>1, FieldAssumption
  <2>3. PICK b : b = [a EXCEPT ![s] = e]
    OBVIOUS
  <2>4. b \in Vector /\ b[s] = e /\ \A n \in Cols \ {s} : b[n] = a[n]
    BY <2>3 DEF Vector
  <2>5. ASSUME NEW j \in Cols
        PROVE  \E D \in Elem : DifferTwice(Terms(m, a, j), Terms(l, b, j), D, s, t)
    <3>1. PICK u \in Elem, v \in Elem, d \in Elem, g \in Elem :
            u = a[s] /\ v = a[t] /\ d = l[s][j] /\ g = l[t][j]
      BY <2>1 DEF Vector
    <3>2. PICK w \in Elem : w = Times(c, d)
      BY FieldAssumption
    <3>3. PICK D \in Elem : D = Times(v, w)
      BY FieldAssumption
    <3>4. Term(m, a, j, t) = Plus(Term(l, b, j, t), D)
      <4>1. Times(v, Plus(g, w)) = Plus(Times(v, g), Times(v, w))
        BY FieldAssumption
      <4>2. Term(m, a, j, t) = Times(v, Plus(g, w)) /\ Term(l, b, j, t) = Times(v, g)
        BY <2>4, <3>1, <3>2 DEF Term
      <4>3. QED
        BY <3>3, <4>1, <4>2
    <3>5. Term(m, a, j, s) = Plus(Term(l, b, j, s), D)
      <4>1. Term(m, a, j, s) = Times(u, d) /\ Term(l, b, j, s) = Times(e, d)
        BY <2>4, <3>1 DEF Term
      <4>2. PICK h \in Elem : h = Times(c, v)
        BY FieldAssumption
      <4>3. e = Plus(u, h)
        BY <2>2, <3>1, <4>2
      <4>4. Times(e, d) = Plus(Times(u, d), Times(h, d))
        <5>1. Times(d, Plus(u, h)) = Plus(Times(d, u), Times(d, h))
          BY FieldAssumption
        <5>2. /\ Times(d, Plus(u, h)) = Times(Plus(u, h), d)
              /\ Times(d, u) = Times(u, d) /\ Times(d, h) = Times(h, d)
          BY <2>2, <4>3, FieldAssumption
        <5>3. QED
          BY <4>3, <5>1, <5>2
      <4>5. Times(h, d) = D
        <5>1. Times(Times(v, c), d) = Times(v, Times(c, d)) /\ Times(v, c) = Times(c, v)
          BY FieldAssumption
        <5>2. QED
          BY <3>2, <3>3, <4>2, <5>1
      <4>6. PICK k \in Elem : k = Times(u, d)
        BY FieldAssumption
      <4>7. Plus(Plus(k, D), D) = k
        <5>1. Plus(Plus(k, D), D) = Plus(k, Plus(D, D)) /\ Plus(D, D) = Zero /\ Plus(k, Zero) = k
          BY FieldAssumption
        <5>2. QED
          BY <5>1
      <4>8. QED
        BY <4>1, <4>4, <4>5, <4>6, <4>7
    <3>6. \A n \in Cols \ {s, t} : Term(m, a, j, n) = Term(l, b, j, n)
      BY <2>4 DEF Term
    <3>7. \A n \in Cols : Term(m, a, j, n) = IF n \in {s, t} THEN Plus(Term(l, b, j, n), D)
                                                 ELSE Term(l, b, j, n)
      BY <3>4, <3>5, <3>6
    <3>8. DifferTwice(Terms(m, a, j), Terms(l, b, j), D, s, t)
      BY <2>4, <3>7, DifferIf
    <3>9. QED
      BY <3>8
  <2>6. Combination(m, a) = Combination(l, b)
    <3>1. Cancelling(m, a, l, b, s, t)
      BY <2>5 DEF Cancelling
    <3>2. QED
      BY <2>4, <3>1, SameCombination
  <2>7. b = ZeroVector
    BY <1>1, <2>4, <2>6, IndependentRows
  <2>8. \A n \in Cols \ {s} : a[n] = Zero
    BY <2>4, <2>7 DEF ZeroVector
  <2>9. a[s] = Zero
    <3>1. a[t] = Zero /\ e = Zero
      BY <2>4, <2>7, <2>8 DEF ZeroVector
    <3>2. Times(c, Zero) = Zero /\ Plus(a[s], Zero) = a[s]
      BY <2>1, FieldAssumption
    <3>3. QED
      BY <2>2, <3>1, <3>2
  <2>10. QED
    BY <2>8, <2>9 DEF ZeroVector, Vector
<1>2. QED
  BY <1>1, IndependentRows

LEMMA ScaleKeeps ==
  ASSUME NEW l \in [Cols -> Vector], Independent(l), NEW t \in Cols, 
         NEW c \in Elem, c # Zero, NEW m \in [Cols -> Vector], 
         \A n \in Cols \ {t} : m[n] = l[n],
         \A j \in Cols : m[t][j] = Times(c, l[t][j])
  PROVE  Independent(m)
<1>1. ASSUME NEW a \in Vector, Combination(m, a) = ZeroVector
      PROVE  a = ZeroVector
  <2>1. PICK v \in Elem : v = a[t]
    BY DEF Vector
  <2>2. PICK e \in Elem : e = Times(v, c)
    BY FieldAssumption
  <2>3. PICK b : b = [a EXCEPT ![t] = e]
    OBVIOUS
  <2>4. b \in Vector /\ b[t] = e /\ \A n \in Cols \ {t} : b[n] = a[n]
    BY <2>3 DEF Vector
  <2>5. ASSUME NEW j \in Cols
        PROVE  \E D \in Elem : DifferTwice(Terms(m, a, j), Terms(l, b, j), D, t, t)
    <3>1. PICK g \in Elem : g = l[t][j]
      BY DEF Vector
    <3>2. Term(m, a, j, t) = Times(v, Times(c, g)) /\ Term(l, b, j, t) = Times(e, g)
      BY <2>1, <2>4, <3>1 DEF Term
    <3>3. Times(e, g) = Times(v, Times(c, g))
      BY <2>2, FieldAssumption
    <3>4. Plus(Times(e, g), Zero) = Times(e, g)
      BY FieldAssumption
    <3>5. \A n \in Cols \ {t} : Term(m, a, j, n) = Term(l, b, j, n)
      BY <2>4 DEF Term
    <3>6. \A n \in Cols : Term(m, a, j, n) = IF n \in {t, t} THEN Plus(Term(l, b, j, n), Zero)
                                             ELSE Term(l, b, j, n)
      BY <3>2, <3>3, <3>4, <3>5
    <3>7. Zero \in Elem
      BY FieldAssumption
    <3>8. DifferTwice(Terms(m, a, j), Terms(l, b, j), Zero, t, t)
      BY <2>4, <3>6, <3>7, DifferIf
    <3>9. QED
      BY <3>7, <3>8
  <2>6. Combination(m, a) = Combination(l, b)
    <3>1. Cancelling(m, a, l, b, t, t)
      BY <2>5 DEF Cancelling
    <3>2. QED
      BY <2>4, <3>1, SameCombination
  <2>7. b = ZeroVector
    BY <1>1, <2>4, <2>6, IndependentRows
  <2>8. \A n \in Cols \ {t} : a[n] = Zero
    BY <2>4, <2>7 DEF ZeroVector
  <2>9. a[t] = Zero
    <3>1. Times(v, c) = Zero
      BY <2>2, <2>4, <2>7 DEF ZeroVector
    <3>2. PICK i \in Elem : Times(i, c) = One
      BY FieldAssumption
    <3>3. Times(Times(v, c), i) = Times(v, Times(c, i)) /\ Times(c, i) = Times(i, c)
          /\ Times(v, One) = v
      BY FieldAssumption
    <3>4. Times(Zero, i) = Times(i, Zero) /\ Times(i, Zero) = Zero
      BY FieldAssumption
    <3>5. QED
      BY <2>1, <3>1, <3>2, <3>3, <3>4
  <2>10. QED
    BY <2>8, <2>9 DEF ZeroVector, Vector
<1>2. QED
  BY <1>1, IndependentRows

LEMMA SwapKeeps ==
  ASSUME NEW l \in [Cols -> Vector], Independent(l), NEW s \in Cols, NEW t \in Cols, 
         NEW m \in [Cols -> Vector], m[s] = l[t], m[t] = l[s],
         \A n \in Cols \ {s, t} : m[n] = l[n]
  PROVE  Independent(m)
<1>1. ASSUME NEW a \in Vector, Combination(m, a) = ZeroVector
      PROVE  a = ZeroVector
  <2>1. PICK u \in Elem, v \in Elem : u = a[s] /\ v = a[t]
    BY DEF Vector
  <2>2. PICK b : b = [a EXCEPT ![s] = v, ![t] = u]
    OBVIOUS
  <2>3. b \in Vector /\ b[s] = v /\ b[t] = u /\ \A n \in Cols \ {s, t} : b[n] = a[n]
    BY <2>1, <2>2 DEF Vector
  <2>4. ASSUME NEW j \in Cols
        PROVE  \E D \in Elem : DifferTwice(Terms(m, a, j), Terms(l, b, j), D, s, t)
    <3>1. PICK d \in Elem, g \in Elem : d = l[s][j] /\ g = l[t][j]
      BY DEF Vector
    <3>2. PICK e \in Elem, f \in Elem : e = Times(u, g) /\ f = Times(v, d)
      BY FieldAssumption
    <3>3. PICK D \in Elem : D = Plus(e, f)
      BY FieldAssumption
    <3>4. /\ Term(m, a, j, s) = e /\ Term(l, b, j, s) = f
          /\ Term(m, a, j, t) = f /\ Term(l, b, j, t) = e
      BY <2>1, <2>3, <3>1, <3>2 DEF Term
    <3>5. s = t => D = Zero
      <4>1. s = t => e = f
        BY <2>1, <3>1, <3>2
      <4>2. QED
        BY <3>3, <4>1, FieldAssumption
    <3>6. Plus(f, D) = e /\ Plus(e, D) = f
      <4>1. /\ Plus(e, Plus(e, f)) = Plus(Plus(e, e), f) /\ Plus(e, e) = Zero
            /\ Plus(Zero, f) = Plus(f, Zero) /\ Plus(f, Zero) = f
        BY FieldAssumption
      <4>2. /\ Plus(f, Plus(f, e)) = Plus(Plus(f, f), e) /\ Plus(f, f) = Zero
            /\ Plus(Zero, e) = Plus(e, Zero) /\ Plus(e, Zero) = e /\ Plus(f, e) = Plus(e, f)
        BY FieldAssumption
      <4>3. QED
        BY <3>3, <4>1, <4>2
    <3>7. \A n \in Cols \ {s, t} : Term(m, a, j, n) = Term(l, b, j, n)
      BY <2>3 DEF Term
    <3>8. \A n \in Cols : Term(m, a, j, n) = IF n \in {s, t} THEN Plus(Term(l, b, j, n), D)
                                             ELSE Term(l, b, j, n)
      BY <3>4, <3>6, <3>7
    <3>9. DifferTwice(Terms(m, a, j), Terms(l, b, j), D, s, t)
      BY <2>3, <3>5, <3>8, DifferIf
    <3>10. QED
      BY <3>9
  <2>5. Combination(m, a) = Combination(l, b)
    <3>1. Cancelling(m, a, l, b, s, t)
      BY <2>4 DEF Cancelling
    <3>2. QED
      BY <2>3, <3>1, SameCombination
  <2>6. b = ZeroVector
    BY <1>1, <2>3, <2>5, IndependentRows
  <2>7. a[s] = Zero /\ a[t] = Zero /\ \A n \in Cols \ {s, t} : a[n] = Zero
    BY <2>1, <2>3, <2>6 DEF ZeroVector
  <2>8. QED
    BY <2>7 DEF ZeroVector, Vector
<1>2. QED
  BY <1>1, IndependentRows

-----------------------------------------------------------------------------
(* The rows are independent exactly if the packets are.                    *)
IndependentInv ==
  /\ dec_pc # "idle" => (Independent(coefficient_rows) <=> Independent(fixture))
  /\ decoded = "true" => Independent(fixture)
  /\ decoded = "false" => ~Independent(fixture)

LEMMA EliminateKeeps ==
  ASSUME BatchTypes, NEW s \in Cols, NEW from \in Cols,
         target \in Cols, target # s, Eliminate(s, from),
         \A j \in Cols : j < from => coefficient_rows[s][j] = Zero
  PROVE  Independent(coefficient_rows') <=> Independent(coefficient_rows)
<1>1. PICK t \in Cols : t = target /\ t # s
  OBVIOUS
<1>2. PICK l \in [Cols -> Vector] : l = coefficient_rows
  BY DEF BatchTypes
<1>3. PICK m : m = coefficient_rows'
  OBVIOUS
<1>4. PICK c \in Elem : c = l[t][from]
  BY <1>2 DEF Vector
<1>5. CASE c = Zero
  BY <1>1, <1>2, <1>3, <1>4, <1>5 DEF Eliminate
<1>6. CASE c # Zero
  <2>1. PICK z : z = AxpyFrom(from, c, l[s], l[t])
    OBVIOUS
  <2>2. z = Axpy(c, l[s], l[t])
    BY <1>2, <2>1, AxpySuffix
  <2>3. from \in Nat
    BY ColsFacts
  <2>4. z \in Vector
    BY <2>1, <2>3, AxpyFromType
  <2>5. \A j \in Cols : z[j] = Plus(l[t][j], Times(c, l[s][j]))
    <3>1. \A j \in Cols : j >= 0
      BY ColsFacts
    <3>2. QED
      BY <2>2, <3>1 DEF Axpy, AxpyFrom, Vector
  <2>6. m = [l EXCEPT ![t] = z]
    BY <1>1, <1>2, <1>3, <1>4, <1>6, <2>1 DEF Eliminate
  <2>7. m \in [Cols -> Vector] /\ m[t] = z /\ \A n \in Cols \ {t} : m[n] = l[n]
    BY <2>4, <2>6
  <2>8. Independent(l) => Independent(m)
    BY <1>1, <2>5, <2>7, AddKeeps
  <2>9. \A j \in Cols : l[t][j] = Plus(m[t][j], Times(c, m[s][j]))
    <3>1. SUFFICES ASSUME NEW j \in Cols
                   PROVE  l[t][j] = Plus(m[t][j], Times(c, m[s][j]))
      OBVIOUS
    <3>2. PICK x \in Elem, y \in Elem : x = l[s][j] /\ y = l[t][j]
      BY DEF Vector
    <3>3. PICK d \in Elem : d = Times(c, x)
      BY FieldAssumption
    <3>4. Plus(Plus(y, d), d) = y
      <4>1. Plus(Plus(y, d), d) = Plus(y, Plus(d, d)) /\ Plus(d, d) = Zero /\ Plus(y, Zero) = y
        BY FieldAssumption
      <4>2. QED
        BY <4>1
    <3>5. m[t][j] = Plus(y, d) /\ m[s][j] = x
      BY <1>1, <2>5, <2>7, <3>2, <3>3
    <3>6. QED
      BY <3>2, <3>3, <3>4, <3>5
  <2>10. Independent(m) => Independent(l)
    BY <1>1, <2>7, <2>9, AddKeeps
  <2>11. QED
    BY <1>2, <1>3, <2>8, <2>10
<1>7. QED
  BY <1>5, <1>6

LEMMA SwapSame ==
  ASSUME NEW l \in [Cols -> Vector], NEW s \in Cols, NEW t \in Cols, NEW m, m = Swap(l, s, t)
  PROVE  /\ m \in [Cols -> Vector] /\ m[s] = l[t]
         /\ Independent(m) <=> Independent(l)
<1>1. /\ m \in [Cols -> Vector] /\ m[s] = l[t] /\ m[t] = l[s]
      /\ \A n \in Cols \ {s, t} : m[n] = l[n]
  BY DEF Swap
<1>2. Independent(l) => Independent(m)
  BY <1>1, SwapKeeps
<1>3. l[s] = m[t] /\ l[t] = m[s] /\ \A n \in Cols \ {s, t} : l[n] = m[n]
  BY <1>1
<1>4. Independent(m) => Independent(l)
  BY <1>1, <1>3, SwapKeeps
<1>5. QED
  BY <1>1, <1>2, <1>4

Divided(m, l, t, from, v) ==
  /\ m = [l EXCEPT ![t] = ScaleFrom(from, Reciprocal(v), l[t])]
  /\ \A j \in Cols : j < from => l[t][j] = Zero

LEMMA ScaleSame ==
  ASSUME NEW l \in [Cols -> Vector], NEW t \in Cols, NEW from \in Cols,
         NEW v \in Elem, v # Zero, NEW m, Divided(m, l, t, from, v)
  PROVE  Independent(m) <=> Independent(l)
<1>0. /\ m = [l EXCEPT ![t] = ScaleFrom(from, Reciprocal(v), l[t])]
      /\ \A j \in Cols : j < from => l[t][j] = Zero
  BY DEF Divided
<1>1. PICK c \in Elem : c = Reciprocal(v) /\ Times(c, v) = One
  BY FieldAssumption
<1>2. c # Zero /\ \A e \in Elem : Times(v, Times(c, e)) = e
  <2>1. ASSUME NEW e \in Elem PROVE Times(v, Times(c, e)) = e
    <3>1. Times(Times(v, c), e) = Times(v, Times(c, e)) /\ Times(v, c) = Times(c, v)
          /\ Times(One, e) = Times(e, One) /\ Times(e, One) = e
      BY FieldAssumption
    <3>2. QED
      BY <1>1, <3>1
  <2>2. c # Zero
    <3>1. Times(Zero, v) = Times(v, Zero) /\ Times(v, Zero) = Zero /\ Zero # One
      BY FieldAssumption
    <3>2. QED
      BY <1>1, <3>1
  <2>3. QED
    BY <2>1, <2>2
<1>3. PICK z : z = ScaleFrom(from, c, l[t])
  OBVIOUS
<1>4. z = Scale(c, l[t])
  BY <1>0, <1>3, ScaleSuffix
<1>5. z \in Vector
  <2>1. from \in Nat
    BY ColsFacts
  <2>2. QED
    BY <1>3, <2>1, ScaleFromType
<1>6. \A j \in Cols : z[j] = Times(c, l[t][j])
  <2>1. \A j \in Cols : j >= 0
    BY ColsFacts
  <2>2. QED
    BY <1>4, <2>1 DEF Scale, ScaleFrom, Vector
<1>7. m \in [Cols -> Vector] /\ m[t] = z /\ \A n \in Cols \ {t} : m[n] = l[n]
  BY <1>0, <1>1, <1>3, <1>5
<1>8. Independent(l) => Independent(m)
  <2>1. \A j \in Cols : m[t][j] = Times(c, l[t][j])
    BY <1>6, <1>7
  <2>2. c # Zero
    BY <1>2
  <2>3. m \in [Cols -> Vector] /\ \A n \in Cols \ {t} : m[n] = l[n]
    BY <1>7
  <2>4. SUFFICES ASSUME Independent(l) PROVE Independent(m)
    OBVIOUS
  <2>5. QED
    BY <2>1, <2>2, <2>3, <2>4, ScaleKeeps
<1>9. \A j \in Cols : l[t][j] = Times(v, m[t][j])
  <2>1. \A j \in Cols : l[t][j] \in Elem
    BY DEF Vector
  <2>2. QED
    BY <1>2, <1>6, <1>7, <2>1
<1>10. Independent(m) => Independent(l)
  BY <1>7, <1>9, ScaleKeeps
<1>11. QED
  BY <1>8, <1>10

LEMMA TakePivotKeeps ==
  ASSUME BatchInv, TakePivotRow
  PROVE  Independent(coefficient_rows') <=> Independent(coefficient_rows)
<1>1. /\ dec_pc = "pivot" /\ column \in 0..(K - 1) /\ rank \in 0..(K - 1)
  BY ColsFacts DEF TakePivotRow, BatchInv, BatchTypes
<1>2. \A i, j \in Cols : i >= rank /\ j < column => coefficient_rows[i][j] = Zero
  BY <1>1 DEF BatchInv, ForwardInv
<1>3. PICK r \in Cols, from \in Cols : r = rank /\ from = column
  BY <1>1, ColsFacts
<1>4. PICK pivot \in PivotRows :
        LET crows == Swap(coefficient_rows, rank, pivot)
            prows == Swap(payload_rows, rank, pivot)
            value == crows[rank][column]
        IN  IF value = One
            THEN coefficient_rows' = crows /\ payload_rows' = prows
            ELSE /\ coefficient_rows' =
                      [crows EXCEPT ![rank] = ScaleFrom(column, Reciprocal(value), @)]
                 /\ payload_rows' =
                      [prows EXCEPT ![rank] = Scale(Reciprocal(value), @)]
  BY DEF TakePivotRow
<1>5. pivot \in Cols /\ pivot >= r /\ coefficient_rows[pivot][from] # Zero
  BY <1>1, <1>3, ColsFacts DEF PivotRows
<1>6. PICK crows : crows = Swap(coefficient_rows, r, pivot)
  OBVIOUS
<1>7. /\ crows \in [Cols -> Vector] /\ crows[r] = coefficient_rows[pivot]
      /\ Independent(crows) <=> Independent(coefficient_rows)
  BY <1>5, <1>6, SwapSame DEF BatchInv, BatchTypes
<1>8. PICK value \in Elem : value = crows[r][from] /\ value # Zero
  BY <1>5, <1>7 DEF Vector
<1>9. \A j \in Cols : j < from => crows[r][j] = Zero
  BY <1>1, <1>2, <1>3, <1>5, <1>7, ColsFacts
<1>10. CASE value = One
  BY <1>3, <1>4, <1>6, <1>7, <1>8, <1>10
<1>11. CASE value # One
  <2>1. coefficient_rows' = [crows EXCEPT ![r] = ScaleFrom(from, Reciprocal(value), crows[r])]
    BY <1>3, <1>4, <1>6, <1>8, <1>11
  <2>2. PICK m : m = coefficient_rows'
    OBVIOUS
  <2>3. m = [crows EXCEPT ![r] = ScaleFrom(from, Reciprocal(value), crows[r])]
    BY <2>1, <2>2
  <2>4. value # Zero /\ crows \in [Cols -> Vector]
    BY <1>7, <1>8
  <2>5. Independent(m) <=> Independent(crows)
    <3>1. Divided(m, crows, r, from, value)
      BY <1>9, <2>3 DEF Divided
    <3>2. QED
      BY <2>4, <3>1, ScaleSame
  <2>6. QED
    BY <1>7, <2>2, <2>5
<1>12. QED
  BY <1>10, <1>11

(* A row of zeros is a dependency; unit rows have none.                    *)
LEMMA ZeroRowDepends ==
  ASSUME NEW m \in [Cols -> Vector], NEW r \in Cols, m[r] = ZeroVector
  PROVE  ~Independent(m)
<1>1. Unit(r) \in Vector /\ Unit(r) # ZeroVector
  BY UnitTypes
<1>2. ASSUME NEW j \in Cols
      PROVE  Combination(m, Unit(r))[j] = Zero
  <2>1. PICK p : PartialSums(p, Terms(m, Unit(r), j)) /\ p[K] = Combination(m, Unit(r))[j]
    BY <1>1, Entries
  <2>2. \A n \in Cols : Term(m, Unit(r), j, n) = Zero
    <3>1. SUFFICES ASSUME NEW n \in Cols
                   PROVE  Term(m, Unit(r), j, n) = Zero
      OBVIOUS
    <3>2. PICK e \in Elem : e = m[n][j]
      BY DEF Vector
    <3>3. Times(One, Zero) = Times(Zero, One) /\ Times(Zero, One) = Zero
          /\ Times(Zero, e) = Times(e, Zero) /\ Times(e, Zero) = Zero
      BY FieldAssumption
    <3>4. n = r => m[n][j] = Zero
      BY DEF ZeroVector
    <3>5. QED
      BY <3>2, <3>3, <3>4 DEF Term, Unit
  <2> DEFINE S == {n \in Nat : n \in 0..K => p[n] = Zero}
  <2>3. 0 \in S
    BY <2>1 DEF PartialSums
  <2>4. ASSUME NEW n \in Nat, n \in S
        PROVE  n + 1 \in S
    <3>1. SUFFICES ASSUME n + 1 \in 0..K
                   PROVE  p[n + 1] = Zero
      OBVIOUS
    <3>2. n \in Cols /\ n \in 0..K
      BY <3>1, ColsFacts
    <3>3. p[n + 1] = Plus(Zero, Zero)
      BY <2>1, <2>2, <2>4, <3>2 DEF PartialSums, Terms
    <3>4. QED
      BY <3>3, FieldAssumption
  <2>5. Nat \subseteq S
    <3> HIDE DEF S
    <3>1. QED
      BY <2>3, <2>4, SetInduction
  <2>6. p[K] = Zero
    BY <2>5, ColsFacts
  <2>7. QED
    BY <2>1, <2>6
<1>3. Combination(m, Unit(r)) \in Vector
  BY <1>1, Entries
<1>4. Combination(m, Unit(r)) = ZeroVector
  BY <1>2, <1>3 DEF Vector, ZeroVector
<1>5. QED
  BY <1>1, <1>4, IndependentRows

LEMMA UnitRowsIndependent ==
  ASSUME NEW m \in [Cols -> Vector], \A i \in Cols : m[i] = Unit(i)
  PROVE  Independent(m)
<1>1. ASSUME NEW a \in Vector
      PROVE  Combination(m, a) = a
  <2>1. ASSUME NEW j \in Cols
        PROVE  Combination(m, a)[j] = a[j]
    <3>1. PICK p : PartialSums(p, Terms(m, a, j)) /\ p[K] = Combination(m, a)[j]
      BY Entries
    <3>2. PICK e \in Elem : e = a[j]
      BY DEF Vector
    <3>3. \A n \in Cols : Term(m, a, j, n) = IF n = j THEN e ELSE Zero
      <4>1. SUFFICES ASSUME NEW n \in Cols
                     PROVE  Term(m, a, j, n) = IF n = j THEN e ELSE Zero
        OBVIOUS
      <4>2. a[n] \in Elem
        BY DEF Vector
      <4>3. Times(a[n], Zero) = Zero /\ Times(e, One) = e
        BY <4>2, FieldAssumption
      <4>4. m[n][j] = IF j = n THEN One ELSE Zero
        BY DEF Unit
      <4>5. QED
        BY <3>2, <4>3, <4>4 DEF Term
    <3> DEFINE S == {n \in Nat : n \in 0..K => p[n] = IF j < n THEN e ELSE Zero}
    <3>4. 0 \in S
      BY <3>1, ColsFacts DEF PartialSums
    <3>5. ASSUME NEW n \in Nat, n \in S
          PROVE  n + 1 \in S
      <4>1. SUFFICES ASSUME n + 1 \in 0..K
                     PROVE  p[n + 1] = IF j < n + 1 THEN e ELSE Zero
        OBVIOUS
      <4>2. n \in Cols /\ n \in 0..K /\ j \in Nat
        BY <4>1, ColsFacts
      <4>3. p[n + 1] = Plus(IF j < n THEN e ELSE Zero, IF n = j THEN e ELSE Zero)
        BY <3>1, <3>3, <3>5, <4>2 DEF PartialSums, Terms
      <4>4. Plus(e, Zero) = e /\ Plus(Zero, e) = Plus(e, Zero) /\ Plus(Zero, Zero) = Zero
        BY FieldAssumption
      <4>5. QED
        BY <4>2, <4>3, <4>4
    <3>6. Nat \subseteq S
      <4> HIDE DEF S
      <4>1. QED
        BY <3>4, <3>5, SetInduction
    <3>7. K \in S /\ j < K
      BY <3>6, ColsFacts
    <3>8. QED
      BY <3>1, <3>2, <3>7, ColsFacts
  <2>2. Combination(m, a) \in Vector
    BY Entries
  <2>3. QED
    BY <2>1, <2>2 DEF Vector
<1>2. QED
  BY <1>1, IndependentRows

LEMMA ClearBelowKeeps ==
  ASSUME BatchInv, ClearBelow
  PROVE  Independent(coefficient_rows') <=> Independent(coefficient_rows)
<1>1. /\ dec_pc = "clear" /\ target < K /\ target \in 0..K /\ rank < target
      /\ Eliminate(rank, column) /\ rank \in Cols /\ column \in Cols /\ BatchTypes
  BY DEF ClearBelow, BatchInv, BatchTypes, ClearInv
<1>2. \A i, j \in Cols : i >= rank /\ j < column => coefficient_rows[i][j] = Zero
  BY <1>1 DEF BatchInv, ForwardInv
<1>3. PICK s \in Cols, from \in Cols : s = rank /\ from = column
  BY <1>1
<1>4. target \in Cols /\ target # s /\ Eliminate(s, from)
  BY <1>1, <1>3, ColsFacts
<1>5. \A j \in Cols : j < from => coefficient_rows[s][j] = Zero
  BY <1>2, <1>3, ColsFacts
<1>6. QED
  BY <1>1, <1>4, <1>5, EliminateKeeps

LEMMA ClearAboveKeeps ==
  ASSUME BatchInv, ClearAbove
  PROVE  Independent(coefficient_rows') <=> Independent(coefficient_rows)
<1>1. /\ dec_pc = "back" /\ target < rank /\ target \in 0..K
      /\ Eliminate(rank, rank) /\ rank \in Cols /\ BatchTypes
  BY DEF ClearAbove, BatchInv, BatchTypes
<1>2. Triangular(K)
  BY <1>1 DEF BatchInv, BackInv
<1>3. PICK s \in Cols : s = rank
  BY <1>1
<1>4. target \in Cols /\ target # s /\ Eliminate(s, s)
  BY <1>1, <1>3, ColsFacts
<1>5. \A j \in Cols : j < s => coefficient_rows[s][j] = Zero
  BY <1>2, ColsFacts DEF Triangular
<1>6. QED
  BY <1>1, <1>4, <1>5, EliminateKeeps

(* The columns ran out before the pivots did: the next row is zero.        *)
LEMMA DeficientDepends ==
  ASSUME BatchInv, RankDeficient
  PROVE  ~Independent(coefficient_rows)
<1>1. dec_pc = "pivot" /\ column = K /\ rank \in Cols /\ coefficient_rows \in [Cols -> Vector]
  BY DEF RankDeficient, BatchInv, BatchTypes
<1>2. \A j \in Cols : coefficient_rows[rank][j] = Zero
  BY <1>1, ColsFacts DEF BatchInv, ForwardInv
<1>3. coefficient_rows[rank] = ZeroVector
  BY <1>1, <1>2 DEF Vector, ZeroVector
<1>4. PICK m \in [Cols -> Vector], r \in Cols : m = coefficient_rows /\ r = rank
  BY <1>1
<1>5. ~Independent(m)
  BY <1>3, <1>4, ZeroRowDepends
<1>6. QED
  BY <1>4, <1>5

(* After the last pivot's column is cleared, the rows are the unit vectors. *)
LEMMA LastPivotIndependent ==
  ASSUME BatchInv, PreviousPivot, rank = 0
  PROVE  Independent(coefficient_rows)
<1>1. dec_pc = "back" /\ target = 0 /\ coefficient_rows \in [Cols -> Vector]
  BY DEF PreviousPivot, BatchInv, BatchTypes
<1>2. /\ Triangular(K)
      /\ \A i, j \in Cols : 0 < j /\ i # j => coefficient_rows[i][j] = Zero
  BY <1>1 DEF BatchInv, BackInv
<1>3. ASSUME NEW i \in Cols
      PROVE  coefficient_rows[i] = Unit(i)
  <2>1. \A j \in Cols : coefficient_rows[i][j] = IF j = i THEN One ELSE Zero
    BY <1>2, ColsFacts DEF Triangular
  <2>2. QED
    BY <1>1, <2>1 DEF Unit, Vector
<1>4. PICK m \in [Cols -> Vector] : m = coefficient_rows
  BY <1>1
<1>5. Independent(m)
  BY <1>3, <1>4, UnitRowsIndependent
<1>6. QED
  BY <1>4, <1>5

LEMMA IndependentInit == BatchInit => IndependentInv
BY DEF BatchInit, IndependentInv

LEMMA IndependentStep ==
  ASSUME BatchInv, IndependentInv, [BatchNext]_batchVars
  PROVE  IndependentInv'
<1>1. PICK new, old, gen :
        new = coefficient_rows' /\ old = coefficient_rows /\ gen = fixture
  OBVIOUS
<1>2. /\ dec_pc # "idle" => (Independent(old) <=> Independent(gen))
      /\ decoded = "true" => Independent(gen)
      /\ decoded = "false" => ~Independent(gen)
  BY <1>1 DEF IndependentInv
<1>3. SUFFICES /\ dec_pc' # "idle" => (Independent(new) <=> Independent(fixture'))
               /\ decoded' = "true" => Independent(fixture')
               /\ decoded' = "false" => ~Independent(fixture')
  BY <1>1 DEF IndependentInv
<1>4. dec_pc # "idle" => decoded = "none"
  BY DEF BatchInv, AnswerInv
<1>5. CASE UNCHANGED batchVars
  BY <1>1, <1>2, <1>5 DEF batchVars
<1>6. CASE BeginBatch
  BY <1>1, <1>6 DEF BeginBatch
<1>7. CASE SkipColumn \/ NextPivotColumn
  BY <1>1, <1>2, <1>4, <1>7 DEF SkipColumn, NextPivotColumn
<1>8. CASE TakePivotRow
  <2>1. Independent(new) <=> Independent(old)
    BY <1>1, <1>8, TakePivotKeeps
  <2>2. QED
    BY <1>1, <1>2, <1>4, <1>8, <2>1 DEF TakePivotRow
<1>9. CASE ClearBelow
  <2>1. Independent(new) <=> Independent(old)
    BY <1>1, <1>9, ClearBelowKeeps
  <2>2. QED
    BY <1>1, <1>2, <1>4, <1>9, <2>1 DEF ClearBelow
<1>10. CASE ClearAbove
  <2>1. Independent(new) <=> Independent(old)
    BY <1>1, <1>10, ClearAboveKeeps
  <2>2. QED
    BY <1>1, <1>2, <1>4, <1>10, <2>1 DEF ClearAbove
<1>11. CASE RankDeficient
  <2>1. ~Independent(old) /\ dec_pc = "pivot"
    BY <1>1, <1>11, DeficientDepends DEF RankDeficient
  <2>2. QED
    BY <1>2, <1>1, <1>11, <2>1 DEF RankDeficient, Returns
<1>12. CASE PreviousPivot
  <2>1. dec_pc = "back" /\ rank \in Cols /\ fixture' = fixture
        /\ coefficient_rows' = coefficient_rows
    BY <1>12 DEF PreviousPivot, BatchInv, BatchTypes
  <2>2. CASE rank > 0
    BY <1>1, <1>2, <1>4, <1>12, <2>1, <2>2 DEF PreviousPivot
  <2>3. CASE ~(rank > 0)
    <3>1. rank = 0
      BY <2>1, <2>3, ColsFacts
    <3>2. Independent(old)
      BY <1>1, <1>12, <3>1, LastPivotIndependent
    <3>3. QED
      BY <1>1, <1>2, <1>12, <2>1, <2>3, <3>2 DEF PreviousPivot, Returns
  <2>4. QED
    BY <2>2, <2>3
<1>13. QED
  BY <1>5, <1>6, <1>7, <1>8, <1>9, <1>10, <1>11, <1>12 DEF BatchNext

LEMMA BatchInvariant == BatchSpec => [](BatchInv /\ IndependentInv)
<1>1. BatchInit => BatchInv /\ IndependentInv
  BY BatchInitInv, IndependentInit
<1>2. BatchInv /\ IndependentInv /\ [BatchNext]_batchVars => BatchInv' /\ IndependentInv'
  BY BatchStepInv, IndependentStep
<1>3. QED
  BY <1>1, <1>2, PTL DEF BatchSpec

(***************************************************************************)
(* decode returns true exactly for independent packets, and then payload   *)
(* row i is source symbol i. The row operations keep the rows independent  *)
(* if they were and dependent if they were; decode fails on a row of       *)
(* zeros, and succeeds with unit rows.                                     *)
(***************************************************************************)
THEOREM BatchDecodeIsExact == BatchSpec => []BatchIsExact
<1>1. BatchInv /\ IndependentInv => BatchIsExact
  BY DEF BatchInv, AnswerInv, IndependentInv, BatchIsExact
<1>2. QED
  BY <1>1, BatchInvariant, PTL
=============================================================================
