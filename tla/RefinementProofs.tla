-------------------------- MODULE RefinementProofs --------------------------
(***************************************************************************)
(* The decoder implements DecoderSpec, for every generation size, symbol   *)
(* size, field and source. No sum over rows is needed: the rows are tied   *)
(* to the span of the received packets by what their pivots do to it.      *)
(* Cleared at the pivots, every vector can be, by adding one of the span,  *)
(* and a vector of the span that is cleared is zero. Both survive the      *)
(* insertion of a row, and together they are all that elimination needs.   *)
(***************************************************************************)
EXTENDS DecoderRefinement, DecoderProofs

(* The specification's notions, which are instances, are the decoder's.    *)
Extend(S, v) == {Axpy(a, v, u) : a \in Elem, u \in S}

LEMMA SameNotions ==
  /\ \A S, v : Promise!Extend(S, v) = Extend(S, v)
  /\ Promise!Vector = Vector
  /\ Promise!ZeroVector = ZeroVector
  /\ Promise!Source = Source
BY DEF Promise!Extend, Promise!Axpy, Promise!AxpyFrom, Promise!Vector, Promise!Cols,
       Promise!ZeroVector, Promise!Source, Promise!Unit,
       Extend, Axpy, AxpyFrom, Vector, Cols, ZeroVector, Source, Unit

Space(S) ==
  /\ S \subseteq Vector
  /\ ZeroVector \in S
  /\ \A a \in Elem, u, v \in S : Axpy(a, v, u) \in S

LEMMA AxpyAt ==
  ASSUME NEW a \in Elem, NEW x \in Vector, NEW y \in Vector
  PROVE  /\ Axpy(a, x, y) \in Vector
         /\ \A j \in Cols : /\ Axpy(a, x, y)[j] = Plus(y[j], Times(a, x[j]))
                            /\ x[j] \in Elem /\ y[j] \in Elem
<1>1. \A j \in Cols : j >= 0
  BY SizeAssumption DEF Cols
<1>2. QED
  BY <1>1, AxpyFromType DEF Axpy, Vector

LEMMA SameVector ==
  ASSUME NEW x \in Vector, NEW y \in Vector, \A j \in Cols : x[j] = y[j]
  PROVE  x = y
BY DEF Vector

(* (u + a v) + b (s + c v) = (u + b s) + (a + b c) v *)
LEMMA Regroup ==
  ASSUME NEW a \in Elem, NEW b \in Elem, NEW c \in Elem,
         NEW u \in Elem, NEW s \in Elem, NEW v \in Elem
  PROVE  Plus(Plus(u, Times(a, v)), Times(b, Plus(s, Times(c, v)))) =
           Plus(Plus(u, Times(b, s)), Times(Plus(a, Times(b, c)), v))
<1> DEFINE av == Times(a, v)
           bs == Times(b, s)
           bc == Times(b, c)
           bcv == Times(bc, v)
<1>1. av \in Elem /\ bs \in Elem /\ bc \in Elem /\ bcv \in Elem
  BY FieldAssumption
<1>2. Times(c, v) \in Elem /\ Times(b, Plus(s, Times(c, v))) = Plus(bs, bcv)
  BY FieldAssumption
<1>3. Times(Plus(a, bc), v) = Plus(av, bcv)
  <2>1. Times(Plus(a, bc), v) = Times(v, Plus(a, bc)) /\ Plus(a, bc) \in Elem
    BY <1>1, FieldAssumption
  <2>2. Times(v, Plus(a, bc)) = Plus(Times(v, a), Times(v, bc))
    BY <1>1, FieldAssumption
  <2>3. Times(v, a) = av /\ Times(v, bc) = bcv
    BY <1>1, FieldAssumption
  <2>4. QED
    BY <2>1, <2>2, <2>3
<1> HIDE DEF av, bs, bc, bcv
<1>4. Plus(Plus(u, av), Plus(bs, bcv)) = Plus(Plus(u, bs), Plus(av, bcv))
  <2>1. /\ Plus(Plus(u, av), Plus(bs, bcv)) = Plus(u, Plus(av, Plus(bs, bcv)))
        /\ Plus(Plus(u, bs), Plus(av, bcv)) = Plus(u, Plus(bs, Plus(av, bcv)))
    BY <1>1, FieldAssumption
  <2>2. /\ Plus(av, Plus(bs, bcv)) = Plus(Plus(av, bs), bcv)
        /\ Plus(bs, Plus(av, bcv)) = Plus(Plus(bs, av), bcv)
        /\ Plus(av, bs) = Plus(bs, av)
    BY <1>1, FieldAssumption
  <2>3. QED
    BY <2>1, <2>2
<1>5. QED
  BY <1>2, <1>3, <1>4 DEF av, bs, bc

LEMMA RegroupVectors ==
  ASSUME NEW a \in Elem, NEW b \in Elem, NEW c \in Elem,
         NEW u \in Vector, NEW s \in Vector, NEW v \in Vector
  PROVE  /\ Plus(a, Times(b, c)) \in Elem
         /\ Axpy(b, Axpy(c, v, s), Axpy(a, v, u)) =
              Axpy(Plus(a, Times(b, c)), v, Axpy(b, s, u))
<1> DEFINE d == Plus(a, Times(b, c))
           left == Axpy(b, Axpy(c, v, s), Axpy(a, v, u))
           right == Axpy(d, v, Axpy(b, s, u))
<1>1. d \in Elem
  BY FieldAssumption
<1> HIDE DEF d
<1>2. Axpy(c, v, s) \in Vector /\ Axpy(a, v, u) \in Vector /\ Axpy(b, s, u) \in Vector
  BY AxpyAt
<1>3. left \in Vector /\ right \in Vector
  BY <1>1, <1>2, AxpyAt
<1>4. ASSUME NEW j \in Cols
      PROVE  left[j] = right[j]
  <2>1. /\ u[j] \in Elem /\ s[j] \in Elem /\ v[j] \in Elem
        /\ Axpy(c, v, s)[j] = Plus(s[j], Times(c, v[j]))
        /\ Axpy(a, v, u)[j] = Plus(u[j], Times(a, v[j]))
        /\ Axpy(b, s, u)[j] = Plus(u[j], Times(b, s[j]))
    BY AxpyAt
  <2>2. /\ left[j] = Plus(Axpy(a, v, u)[j], Times(b, Axpy(c, v, s)[j]))
        /\ right[j] = Plus(Axpy(b, s, u)[j], Times(d, v[j]))
    BY <1>1, <1>2, AxpyAt
  <2>3. Plus(Plus(u[j], Times(a, v[j])), Times(b, Plus(s[j], Times(c, v[j])))) =
          Plus(Plus(u[j], Times(b, s[j])), Times(d, v[j]))
    <3>1. \A e, f, g \in Elem :
            Plus(Plus(e, Times(a, g)), Times(b, Plus(f, Times(c, g)))) =
              Plus(Plus(e, Times(b, f)), Times(d, g))
      BY Regroup DEF d
    <3>2. QED
      BY <2>1, <3>1
  <2> HIDE DEF left, right
  <2>4. QED
    BY <2>1, <2>2, <2>3
<1> HIDE DEF left, right
<1>5. left = right
  BY <1>3, <1>4, SameVector
<1>6. QED
  BY <1>1, <1>5 DEF left, right, d

LEMMA FromZero ==
  ASSUME NEW x \in Vector
  PROVE  Axpy(One, x, ZeroVector) = x /\ Axpy(One, x, x) = ZeroVector
<1>1. Axpy(One, x, ZeroVector) \in Vector /\ Axpy(One, x, x) \in Vector /\ ZeroVector \in Vector
  BY AxpyAt, ZeroTypes, FieldAssumption
<1>2. ASSUME NEW e \in Elem
      PROVE  Plus(Zero, Times(One, e)) = e /\ Plus(e, Times(One, e)) = Zero
  <2>1. Times(One, e) = e /\ Plus(Zero, e) = e
    BY FieldAssumption
  <2>2. QED
    BY <2>1, FieldAssumption
<1>3. \A j \in Cols : /\ ZeroVector[j] = Zero /\ x[j] \in Elem
                      /\ Axpy(One, x, ZeroVector)[j] = Plus(ZeroVector[j], Times(One, x[j]))
                      /\ Axpy(One, x, x)[j] = Plus(x[j], Times(One, x[j]))
  BY AxpyAt, ZeroTypes, FieldAssumption DEF ZeroVector
<1>4. QED
  BY <1>1, <1>2, <1>3, SameVector

(***************************************************************************)
(* Extending a space by a vector gives a space that holds both, and it     *)
(* does not matter by which vector of the same coset of which multiple.    *)
(***************************************************************************)
LEMMA ExtendIsSpace ==
  ASSUME NEW S, Space(S), NEW v \in Vector
  PROVE  /\ Space(Extend(S, v))
         /\ S \subseteq Extend(S, v)
         /\ v \in Extend(S, v)
<1> DEFINE E == Extend(S, v)
<1>1. S \subseteq Vector
  BY DEF Space
<1>2. E \subseteq Vector
  BY <1>1, AxpyAt DEF Extend
<1>3. S \subseteq E
  <2>1. ASSUME NEW u \in S
        PROVE  u \in E
    <3>1. Axpy(Zero, v, u) = u
      BY <1>1, AxpyZero
    <3>2. QED
      BY <3>1, FieldAssumption DEF Extend
  <2>2. QED
    BY <2>1
<1>4. v \in E
  <2>1. Axpy(One, v, ZeroVector) = v /\ ZeroVector \in S
    BY FromZero DEF Space
  <2>2. QED
    BY <2>1, FieldAssumption DEF Extend
<1>5. ASSUME NEW b \in Elem, NEW x \in E, NEW y \in E
      PROVE  Axpy(b, y, x) \in E
  <2>1. PICK a \in Elem, u \in S : x = Axpy(a, v, u)
    BY DEF Extend
  <2>2. PICK c \in Elem, s \in S : y = Axpy(c, v, s)
    BY DEF Extend
  <2>3. Axpy(b, s, u) \in S
    BY DEF Space
  <2>4. /\ Plus(a, Times(b, c)) \in Elem
        /\ Axpy(b, y, x) = Axpy(Plus(a, Times(b, c)), v, Axpy(b, s, u))
    BY <1>1, <2>1, <2>2, RegroupVectors
  <2>5. QED
    BY <2>3, <2>4 DEF Extend
<1>6. QED
  BY <1>2, <1>3, <1>4, <1>5, ZeroTypes DEF Space

(* Adding a multiple twice adds nothing. *)
LEMMA AxpyTwice ==
  ASSUME NEW c \in Elem, NEW x \in Vector, NEW y \in Vector
  PROVE  Axpy(c, x, Axpy(c, x, y)) = y
<1>1. Axpy(c, x, y) \in Vector /\ Axpy(c, x, Axpy(c, x, y)) \in Vector
  BY AxpyAt
<1>2. ASSUME NEW f \in Elem, NEW e \in Elem
      PROVE  Plus(Plus(f, Times(c, e)), Times(c, e)) = f
  <2>1. Times(c, e) \in Elem
    BY FieldAssumption
  <2>2. QED
    BY <2>1, FieldAssumption
<1>3. \A j \in Cols :
        /\ x[j] \in Elem /\ y[j] \in Elem
        /\ Axpy(c, x, Axpy(c, x, y))[j] = Plus(Plus(y[j], Times(c, x[j])), Times(c, x[j]))
  BY <1>1, AxpyAt
<1>4. QED
  BY <1>1, <1>2, <1>3, SameVector

LEMMA AxpyCommute ==
  ASSUME NEW a \in Elem, NEW b \in Elem,
         NEW x \in Vector, NEW y \in Vector, NEW z \in Vector
  PROVE  Axpy(a, x, Axpy(b, y, z)) = Axpy(b, y, Axpy(a, x, z))
<1>1. /\ Axpy(b, y, z) \in Vector /\ Axpy(a, x, Axpy(b, y, z)) \in Vector
      /\ Axpy(a, x, z) \in Vector /\ Axpy(b, y, Axpy(a, x, z)) \in Vector
  BY AxpyAt
<1>2. ASSUME NEW e \in Elem, NEW f \in Elem, NEW g \in Elem
      PROVE  Plus(Plus(g, Times(b, f)), Times(a, e)) = Plus(Plus(g, Times(a, e)), Times(b, f))
  <2>1. Times(b, f) \in Elem /\ Times(a, e) \in Elem
    BY FieldAssumption
  <2>2. QED
    BY <2>1, FieldAssumption
<1>3. \A j \in Cols :
        /\ x[j] \in Elem /\ y[j] \in Elem /\ z[j] \in Elem
        /\ Axpy(a, x, Axpy(b, y, z))[j] = Plus(Plus(z[j], Times(b, y[j])), Times(a, x[j]))
        /\ Axpy(b, y, Axpy(a, x, z))[j] = Plus(Plus(z[j], Times(a, x[j])), Times(b, y[j]))
  BY <1>1, AxpyAt
<1>4. QED
  BY <1>1, <1>2, <1>3, SameVector

LEMMA NoZeroDivisors ==
  ASSUME NEW a \in Elem \ {Zero}, NEW b \in Elem \ {Zero}
  PROVE  Times(a, b) \in Elem \ {Zero}
<1>1. Times(a, b) \in Elem /\ Reciprocal(a) \in Elem /\ Times(Reciprocal(a), a) = One
  BY FieldAssumption
<1>2. Times(Reciprocal(a), Times(a, b)) = Times(One, b) /\ Times(One, b) = b
  BY <1>1, FieldAssumption
<1>3. Times(Reciprocal(a), Zero) = Zero
  BY <1>1, FieldAssumption
<1>4. QED
  BY <1>1, <1>2, <1>3

LEMMA ExtendInside ==
  ASSUME NEW S, Space(S), NEW x \in Vector, NEW y \in Vector, NEW c \in Elem,
         Axpy(c, x, y) \in S
  PROVE  Extend(S, y) \subseteq Extend(S, x)
<1>1. S \subseteq Extend(S, x) /\ Space(Extend(S, x)) /\ x \in Extend(S, x)
  BY ExtendIsSpace
<1> DEFINE E == Extend(S, x)
<1> HIDE DEF E
<1>2. Axpy(c, x, Axpy(c, x, y)) = y
  BY AxpyTwice
<1>3. y \in E
  BY <1>1, <1>2 DEF Space, E
<1>4. ASSUME NEW z \in Extend(S, y)
      PROVE  z \in E
  <2>1. PICK b \in Elem, u \in S : z = Axpy(b, y, u)
    BY DEF Extend
  <2>2. u \in E /\ Space(E)
    BY <1>1 DEF E
  <2>3. QED
    BY <1>3, <2>1, <2>2 DEF Space
<1>5. QED
  BY <1>4 DEF E

(* Multiples stay in a space. *)
LEMMA MultipleIn ==
  ASSUME NEW S, Space(S), NEW b \in Elem, NEW u \in S
  PROVE  Scale(b, u) \in S /\ Scale(b, u) = Axpy(b, u, ZeroVector)
<1>1. u \in Vector /\ ZeroVector \in S /\ ZeroVector \in Vector
  BY DEF Space
<1>2. Axpy(b, u, ZeroVector) \in S
  BY <1>1 DEF Space
<1>3. Scale(b, u) \in Vector /\ \A j \in Cols : Scale(b, u)[j] = Times(b, u[j])
  <2>1. \A j \in Cols : j >= 0
    BY SizeAssumption DEF Cols
  <2>2. QED
    BY <1>1, <2>1, ScaleFromType DEF Scale
<1>4. \A j \in Cols : Plus(Zero, Times(b, u[j])) = Times(b, u[j])
  <2>1. ASSUME NEW e \in Elem PROVE Plus(Zero, Times(b, e)) = Times(b, e)
    <3>1. Times(b, e) \in Elem
      BY FieldAssumption
    <3>2. QED
      BY <3>1, FieldAssumption
  <2>2. QED
    BY <1>1, <2>1, AxpyAt
<1>5. Axpy(b, u, ZeroVector) = Scale(b, u)
  <2>1. \A j \in Cols : Axpy(b, u, ZeroVector)[j] = Plus(Zero, Times(b, u[j]))
    BY <1>1, AxpyAt DEF ZeroVector
  <2>2. QED
    BY <1>1, <1>3, <1>4, <2>1, AxpyAt, SameVector
<1>6. QED
  BY <1>2, <1>5

(* y = a x + s, so x = (1/a) y + (1/a) s. *)
LEMMA ScaledCoset ==
  ASSUME NEW a \in Elem, NEW b \in Elem, NEW x \in Vector, NEW y \in Vector
  PROVE  /\ Times(b, a) \in Elem
         /\ Axpy(Times(b, a), x, Scale(b, y)) = Scale(b, Axpy(a, x, y))
<1>1. \A j \in Cols : j >= 0
  BY SizeAssumption DEF Cols
<1>2. \A z \in Vector : Scale(b, z) \in Vector /\ \A j \in Cols : Scale(b, z)[j] = Times(b, z[j])
  BY <1>1, ScaleFromType DEF Scale
<1>3. Times(b, a) \in Elem
  BY FieldAssumption
<1>4. ASSUME NEW e \in Elem, NEW f \in Elem
      PROVE  Plus(Times(b, f), Times(Times(b, a), e)) = Times(b, Plus(f, Times(a, e)))
  BY FieldAssumption
<1>5. \A j \in Cols :
        /\ x[j] \in Elem /\ y[j] \in Elem
        /\ Axpy(Times(b, a), x, Scale(b, y))[j] = Plus(Times(b, y[j]), Times(Times(b, a), x[j]))
        /\ Scale(b, Axpy(a, x, y))[j] = Times(b, Plus(y[j], Times(a, x[j])))
  BY <1>2, <1>3, AxpyAt
<1>6. Axpy(Times(b, a), x, Scale(b, y)) \in Vector /\ Scale(b, Axpy(a, x, y)) \in Vector
  BY <1>2, <1>3, AxpyAt
<1>7. QED
  BY <1>3, <1>4, <1>5, <1>6, SameVector

LEMMA SwappedCoset ==
  ASSUME NEW S, Space(S), NEW a \in Elem \ {Zero}, NEW x \in Vector, NEW y \in Vector,
         Axpy(a, x, y) \in S
  PROVE  Reciprocal(a) \in Elem /\ Axpy(Reciprocal(a), y, x) \in S
<1> DEFINE b == Reciprocal(a)
<1>1. b \in Elem /\ Times(b, a) = One
  BY FieldAssumption
<1> HIDE DEF b
<1>2. Scale(b, Axpy(a, x, y)) \in S
  BY <1>1, MultipleIn
<1>3. Axpy(One, x, Scale(b, y)) \in S
  BY <1>1, <1>2, ScaledCoset
<1>4. Axpy(One, x, Scale(b, y)) = Axpy(b, y, x)
  <2>1. \A j \in Cols : j >= 0
    BY SizeAssumption DEF Cols
  <2>2. Scale(b, y) \in Vector /\ \A j \in Cols : Scale(b, y)[j] = Times(b, y[j])
    BY <1>1, <2>1, ScaleFromType DEF Scale
  <2>3. ASSUME NEW e \in Elem, NEW f \in Elem
        PROVE  Plus(Times(b, f), Times(One, e)) = Plus(e, Times(b, f))
    <3>1. Times(b, f) \in Elem /\ Times(One, e) = e
      BY <1>1, FieldAssumption
    <3>2. QED
      BY <3>1, FieldAssumption
  <2> One \in Elem
    BY FieldAssumption
  <2>4. \A j \in Cols :
          /\ x[j] \in Elem /\ y[j] \in Elem
          /\ Axpy(One, x, Scale(b, y))[j] = Plus(Times(b, y[j]), Times(One, x[j]))
          /\ Axpy(b, y, x)[j] = Plus(x[j], Times(b, y[j]))
    BY <1>1, <2>2, AxpyAt
  <2>5. Axpy(One, x, Scale(b, y)) \in Vector /\ Axpy(b, y, x) \in Vector
    BY <1>1, <2>2, AxpyAt
  <2>6. QED
    BY <2>3, <2>4, <2>5, SameVector
<1>5. QED
  BY <1>1, <1>3, <1>4 DEF b

LEMMA ExtendSame ==
  ASSUME NEW S, Space(S), NEW a \in Elem \ {Zero}, NEW x \in Vector, NEW y \in Vector,
         Axpy(a, x, y) \in S
  PROVE  Extend(S, x) = Extend(S, y)
<1>1. Extend(S, y) \subseteq Extend(S, x)
  BY ExtendInside
<1>2. Extend(S, x) \subseteq Extend(S, y)
  BY SwappedCoset, ExtendInside
<1>3. QED
  BY <1>1, <1>2

-----------------------------------------------------------------------------
(* How the rows represent the span of what was received. During receive,   *)
(* what is left of the packet differs from a multiple of it by the span.   *)
Cleared(u) == \A i \in Rows : u[pivot_col[i]] = Zero

RowsRepresentSpan ==
  /\ Space(span)
  /\ \A i \in Rows : coefficient_rows[i] \in span
  /\ \A u \in span : Cleared(u) => u = ZeroVector
  /\ \A v \in Vector : \E s \in span : Cleared(Axpy(One, s, v))

PacketInv ==
  /\ ret = "busy" => \E a \in Elem \ {Zero} : Axpy(a, packet, coefficients) \in span
  /\ ret # "busy" => packet = ZeroVector

SpanInv == RowsRepresentSpan /\ PacketInv

LEMMA InitSpanInv == HInit => SpanInv
<1> SUFFICES ASSUME HInit
             PROVE  SpanInv
  OBVIOUS
<1>1. /\ span = {ZeroVector} /\ Rows = {} /\ ret # "busy" /\ packet = ZeroVector
  BY DEF HInit, Init, Rows
<1>2. ZeroVector \in Vector /\ \A a \in Elem : Axpy(a, ZeroVector, ZeroVector) = ZeroVector
  <2>1. ASSUME NEW a \in Elem
        PROVE  Axpy(a, ZeroVector, ZeroVector) = ZeroVector
    <3>1. Plus(Zero, Times(a, Zero)) = Zero
      BY FieldAssumption
    <3>2. /\ Axpy(a, ZeroVector, ZeroVector) \in Vector
          /\ \A j \in Cols : Axpy(a, ZeroVector, ZeroVector)[j] = ZeroVector[j]
      BY <3>1, AxpyAt, ZeroTypes DEF ZeroVector
    <3>3. QED
      BY <3>2, SameVector, ZeroTypes
  <2>2. QED
    BY <2>1, ZeroTypes
<1>3. Space(span)
  BY <1>1, <1>2 DEF Space
<1>4. QED
  BY <1>1, <1>3 DEF SpanInv, RowsRepresentSpan, PacketInv, Cleared

(* A step that leaves span, rank and pivots, and whose rows stay in span.  *)
LEMMA SpanKept ==
  ASSUME RowsRepresentSpan, UNCHANGED <<span, rank, pivot_col>>,
         \A i \in Rows : coefficient_rows'[i] \in span
  PROVE  RowsRepresentSpan'
BY DEF RowsRepresentSpan, Rows, Cleared

LEMMA Reduced ==
  ASSUME IInv, SpanInv, pc \in {"reduce", "payload", "insert"},
         \A i \in Rows : coefficients[pivot_col[i]] = Zero
  PROVE  packet \in span <=> coefficients = ZeroVector
<1>1. /\ Space(span) /\ packet \in Vector /\ coefficients \in Vector
      /\ \A u \in span : Cleared(u) => u = ZeroVector
  BY DEF IInv, TypeOK, SpanInv, RowsRepresentSpan
<1>2. PICK a \in Elem \ {Zero} : Axpy(a, packet, coefficients) \in span
  BY DEF IInv, ControlInv, SpanInv, PacketInv
<1>3. ASSUME packet \in span
      PROVE  coefficients = ZeroVector
  <2>1. Axpy(a, packet, Axpy(a, packet, coefficients)) \in span
    BY <1>1, <1>2, <1>3 DEF Space
  <2>2. Axpy(a, packet, Axpy(a, packet, coefficients)) = coefficients
    BY <1>1, AxpyTwice
  <2>3. coefficients \in span /\ Cleared(coefficients)
    BY <2>1, <2>2 DEF Cleared
  <2>4. QED
    BY <1>1, <2>3
<1>4. ASSUME coefficients = ZeroVector
      PROVE  packet \in span
  <2>1. Reciprocal(a) \in Elem /\ Axpy(Reciprocal(a), ZeroVector, packet) \in span
    BY <1>1, <1>2, <1>4, SwappedCoset
  <2>2. Axpy(Reciprocal(a), ZeroVector, packet) = packet
    <3>1. ASSUME NEW b \in Elem, NEW e \in Elem
          PROVE  Plus(e, Times(b, Zero)) = e
      BY FieldAssumption
    <3>2. ASSUME NEW b \in Elem
          PROVE  Axpy(b, ZeroVector, packet) = packet
      <4>1. \A j \in Cols : ZeroVector[j] = Zero
        BY DEF ZeroVector
      <4>2. QED
        BY <1>1, <3>1, <4>1, AxpyAt, SameVector, ZeroTypes
    <3>3. QED
      BY <2>1, <3>2
  <2>3. QED
    BY <2>1, <2>2
<1>5. QED
  BY <1>3, <1>4

LEMMA InsertSpan ==
  ASSUME IInv, SpanInv, Insert, History
  PROVE  /\ packet \notin span
         /\ span' = Extend(span, packet)
         /\ RowsRepresentSpan'
<1> DEFINE pivot == PivotOf(coefficients)
           at    == InsertAt(pivot)
           c     == coefficients
<1>1. /\ pc = "insert" /\ rank \in Nat /\ rank' = rank + 1 /\ rank < K /\ K \in Nat
      /\ ret = "busy" /\ ret' = "innovative"
      /\ packet \in Vector /\ c \in Vector /\ c # ZeroVector
      /\ \A i \in Rows : c[pivot_col[i]] = Zero
      /\ c[pivot] = One
  BY SizeAssumption DEF Insert, Return, IInv, TypeOK, ControlInv, RemainderInv
<1>2. /\ Space(span) /\ \A i \in Rows : coefficient_rows[i] \in span
      /\ \A u \in span : Cleared(u) => u = ZeroVector
      /\ \A v \in Vector : \E s \in span : Cleared(Axpy(One, s, v))
  BY DEF SpanInv, RowsRepresentSpan
<1>3. packet \notin span
  BY <1>1, Reduced
<1>4. span' = Extend(span, packet)
  BY <1>1, <1>3, SameNotions DEF History, Answered
<1>5. span' = Extend(span, c)
  <2>1. PICK a \in Elem \ {Zero} : Axpy(a, packet, c) \in span
    BY <1>1 DEF SpanInv, PacketInv
  <2>2. QED
    BY <1>1, <1>2, <1>4, <2>1, ExtendSame
<1>6. pivot \in Cols /\ \A i \in Rows : pivot_col[i] \in Cols /\ pivot_col[i] # pivot
  <2>1. pivot \in Cols
    BY <1>1, PivotExists
  <2>2. Zero # One
    BY FieldAssumption
  <2>3. QED
    BY <1>1, <2>1, <2>2 DEF IInv, PivotInv
<1>7. at \in 0..rank
  BY <1>6, InsertionPoint DEF IInv
<1>8. /\ \A i \in Rows : \E i2 \in Rows' : pivot_col'[i2] = pivot_col[i]
      /\ \E i2 \in Rows' : pivot_col'[i2] = pivot
      /\ \A i2 \in Rows' : \/ pivot_col'[i2] = pivot
                           \/ \E i \in Rows : pivot_col'[i2] = pivot_col[i]
      /\ \A i2 \in Rows' : \/ coefficient_rows'[i2] = c
                           \/ \E i \in Rows : coefficient_rows'[i2] = coefficient_rows[i]
  <2>1. /\ Rows' = 0..rank /\ Rows = 0..(rank - 1)
        /\ \A i \in 0..rank : i \in Cols
    BY <1>1 DEF Rows, Cols
  <2>2. \A i \in 0..rank :
          /\ pivot_col'[i] = IF i < at THEN pivot_col[i]
                             ELSE IF i = at THEN pivot ELSE pivot_col[i - 1]
          /\ coefficient_rows'[i] = IF i < at THEN coefficient_rows[i]
                                    ELSE IF i = at THEN c ELSE coefficient_rows[i - 1]
    BY <1>1, <2>1 DEF Insert, Inserted
  <2> HIDE DEF at, pivot, c
  <2>3. ASSUME NEW i \in Rows
        PROVE  \E i2 \in Rows' : pivot_col'[i2] = pivot_col[i]
    <3>1. CASE i < at
      BY <1>1, <1>7, <2>1, <2>2, <3>1
    <3>2. CASE i >= at
      <4>1. i + 1 \in 0..rank /\ ~(i + 1 < at) /\ i + 1 # at /\ (i + 1) - 1 = i
        BY <1>1, <1>7, <2>1, <3>2
      <4>2. QED
        BY <2>1, <2>2, <4>1
    <3>3. QED
      BY <1>1, <1>7, <2>1, <3>1, <3>2
  <2>4. \E i2 \in Rows' : pivot_col'[i2] = pivot
    BY <1>1, <1>7, <2>1, <2>2
  <2>5. ASSUME NEW i2 \in Rows'
        PROVE  /\ \/ pivot_col'[i2] = pivot
                  \/ \E i \in Rows : pivot_col'[i2] = pivot_col[i]
               /\ \/ coefficient_rows'[i2] = c
                  \/ \E i \in Rows : coefficient_rows'[i2] = coefficient_rows[i]
    <3>1. i2 < at => i2 \in Rows
      BY <1>1, <1>7, <2>1
    <3>2. i2 > at => i2 - 1 \in Rows
      BY <1>1, <1>7, <2>1
    <3>3. i2 < at \/ i2 = at \/ i2 > at
      BY <1>1, <1>7, <2>1
    <3>4. QED
      BY <1>1, <1>7, <2>1, <2>2, <3>1, <3>2, <3>3
  <2>6. QED
    BY <2>3, <2>4, <2>5
<1> HIDE DEF pivot, at, c
<1>9. \A u : Cleared(u)' <=> Cleared(u) /\ u[pivot] = Zero
  BY <1>8 DEF Cleared
<1>10. Space(span') /\ span \subseteq span' /\ c \in span'
  BY <1>1, <1>2, <1>5, ExtendIsSpace
<1>11. \A i \in Rows' : coefficient_rows'[i] \in span'
  BY <1>2, <1>8, <1>10
<1>12. ASSUME NEW w \in span', Cleared(w)'
       PROVE  w = ZeroVector
  <2>1. PICK b \in Elem, u \in span : w = Axpy(b, c, u)
    BY <1>5 DEF Extend
  <2>2. u \in Vector
    BY <1>2 DEF Space
  <2>3. ASSUME NEW e \in Elem
        PROVE  /\ Plus(e, Times(b, Zero)) = e
               /\ Plus(Zero, Times(b, One)) = b
    <3>1. Plus(Zero, b) = b
      BY FieldAssumption
    <3>2. QED
      BY <3>1, FieldAssumption
  <2>4. \A j \in Cols : u[j] \in Elem /\ w[j] = Plus(u[j], Times(b, c[j]))
    BY <1>1, <2>1, <2>2, AxpyAt
  <2>5. Cleared(u)
    <3>1. ASSUME NEW i \in Rows
          PROVE  u[pivot_col[i]] = Zero
      <4>1. w[pivot_col[i]] = Zero
        BY <1>9, <1>12 DEF Cleared
      <4>2. c[pivot_col[i]] = Zero
        BY <1>1 DEF c
      <4>3. QED
        BY <1>6, <2>3, <2>4, <4>1, <4>2
    <3>2. QED
      BY <3>1 DEF Cleared
  <2>6. u = ZeroVector
    BY <1>2, <2>5
  <2>7. b = Zero
    <3>1. w[pivot] = Zero /\ u[pivot] = Zero /\ w[pivot] = Plus(u[pivot], Times(b, c[pivot]))
      BY <1>6, <1>9, <1>12, <2>4, <2>6 DEF ZeroVector
    <3>2. QED
      BY <1>1, <2>3, <3>1, FieldAssumption
  <2>8. QED
    BY <1>1, <2>1, <2>2, <2>6, <2>7, AxpyZero
<1>13. ASSUME NEW v \in Vector
       PROVE  \E s \in span' : Cleared(Axpy(One, s, v))'
  <2>1. PICK s \in span : Cleared(Axpy(One, s, v))
    BY <1>2
  <2> DEFINE w == Axpy(One, s, v)
             b == w[pivot]
             s2 == Axpy(b, c, s)
  <2>2. s \in Vector /\ One \in Elem
    BY <1>2, FieldAssumption DEF Space
  <2>3. w \in Vector /\ b \in Elem
    BY <1>6, <2>2, AxpyAt
  <2>4. s2 \in span'
    BY <1>10, <2>3 DEF Space
  <2>5. Axpy(One, s2, v) = Axpy(b, c, w)
    <3>1. ASSUME NEW e \in Elem, NEW f \in Elem, NEW g \in Elem
          PROVE  Plus(g, Times(One, Plus(f, Times(b, e)))) = Plus(Plus(g, Times(One, f)), Times(b, e))
      <4>1. Times(b, e) \in Elem
        BY <2>3, FieldAssumption
      <4>2. /\ Times(One, Plus(f, Times(b, e))) = Plus(f, Times(b, e))
            /\ Times(One, f) = f
        BY <4>1, FieldAssumption
      <4>3. QED
        BY <4>1, <4>2, FieldAssumption
    <3> HIDE DEF b
    <3>2. s2 \in Vector
      BY <1>1, <2>2, <2>3, AxpyAt
    <3>3. \A j \in Cols : /\ c[j] \in Elem /\ s[j] \in Elem /\ v[j] \in Elem
                          /\ s2[j] = Plus(s[j], Times(b, c[j]))
                          /\ w[j] = Plus(v[j], Times(One, s[j]))
      <4>1. \A j \in Cols : /\ c[j] \in Elem /\ s[j] \in Elem
                            /\ Axpy(b, c, s)[j] = Plus(s[j], Times(b, c[j]))
        BY <1>1, <2>2, <2>3, AxpyAt
      <4>2. \A j \in Cols : v[j] \in Elem /\ Axpy(One, s, v)[j] = Plus(v[j], Times(One, s[j]))
        BY <2>2, AxpyAt
      <4>3. QED
        BY <4>1, <4>2
    <3> HIDE DEF s2, w
    <3>4. /\ Axpy(One, s2, v) \in Vector /\ Axpy(b, c, w) \in Vector
          /\ \A j \in Cols : /\ Axpy(One, s2, v)[j] = Plus(v[j], Times(One, s2[j]))
                             /\ Axpy(b, c, w)[j] = Plus(w[j], Times(b, c[j]))
      BY <1>1, <2>2, <2>3, <3>2, AxpyAt
    <3>5. \A j \in Cols : Axpy(One, s2, v)[j] = Axpy(b, c, w)[j]
      BY <3>1, <3>3, <3>4
    <3>6. QED
      BY <3>4, <3>5, SameVector
  <2> HIDE DEF w, b, s2
  <2>6. \A j \in Cols : Axpy(b, c, w)[j] = Plus(w[j], Times(b, c[j]))
    BY <1>1, <2>3, AxpyAt
  <2>7. /\ Times(b, One) = b /\ Plus(b, b) = Zero
        /\ Plus(Zero, Times(b, Zero)) = Zero
    BY <2>3, FieldAssumption
  <2>8. Axpy(b, c, w)[pivot] = Zero
    BY <1>1, <1>6, <2>6, <2>7 DEF b
  <2>9. ASSUME NEW i \in Rows
        PROVE  Axpy(b, c, w)[pivot_col[i]] = Zero
    <3>1. w[pivot_col[i]] = Zero /\ c[pivot_col[i]] = Zero
      BY <1>1, <2>1 DEF Cleared, w, c
    <3>2. QED
      BY <1>6, <2>6, <2>7, <3>1
  <2>10. Cleared(Axpy(One, s2, v)) /\ Axpy(One, s2, v)[pivot] = Zero
    BY <2>5, <2>8, <2>9 DEF Cleared
  <2>11. PICK t \in span' : t = s2
    BY <2>4
  <2>12. Cleared(Axpy(One, t, v))'
    BY <1>9, <2>10, <2>11
  <2>13. QED
    BY <2>12
<1>14. QED
  BY <1>3, <1>4, <1>10, <1>11, <1>12, <1>13 DEF RowsRepresentSpan

(***************************************************************************)
(* With K rows the span is everything, and with fewer there is a column    *)
(* without a pivot, whose unit vector is missing.                          *)
(***************************************************************************)
LEMMA CompleteSpan ==
  ASSUME IInv, SpanInv, rank = K
  PROVE  span = Vector
<1>1. /\ span \subseteq Vector
      /\ \A v \in Vector : \E s \in span : Cleared(Axpy(One, s, v))
  BY DEF SpanInv, RowsRepresentSpan, Space
<1>2. Rows = Cols /\ \A i \in Cols : pivot_col[i] = i
  BY FullRankPivots DEF IInv, Rows, Cols
<1>3. ASSUME NEW v \in Vector
      PROVE  v \in span
  <2>1. PICK s \in span : Cleared(Axpy(One, s, v))
    BY <1>1
  <2>2. s \in Vector
    BY <1>1
  <2>3. One \in Elem
    BY FieldAssumption
  <2>4. \A j \in Cols : Axpy(One, s, v)[j] = Zero
    BY <1>2, <2>1 DEF Cleared
  <2>5. ASSUME NEW e \in Elem, NEW f \in Elem, Plus(f, Times(One, e)) = Zero
        PROVE  f = e
    <3>1. Times(One, e) = e
      BY FieldAssumption
    <3>2. Plus(f, e) = Zero /\ Plus(Plus(f, e), e) = Plus(f, Plus(e, e))
      BY <2>5, <3>1, FieldAssumption
    <3>3. Plus(Plus(f, e), e) = f /\ Plus(Zero, e) = e
      BY <3>2, FieldAssumption
    <3>4. QED
      BY <3>2, <3>3
  <2>6. \A j \in Cols : v[j] = s[j]
    BY <2>2, <2>3, <2>4, <2>5, AxpyAt
  <2>7. v = s
    BY <2>2, <2>6, SameVector
  <2>8. QED
    BY <2>7
<1>4. QED
  BY <1>1, <1>3

(***************************************************************************)
(* A vector of the span is determined by its entries at the pivots, and    *)
(* these may be any: the span has as many dimensions as there are rows.    *)
(***************************************************************************)
LEMMA DistinctPivots ==
  ASSUME TypeOK, PivotInv
  PROVE  \A i, j \in Rows : pivot_col[i] = pivot_col[j] => i = j
<1> SUFFICES ASSUME NEW i \in Rows, NEW j \in Rows, pivot_col[i] = pivot_col[j], i < j
             PROVE  FALSE
  BY DEF Rows, TypeOK
<1>1. pivot_col[i] \in Int /\ pivot_col[j] \in Int /\ i \in Int /\ j \in Int
  BY DEF PivotInv, Cols, Rows
<1>2. pivot_col[j] - pivot_col[i] >= j - i
  BY DEF PivotInv
<1>3. QED
  BY <1>1, <1>2

LEMMA SpanSize ==
  ASSUME IInv, SpanInv
  PROVE  RankIsDimension
<1>1. /\ Space(span) /\ span \subseteq Vector
      /\ \A u \in span : Cleared(u) => u = ZeroVector
      /\ \A v \in Vector : \E s \in span : Cleared(Axpy(One, s, v))
  BY DEF SpanInv, RowsRepresentSpan, Space
<1>2. rank \in Nat /\ Rows = 0..(rank - 1) /\ \A i \in Rows : pivot_col[i] \in Cols
  BY SizeAssumption DEF IInv, TypeOK, PivotInv, Rows
<1>3. One \in Elem /\ Zero \in Elem
  BY FieldAssumption
<1>4. ASSUME NEW e \in Elem, NEW f \in Elem
      PROVE  Plus(f, Times(One, e)) = Zero <=> f = e
  <2>1. Times(One, e) = e /\ Plus(e, e) = Zero
    BY FieldAssumption
  <2>2. ASSUME Plus(f, e) = Zero
        PROVE  f = e
    <3>1. Plus(Plus(f, e), e) = Plus(f, Plus(e, e))
      BY FieldAssumption
    <3>2. Plus(f, Plus(e, e)) = f /\ Plus(Zero, e) = e
      BY <2>1, FieldAssumption
    <3>3. QED
      BY <2>2, <3>1, <3>2
  <2>3. QED
    BY <2>1, <2>2
<1> DEFINE g == [v \in span |-> [i \in Rows |-> v[pivot_col[i]]]]
<1>5. g \in [span -> [Rows -> Elem]]
  BY <1>1, <1>2 DEF Vector
<1>6. \A v \in span : \A i \in Rows : g[v][i] = v[pivot_col[i]]
  OBVIOUS
<1> HIDE DEF g
<1>7. ASSUME NEW u \in span, NEW v \in span, g[u] = g[v]
      PROVE  u = v
  <2>1. u \in Vector /\ v \in Vector /\ Axpy(One, u, v) \in span
    BY <1>1, <1>3 DEF Space
  <2>2. \A i \in Rows : u[pivot_col[i]] = v[pivot_col[i]]
    BY <1>6, <1>7
  <2>3. Cleared(Axpy(One, u, v))
    BY <1>2, <1>3, <1>4, <2>1, <2>2, AxpyAt DEF Cleared
  <2>4. Axpy(One, u, v) = ZeroVector
    BY <1>1, <2>1, <2>3
  <2>5. \A j \in Cols : Axpy(One, u, v)[j] = Zero
    BY <2>4 DEF ZeroVector
  <2>6. \A j \in Cols : u[j] = v[j]
    BY <1>3, <1>4, <2>1, <2>5, AxpyAt
  <2>7. QED
    BY <2>1, <2>6, SameVector
<1>8. ASSUME NEW t \in [Rows -> Elem]
      PROVE  \E u \in span : g[u] = t
  <2> DEFINE w == [j \in Cols |-> IF \E i \in Rows : pivot_col[i] = j
                                  THEN t[CHOOSE i \in Rows : pivot_col[i] = j] ELSE Zero]
  <2>1. w \in Vector
    BY <1>3 DEF Vector
  <2>2. ASSUME NEW i \in Rows
        PROVE  w[pivot_col[i]] = t[i]
    <3>1. PICK k : k = CHOOSE q \in Rows : pivot_col[q] = pivot_col[i]
      OBVIOUS
    <3>2. k \in Rows /\ pivot_col[k] = pivot_col[i]
      BY <3>1
    <3>3. k = i
      BY <3>2, DistinctPivots DEF IInv
    <3>4. QED
      BY <1>2, <3>1, <3>3
  <2> HIDE DEF w
  <2>3. PICK s \in span : Cleared(Axpy(One, s, w))
    BY <1>1, <2>1
  <2>4. s \in Vector
    BY <1>1
  <2>5. \A i \in Rows : s[pivot_col[i]] = w[pivot_col[i]]
    BY <1>2, <1>3, <1>4, <2>1, <2>3, <2>4, AxpyAt DEF Cleared
  <2>6. \A i \in Rows : g[s][i] = t[i]
    BY <1>6, <2>2, <2>5
  <2>7. g[s] \in [Rows -> Elem]
    BY <1>5
  <2>8. g[s] = [i \in Rows |-> g[s][i]] /\ t = [i \in Rows |-> t[i]]
    BY <2>7
  <2>9. g[s] = t
    BY <2>6, <2>8
  <2>10. QED
    BY <2>9
<1>9. Cardinality(span) = Cardinality([Rows -> Elem])
  BY <1>2, <1>5, <1>7, <1>8, SameSize
<1>10. QED
  BY <1>9 DEF RankIsDimension

LEMMA FreeColumn ==
  ASSUME TypeOK, PivotInv, rank < K
  PROVE  \E j \in Cols : \A i \in Rows : pivot_col[i] # j
<1>1. K \in Nat /\ rank \in Nat
  BY SizeAssumption DEF TypeOK
<1>2. \A i \in Rows : i \in Nat /\ i < rank /\ i \in Cols /\ pivot_col[i] \in Nat
  BY <1>1 DEF Rows, Cols, PivotInv
<1>3. \A i, j \in Rows : i < j => pivot_col[j] - pivot_col[i] >= j - i
  BY DEF PivotInv
<1> DEFINE S == {i \in Rows : pivot_col[i] # i}
<1>4. CASE S = {}
  <2>1. rank \in Cols
    BY <1>1 DEF Cols
  <2>2. \A i \in Rows : pivot_col[i] # rank
    BY <1>1, <1>2, <1>4
  <2>3. QED
    BY <2>1, <2>2
<1>5. CASE S # {}
  <2>1. PICK m \in S : \A i \in S : m <= i
    BY <1>2, <1>5, LeastElement
  <2>2. \A i \in Rows : i < m => pivot_col[i] = i
    BY <1>2, <2>1
  <2>3. pivot_col[m] > m
    <3>1. CASE m = 0
      BY <1>2, <2>1, <3>1
    <3>2. CASE m > 0
      <4>1. m - 1 \in Rows /\ m - 1 < m
        BY <1>1, <1>2, <2>1, <3>2 DEF Rows
      <4>2. pivot_col[m - 1] = m - 1 /\ pivot_col[m] - pivot_col[m - 1] >= m - (m - 1)
        BY <1>3, <2>1, <2>2, <4>1
      <4>3. QED
        BY <1>2, <2>1, <4>2
    <3>3. QED
      BY <1>2, <2>1, <3>1, <3>2
  <2>4. ASSUME NEW i \in Rows
        PROVE  pivot_col[i] # m
    <3>1. CASE i < m
      BY <1>2, <2>1, <2>2, <3>1
    <3>2. CASE i = m
      BY <2>1, <3>2
    <3>3. CASE i > m
      <4>1. pivot_col[i] - pivot_col[m] >= i - m
        BY <1>3, <2>1, <3>3
      <4>2. QED
        BY <1>2, <2>1, <2>3, <3>3, <4>1
    <3>4. QED
      BY <1>2, <2>1, <3>1, <3>2, <3>3
  <2>5. m \in Cols
    BY <1>2, <2>1
  <2>6. QED
    BY <2>4, <2>5
<1>6. QED
  BY <1>4, <1>5

LEMMA IncompleteSpan ==
  ASSUME IInv, SpanInv, rank # K
  PROVE  span # Vector
<1>1. rank < K
  BY SizeAssumption DEF IInv, TypeOK
<1>2. PICK j \in Cols : \A i \in Rows : pivot_col[i] # j
  BY <1>1, FreeColumn DEF IInv
<1>3. Unit(j) \in Vector /\ Unit(j) # ZeroVector
  <2>1. Unit(j) \in Vector /\ Unit(j)[j] = One /\ ZeroVector[j] = Zero
    BY FieldAssumption DEF Unit, Vector, ZeroVector
  <2>2. QED
    BY <2>1, FieldAssumption
<1>4. Cleared(Unit(j))
  BY <1>2 DEF Cleared, Unit, IInv, PivotInv
<1>5. QED
  BY <1>3, <1>4 DEF SpanInv, RowsRepresentSpan

(***************************************************************************)
(* Every step keeps the representation ...                                 *)
(***************************************************************************)
LEMMA PlainSpanReturn ==
  ASSUME IInv, SpanInv, NEW v, v # "busy", Return(v), UNCHANGED <<fields, span>>
  PROVE  SpanInv'
<1>1. RowsRepresentSpan'
  BY SpanKept DEF SpanInv, RowsRepresentSpan, fields
<1>2. PacketInv'
  BY DEF PacketInv, Return
<1>3. QED
  BY <1>1, <1>2 DEF SpanInv

LEMMA SpanInvStep ==
  ASSUME IInv, SpanInv, [HNext]_<<vars, span>>
  PROVE  SpanInv'
<1>1. CASE UNCHANGED <<vars, span>>
  BY <1>1 DEF vars, SpanInv, RowsRepresentSpan, PacketInv, Rows, Cleared
<1>2. ASSUME NEW c \in Vector, Receive(c), History
      PROVE  SpanInv'
  <2>1. /\ UNCHANGED <<coefficient_rows, rank, pivot_col, span>>
        /\ ret' = "busy" /\ packet' = c /\ coefficients' = c
    BY <1>2 DEF Receive, ReceivePacket, fields, History, Answered
  <2>2. RowsRepresentSpan'
    BY <2>1, SpanKept DEF SpanInv, RowsRepresentSpan
  <2>3. Axpy(One, c, c) = ZeroVector /\ ZeroVector \in span /\ One \in Elem \ {Zero}
    BY FromZero, FieldAssumption DEF SpanInv, RowsRepresentSpan, Space
  <2>4. PacketInv'
    BY <2>1, <2>3 DEF PacketInv
  <2>5. QED
    BY <2>2, <2>4 DEF SpanInv
<1>3. ASSUME NEW cl, NEW pl, ReceiveMismatch(cl, pl) \/ DecodeIncomplete \/ DecodeAgain \/ FinishDecode, History
      PROVE  SpanInv'
  <2>1. ret # "busy" /\ span' = span
    BY <1>3 DEF ReceiveMismatch, DecodeIncomplete, DecodeAgain, FinishDecode,
                History, Answered, IInv, ControlInv
  <2>2. UNCHANGED <<coefficient_rows, rank, pivot_col>> /\ ret' # "busy" /\ packet' = ZeroVector
    BY <1>3 DEF ReceiveMismatch, DecodeIncomplete, DecodeAgain, FinishDecode, fields, Return
  <2>3. RowsRepresentSpan'
    BY <2>1, <2>2, SpanKept DEF SpanInv, RowsRepresentSpan
  <2>4. QED
    BY <2>2, <2>3 DEF SpanInv, PacketInv
<1>4. ASSUME BeginDecode \/ BeginReduce \/ BeginPayload \/ ReducePayload \/ NextPivot, History
      PROVE  SpanInv'
  <2>1. UNCHANGED <<coefficient_rows, rank, pivot_col, ret, packet, coefficients, span>>
    BY <1>4 DEF BeginDecode, BeginReduce, BeginPayload, ReducePayload, NextPivot, fields,
                History, Answered
  <2>2. QED
    BY <2>1 DEF SpanInv, RowsRepresentSpan, PacketInv, Rows, Cleared
<1>5. ASSUME ReceiveWhenComplete \/ Dependent, History
      PROVE  SpanInv' /\ packet \in span
  <2>1. packet \in span
    <3>1. CASE ReceiveWhenComplete
      <4>1. span = Vector
        BY <3>1, CompleteSpan DEF ReceiveWhenComplete, IsComplete
      <4>2. QED
        BY <4>1 DEF IInv, TypeOK
    <3>2. CASE Dependent
      <4>1. /\ pc = "reduce" /\ coefficients = ZeroVector
            /\ \A i \in Rows : coefficients[pivot_col[i]] = Zero
        BY <3>2 DEF Dependent, IInv, PivotInv, ZeroVector
      <4>2. QED
        BY <4>1, Reduced
    <3>3. QED
      BY <1>5, <3>1, <3>2
  <2>2. span' = span
    BY <1>5, <2>1 DEF History
  <2>3. SpanInv'
    BY <1>5, <2>2, PlainSpanReturn DEF ReceiveWhenComplete, Dependent
  <2>4. QED
    BY <2>1, <2>3
<1>6. ASSUME Reduce, History
      PROVE  SpanInv'
  <2> DEFINE coeff == coefficients[pivot_col[r]]
             row   == coefficient_rows[r]
  <2>1. /\ r \in Rows /\ coeff \in Elem
        /\ coefficients' = Axpy(coeff, row, coefficients)
    BY <1>6, ReduceEffect DEF IInv
  <2>2. UNCHANGED <<coefficient_rows, rank, pivot_col, packet, ret, span>>
    BY <1>6 DEF Reduce, History, Answered
  <2>3. row \in span /\ Space(span) /\ packet \in Vector /\ coefficients \in Vector
    BY <2>1 DEF SpanInv, RowsRepresentSpan, IInv, TypeOK
  <2>4. ret = "busy"
    BY <1>6 DEF Reduce, IInv, ControlInv
  <2>5. PICK a \in Elem \ {Zero} : Axpy(a, packet, coefficients) \in span
    BY <2>4 DEF SpanInv, PacketInv
  <2>6. Axpy(a, packet, coefficients') = Axpy(coeff, row, Axpy(a, packet, coefficients))
    BY <2>1, <2>3, AxpyCommute DEF Space
  <2>7. Axpy(a, packet, coefficients') \in span
    BY <2>1, <2>3, <2>5, <2>6 DEF Space
  <2>8. RowsRepresentSpan'
    BY <2>2, SpanKept DEF SpanInv, RowsRepresentSpan
  <2>9. QED
    BY <2>2, <2>4, <2>5, <2>7, <2>8 DEF SpanInv, PacketInv
<1>7. ASSUME Normalise, History
      PROVE  SpanInv'
  <2> DEFINE inv == Reciprocal(coefficients[PivotOf(coefficients)])
  <2>1. UNCHANGED <<coefficient_rows, rank, pivot_col, packet, ret, span>>
    BY <1>7 DEF Normalise, fields, History, Answered
  <2>2. /\ coefficients \in Vector /\ packet \in Vector /\ Space(span)
        /\ coefficients # ZeroVector /\ ret = "busy"
    BY <1>7 DEF Normalise, IInv, TypeOK, RemainderInv, ControlInv, SpanInv, RowsRepresentSpan
  <2>3. /\ PivotOf(coefficients) \in Cols /\ coefficients[PivotOf(coefficients)] \in Elem \ {Zero}
        /\ \A j \in Cols : j < PivotOf(coefficients) => coefficients[j] = Zero
    BY <2>2, PivotExists DEF Vector
  <2>4. PICK a \in Elem \ {Zero} : Axpy(a, packet, coefficients) \in span
    BY <2>2 DEF SpanInv, PacketInv
  <2>5. RowsRepresentSpan'
    BY <2>1, SpanKept DEF SpanInv, RowsRepresentSpan
  <2>6. \E b \in Elem \ {Zero} : Axpy(b, packet, coefficients') \in span
    <3>1. CASE coefficients' = coefficients
      BY <2>4, <3>1
    <3>2. CASE coefficients' = ScaleFrom(PivotOf(coefficients), inv, coefficients)
      <4>1. inv \in Elem /\ inv # Zero
        <5>1. ASSUME NEW e \in Elem \ {Zero}
              PROVE  Reciprocal(e) \in Elem /\ Reciprocal(e) # Zero
          <6>1. Reciprocal(e) \in Elem /\ Times(Reciprocal(e), e) = One
            BY FieldAssumption
          <6>2. Times(Zero, e) = Zero /\ Zero # One
            BY FieldAssumption
          <6>3. QED
            BY <6>1, <6>2
        <5>2. QED
          BY <2>3, <5>1
      <4>2. coefficients' = Scale(inv, coefficients)
        BY <2>2, <2>3, <3>2, <4>1, ScaleSuffix
      <4>3. Times(inv, a) \in Elem \ {Zero}
        BY <4>1, NoZeroDivisors
      <4>4. Axpy(Times(inv, a), packet, coefficients') = Scale(inv, Axpy(a, packet, coefficients))
        BY <2>2, <4>1, <4>2, ScaledCoset
      <4>5. Scale(inv, Axpy(a, packet, coefficients)) \in span
        BY <2>2, <2>4, <4>1, MultipleIn
      <4>6. QED
        BY <4>3, <4>4, <4>5
    <3>3. QED
      BY <1>7, <3>1, <3>2 DEF Normalise
  <2>7. QED
    BY <2>1, <2>2, <2>5, <2>6 DEF SpanInv, PacketInv
<1>8. ASSUME Insert, History
      PROVE  SpanInv'
  <2>1. RowsRepresentSpan'
    BY <1>8, InsertSpan
  <2>2. PacketInv'
    BY <1>8 DEF Insert, Return, PacketInv
  <2>3. QED
    BY <2>1, <2>2 DEF SpanInv
<1>9. ASSUME BackSubstitute, History
      PROVE  SpanInv'
  <2>1. UNCHANGED <<rank, pivot_col, ret, packet, coefficients, span>> /\ rank = K
    BY <1>9 DEF BackSubstitute, History, Answered, IInv, ControlInv, IsComplete
  <2>2. coefficient_rows' \in [Cols -> Vector] /\ Rows = Cols
    BY <1>9, <2>1, BackSubstituteEffect DEF Rows, Cols
  <2>3. span = Vector
    BY <2>1, CompleteSpan
  <2>4. RowsRepresentSpan'
    BY <2>1, <2>2, <2>3, SpanKept DEF SpanInv
  <2>5. QED
    BY <2>1, <2>4 DEF SpanInv, PacketInv
<1>10. QED
  BY <1>1, <1>2, <1>3, <1>4, <1>5, <1>6, <1>7, <1>8, <1>9 DEF HNext, HStep, Call, Step

(***************************************************************************)
(* ... and is a step of the specification or changes nothing it sees.      *)
(***************************************************************************)
LEMMA StepImplements ==
  ASSUME IInv, IInv', SpanInv, [HNext]_<<vars, span>>
  PROVE  [Promise!Next]_(Promise!specVars)
<1> USE DEF Promise!specVars
<1>1. CASE UNCHANGED <<vars, span>>
  BY <1>1 DEF vars
<1>2. ASSUME NEW c \in Vector, Receive(c), History
      PROVE  Promise!Receive
  <2>1. ret # "busy" /\ ret' = "busy" /\ packet' = c /\ UNCHANGED <<span, symbols>>
    BY <1>2 DEF Receive, ReceivePacket, IInv, ControlInv, History, Answered
  <2>2. QED
    BY <2>1, SameNotions DEF Promise!Receive
<1>3. ASSUME NEW cl, NEW pl, ReceiveMismatch(cl, pl), History
      PROVE  Promise!Refuse
  <2>1. ret # "busy" /\ ret' = "mismatch" /\ packet' = ZeroVector /\ UNCHANGED <<span, symbols>>
    BY <1>3 DEF ReceiveMismatch, Return, IInv, ControlInv, History, Answered
  <2>2. packet = ZeroVector
    BY <2>1 DEF SpanInv, PacketInv
  <2>3. QED
    BY <2>1, <2>2 DEF Promise!Refuse
<1>4. ASSUME DecodeIncomplete, History
      PROVE  Promise!DecodeNothing
  <2>1. /\ ret # "busy" /\ ret' = "incomplete" /\ packet' = ZeroVector /\ rank # K
        /\ UNCHANGED <<span, symbols>>
    BY <1>4 DEF DecodeIncomplete, IsComplete, Return, IInv, ControlInv, History, Answered
  <2>2. packet = ZeroVector /\ span # Vector
    BY <2>1, IncompleteSpan DEF SpanInv, PacketInv
  <2>3. QED
    BY <2>1, <2>2, SameNotions DEF Promise!DecodeNothing
<1>5. ASSUME DecodeAgain \/ FinishDecode, History
      PROVE  Promise!DecodeAll
  <2>1. /\ ret # "busy" /\ ret' = "symbols" /\ packet' = ZeroVector /\ rank = K
        /\ UNCHANGED span
    BY <1>5 DEF DecodeAgain, FinishDecode, IsComplete, Return, IInv, ControlInv, History, Answered
  <2>2. packet = ZeroVector /\ span = Vector
    BY <2>1, CompleteSpan DEF SpanInv, PacketInv
  <2>3. symbols' = Source
    BY <2>1 DEF IInv, DecodedIsSource
  <2>4. QED
    BY <2>1, <2>2, <2>3, SameNotions DEF Promise!DecodeAll
<1>6. ASSUME BeginDecode \/ BeginReduce \/ Reduce \/ BeginPayload \/ ReducePayload
               \/ Normalise \/ BackSubstitute \/ NextPivot,
             History
      PROVE  UNCHANGED Promise!specVars
  BY <1>6 DEF BeginDecode, BeginReduce, Reduce, BeginPayload, ReducePayload, Normalise,
              BackSubstitute, NextPivot, History, Answered
<1>7. ASSUME ReceiveWhenComplete \/ Dependent, History
      PROVE  Promise!Redundant
  <2>1. packet \in span
    <3>1. CASE ReceiveWhenComplete
      BY <3>1, CompleteSpan DEF ReceiveWhenComplete, IsComplete, IInv, TypeOK
    <3>2. CASE Dependent
      <4>1. /\ pc = "reduce" /\ coefficients = ZeroVector
            /\ \A i \in Rows : coefficients[pivot_col[i]] = Zero
        BY <3>2 DEF Dependent, IInv, PivotInv, ZeroVector
      <4>2. QED
        BY <4>1, Reduced
    <3>3. QED
      BY <1>7, <3>1, <3>2
  <2>2. /\ ret = "busy" /\ ret' = "dependent" /\ packet' = ZeroVector
        /\ UNCHANGED <<span, symbols>>
    BY <1>7, <2>1 DEF ReceiveWhenComplete, Dependent, Return, IInv, ControlInv, History
  <2>3. QED
    BY <2>1, <2>2, SameNotions DEF Promise!Redundant
<1>8. ASSUME Insert, History
      PROVE  Promise!Innovative
  <2>1. packet \notin span /\ span' = Extend(span, packet)
    BY <1>8, InsertSpan
  <2>2. ret = "busy" /\ ret' = "innovative" /\ packet' = ZeroVector /\ UNCHANGED symbols
    BY <1>8 DEF Insert, Return, IInv, ControlInv
  <2>3. QED
    BY <2>1, <2>2, SameNotions DEF Promise!Innovative
<1>9. QED
  BY <1>1, <1>2, <1>3, <1>4, <1>5, <1>6, <1>7, <1>8
  DEF HNext, HStep, Call, Step, Promise!Next

LEMMA HistoryIsASpec == HSpec => [](IInv /\ SpanInv)
<1>1. HInit => IInv /\ SpanInv
  BY InitIInv, InitSpanInv DEF HInit
<1>2. IInv /\ SpanInv /\ [HNext]_<<vars, span>> => IInv' /\ SpanInv'
  <2>1. [HNext]_<<vars, span>> => [Next]_vars
    BY DEF HNext, HStep, Next
  <2>2. QED
    BY <2>1, StepIInv, SpanInvStep
<1>3. QED
  BY <1>1, <1>2, PTL DEF HSpec

(***************************************************************************)
(* The decoder keeps the safety of DecoderSpec: whatever arrives in        *)
(* whatever order, receive answers "innovative" exactly for packets        *)
(* outside the span of the earlier ones, and decode returns the source     *)
(* symbols exactly when that span is everything. That receive answers at   *)
(* all is the fairness of DecoderSpec and left to the model checker.       *)
(***************************************************************************)
THEOREM DecoderImplementsPromise == HSpec => PromiseSafety
<1>1. HInit => Promise!Init
  BY SameNotions DEF HInit, Init, Promise!Init
<1>2. IInv /\ IInv' /\ SpanInv /\ [HNext]_<<vars, span>> => [Promise!Next]_(Promise!specVars)
  BY StepImplements
<1>3. QED
  BY <1>1, <1>2, HistoryIsASpec, PTL DEF HSpec, PromiseSafety

(***************************************************************************)
(* rank is the dimension of the span of the packets that receive has       *)
(* answered: none was counted twice, and none that added to the span was   *)
(* thrown away.                                                            *)
(***************************************************************************)
THEOREM RankCountsIndependentPackets == HSpec => []RankIsDimension
BY HistoryIsASpec, SpanSize, PTL
=============================================================================
