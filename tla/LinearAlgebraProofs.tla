------------------------ MODULE LinearAlgebraProofs ------------------------
(***************************************************************************)
(* Facts about the vector operations of module LinearAlgebra, each stated  *)
(* once for the proofs about the components.                               *)
(***************************************************************************)
EXTENDS LinearAlgebra, FiniteSetTheorems, WellFoundedInduction, TLAPS

(***************************************************************************)
(* A nonempty set of naturals has a least element. The searches of the     *)
(* code for a first column or row (position) return it.                    *)
(***************************************************************************)
LEMMA LeastElement ==
  ASSUME NEW S, S \subseteq Nat, S # {}
  PROVE  \E m \in S : \A n \in S : m <= n
<1> DEFINE R == OpToRel(<, Nat)
<1>1. IsWellFoundedOn(R, Nat)
  BY NatLessThanWellFounded
<1>2. \A m, n \in Nat : <<n, m>> \in R <=> n < m
  BY DEF OpToRel
<1> HIDE DEF R
<1>3. PICK x \in S : \A y \in S : <<y, x>> \notin R
  BY <1>1, WFMin
<1>4. \A y \in S : ~(y < x)
  BY <1>2, <1>3
<1>5. QED
  BY <1>4

(***************************************************************************)
(* Induction, on a set instead of a predicate: the least number outside it *)
(* would have a predecessor inside.                                        *)
(***************************************************************************)
LEMMA SetInduction ==
  ASSUME NEW S, 0 \in S, \A n \in Nat : n \in S => n + 1 \in S
  PROVE  Nat \subseteq S
<1> SUFFICES ASSUME Nat \ S # {}
             PROVE  FALSE
  OBVIOUS
<1>1. PICK m \in Nat \ S : \A n \in Nat \ S : m <= n
  BY LeastElement
<1>2. m - 1 \in Nat /\ m - 1 \in S
  BY <1>1
<1>3. QED
  BY <1>1, <1>2

(***************************************************************************)
(* There are finitely many choices of n elements: a choice is determined   *)
(* by its graph.                                                           *)
(***************************************************************************)
LEMMA FiniteFunctions ==
  ASSUME NEW n \in Nat
  PROVE  IsFiniteSet([0..(n - 1) -> Elem])
<1> DEFINE D     == 0..(n - 1)
           F     == [D -> Elem]
           G     == SUBSET (D \X Elem)
           graph == [f \in F |-> {<<i, f[i]>> : i \in D}]
<1>1. IsFiniteSet(D)
  BY FS_Interval
<1>2. IsFiniteSet(D \X Elem)
  BY <1>1, FiniteField, FS_Product
<1>3. IsFiniteSet(G)
  BY <1>2, FS_SUBSET
<1>4. graph \in [F -> G]
  OBVIOUS
<1>5. ASSUME NEW f \in F, NEW g \in F, graph[f] = graph[g]
      PROVE  f = g
  <2>1. ASSUME NEW i \in D
        PROVE  f[i] = g[i]
    <3>1. <<i, f[i]>> \in graph[g]
      BY <1>5
    <3>2. PICK k \in D : <<i, f[i]>> = <<k, g[k]>>
      BY <3>1
    <3>3. QED
      BY <3>2
  <2>2. f = [i \in D |-> f[i]] /\ g = [i \in D |-> g[i]]
    OBVIOUS
  <2>3. QED
    BY <2>1, <2>2
<1>6. DOMAIN graph = F
  OBVIOUS
<1> HIDE DEF D, F, G, graph
<1>7. graph \in Injection(F, G)
  BY <1>4, <1>5, <1>6 DEF Injection, IsInjective
<1>8. IsFiniteSet(F)
  BY <1>3, <1>7, FS_Injection
<1>9. QED
  BY <1>8 DEF F, D

(***************************************************************************)
(* A space whose members are determined by n of their entries, which may   *)
(* be any, has as many members as there are choices of n elements.         *)
(***************************************************************************)
LEMMA SameSize ==
  ASSUME NEW S, NEW n \in Nat, NEW g \in [S -> [0..(n - 1) -> Elem]],
         \A u, v \in S : g[u] = g[v] => u = v,
         \A t \in [0..(n - 1) -> Elem] : \E u \in S : g[u] = t
  PROVE  Cardinality(S) = Cardinality([0..(n - 1) -> Elem])
<1> DEFINE T == [0..(n - 1) -> Elem]
<1>1. IsFiniteSet(T)
  BY FiniteFunctions
<1>2. DOMAIN g = S /\ g \in [S -> T] /\ \A t \in T : \E u \in S : g[u] = t
  OBVIOUS
<1> HIDE DEF T
<1>3. g \in Injection(S, T)
  BY <1>2 DEF Injection, IsInjective
<1>4. g \in Surjection(S, T)
  BY <1>2 DEF Surjection
<1>5. Cardinality(S) = Cardinality(T)
  BY <1>1, <1>3, <1>4, FS_Injection
<1>6. QED
  BY <1>5 DEF T

LEMMA ZeroTypes == ZeroVector \in Vector /\ ZeroPayload \in Payload
BY FieldAssumption DEF Vector, Payload, ZeroVector, ZeroPayload

(***************************************************************************)
(* axpy of vectors is a vector, whatever suffix it is applied to.          *)
(***************************************************************************)
LEMMA AxpyFromType ==
  ASSUME NEW from \in Nat, NEW c \in Elem, NEW x \in Vector, NEW y \in Vector
  PROVE  /\ AxpyFrom(from, c, x, y) \in Vector
         /\ \A j \in Cols : AxpyFrom(from, c, x, y)[j] =
              IF j >= from THEN Plus(y[j], Times(c, x[j])) ELSE y[j]
BY FieldAssumption DEF AxpyFrom, Vector

LEMMA AxpyPayloadType ==
  ASSUME NEW c \in Elem, NEW x \in Payload, NEW y \in Payload
  PROVE  Axpy(c, x, y) \in Payload
BY FieldAssumption DEF Axpy, AxpyFrom, Payload

LEMMA ScaleFromType ==
  ASSUME NEW from \in Nat, NEW c \in Elem, NEW y \in Vector
  PROVE  /\ ScaleFrom(from, c, y) \in Vector
         /\ \A j \in Cols : ScaleFrom(from, c, y)[j] =
              IF j >= from THEN Times(c, y[j]) ELSE y[j]
BY FieldAssumption DEF ScaleFrom, Vector

LEMMA ScalePayloadType ==
  ASSUME NEW c \in Elem, NEW y \in Payload
  PROVE  Scale(c, y) \in Payload
BY FieldAssumption DEF Scale, ScaleFrom, Payload

(***************************************************************************)
(* axpy with coefficient zero changes nothing, so the code may skip it.    *)
(***************************************************************************)
LEMMA AxpyZero ==
  /\ \A x, y \in Vector : Axpy(Zero, x, y) = y
  /\ \A x, y \in Payload : Axpy(Zero, x, y) = y
<1>1. ASSUME NEW a \in Elem, NEW b \in Elem
      PROVE  Plus(b, Times(Zero, a)) = b
  BY FieldAssumption
<1>2. QED
  BY <1>1 DEF Axpy, AxpyFrom, Vector, Payload

(***************************************************************************)
(* The code skips the prefix of a row that is known to be zero: axpy and   *)
(* scale of the suffix are axpy and scale of the whole vector.             *)
(***************************************************************************)
LEMMA AxpySuffix ==
  ASSUME NEW col \in Cols, NEW c \in Elem, NEW x \in Vector, NEW y \in Vector,
         \A j \in Cols : j < col => x[j] = Zero
  PROVE  AxpyFrom(col, c, x, y) = Axpy(c, x, y)
<1>1. ASSUME NEW b \in Elem
      PROVE  Plus(b, Times(c, Zero)) = b
  BY FieldAssumption
<1>2. QED
  BY <1>1, SizeAssumption DEF Axpy, AxpyFrom, Vector, Cols

LEMMA ScaleSuffix ==
  ASSUME NEW col \in Cols, NEW c \in Elem, NEW y \in Vector,
         \A j \in Cols : j < col => y[j] = Zero
  PROVE  ScaleFrom(col, c, y) = Scale(c, y)
<1>1. Times(c, Zero) = Zero
  BY FieldAssumption
<1>2. QED
  BY <1>1, SizeAssumption DEF Scale, ScaleFrom, Vector, Cols

(***************************************************************************)
(* The sums of the senders start from zero, the code of the zero vector.   *)
(***************************************************************************)
LEMMA CodeOfZero == Code(ZeroVector) = ZeroPayload
<1>1. Scale(Zero, ZeroVector) = ZeroVector
  BY FieldAssumption DEF Scale, ScaleFrom, ZeroVector, Cols
<1>2. \A p \in Payload : Scale(Zero, p) = ZeroPayload
  <2>1. \A a \in Elem : Times(Zero, a) = Zero
    BY FieldAssumption
  <2>2. QED
    BY <2>1 DEF Scale, ScaleFrom, Payload, ZeroPayload
<1>3. Code(ZeroVector) \in Payload
      /\ Code(Scale(Zero, ZeroVector)) = Scale(Zero, Code(ZeroVector))
  BY CodeAssumption, ZeroTypes, FieldAssumption
<1>4. QED
  BY <1>1, <1>2, <1>3

LEMMA UnitTypes ==
  ASSUME NEW i \in Cols
  PROVE  Unit(i) \in Vector /\ Source[i] \in Payload /\ Unit(i) # ZeroVector
<1>1. Unit(i) \in Vector /\ Unit(i)[i] = One
  BY FieldAssumption DEF Unit, Vector
<1>2. Unit(i) # ZeroVector
  BY <1>1, FieldAssumption DEF ZeroVector
<1>3. QED
  BY <1>1, <1>2, CodeAssumption DEF Source
=============================================================================
