SPECIFICATION Spec
INVARIANTS TablesArePolynomial FieldLaws NibblesAreProduct
