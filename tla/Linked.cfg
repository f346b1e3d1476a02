SPECIFICATION Spec
CONSTANTS
  Node = {a, b, c, d}
  Null = Null
INVARIANTS Mutual
PROPERTIES ImplementsChains
