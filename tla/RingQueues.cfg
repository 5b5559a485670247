SPECIFICATION Spec
CONSTANTS
  Node = {n1, n2, n3, n4, n5}
  Sem = {s1, s2}
  NULL = NULL
SYMMETRY Interchangeable
INVARIANTS
  RingsHoldQueues
  WalkKeepsItsPlace
